-------------------------- MODULE ZoneProbeProofs --------------------------
(***************************************************************************)
(* The goroutine of a zone, step by step.                                  *)
(*                                                                         *)
(* CheckType says what the variables of a check hold at each of its stages *)
(* and which question may be out; the verdicts rest on it.  A check shares *)
(* only its results and the log with the others, so that what holds of its *)
(* results while it runs (in terms of its caches) holds in other terms     *)
(* once it has ended.                                                      *)
(***************************************************************************)
EXTENDS ZoneProbe, NameserversProofs

MXRecords == [target : Hosts, preference : Nat]
Target == [host : Hosts \cup {NoHost}, ip : Addrs \cup {NoIP}]
Questions == [check : Checks, type : QueryTypes, name : Hosts \cup {"zone", "_dmarc"},
              ns : Target]
Silences == {Silence(kind) : kind \in {"timeout", "error"}}

Caches == [Hosts -> {"unknown", "yes", "no"}]
ToDo == Seq(Questions)
Left == Seq(Hosts) \cup Seq(MXRecords)
Own == Seq(Server)
Emitted == SUBSET (Server \cup Hosts)
Self == SUBSET Hosts
Stages == {"start", "servers", "dmarc", "cname", "addresses", "classify", "stealth",
           "targets"}

LocalsType ==
    [cache : Caches, stage : Stages, todo : ToDo, left : Left, own : Own, hop : Nat,
     emitted : Emitted, self : Self]

StagesOf(c) ==
    CASE c \in {"soa", "recursion"} -> {"servers"}
      [] c = "ns_hostname" -> {"servers", "cname"}
      [] c = "glue" -> {"start", "servers", "addresses"}
      [] c = "ns_classification" -> {"servers", "classify", "stealth"}
      [] c = "mx" -> {"servers", "targets"}
      [] c = "email_auth" -> {"servers", "dmarc"}

\* The questions that a check may still have, by its stage.
IsAlias(q, ns) == q = Question("CNAME", ns.host, [host |-> NoHost, ip |-> NoIP])
IsAddress(q, ns) ==
    \E type \in {"A", "AAAA"} : \E h \in Hosts : q = Question(type, h, ns)
IsStealth(q, h) ==
    \E ip \in Addrs : q = Question("SOA", "zone", [host |-> h, ip |-> ip])

\* What the local variables l hold when it is the turn of nameserver a.
LocalFits(l, a) ==
    /\ l \in LocalsType /\ l.stage \in StagesOf(check)
    /\ a \in 1..(Len(nameservers) + 1)
    /\ l.stage \in {"start", "servers", "dmarc", "cname", "addresses"} => l.left = <<>>
    /\ l.stage \in {"cname", "addresses"} => a <= Len(nameservers)
    /\ l.stage = "cname" =>
          Len(l.todo) = 1 /\ IsAlias(l.todo[1], nameservers[a])
             /\ l.cache[nameservers[a].host] = "unknown"
    /\ l.stage = "addresses" => \A k \in 1..Len(l.todo) : IsAddress(l.todo[k], nameservers[a])
    /\ l.stage \in {"classify", "stealth", "targets"} => a = Len(nameservers) + 1
    /\ l.stage \in {"classify", "stealth"} => l.left \in Seq(Hosts)
    /\ l.stage = "stealth" =>
          /\ l.left # <<>> /\ l.todo # <<>>
          /\ \A k \in 1..Len(l.todo) : IsStealth(l.todo[k], Head(l.left))
    /\ l.stage = "targets" => l.left \in Seq(MXRecords)

\* The question that is out.
QueryFits ==
    \/ /\ local.stage \in {"servers", "dmarc"} /\ check # "ns_hostname"
       /\ at <= Len(nameservers)
       /\ query = Question(QueryType, Name, Current)
    \/ /\ local.stage \in {"cname", "addresses", "stealth"}
       /\ local.todo # <<>> /\ query = Head(local.todo)

ReplyFits ==
    /\ reply \in Answers[query.type] \cup Silences
    /\ reply.status = "timeout" => query.ns.ip \in silent

ExchangeType ==
    /\ query # Nil => check # Nil /\ query \in Questions /\ QueryFits
    /\ firstErr \in {Nil, "timeout", "error"}
    /\ firstErr # Nil => query # Nil /\ reply = Nil
    /\ reply # Nil => query # Nil /\ ReplyFits

\* The checks that report no failure: they settle without an answer, or say
\* nothing.
Unfailing == {"ns_classification", "email_auth"}

\* What every result of the zone's checks is like.
ResultFits(r) ==
    /\ r \in ProbeResult /\ r.zone = Zone /\ r.check \in ran
    /\ r.timedOut => r.ip \in silent
    /\ r.check \in Unfailing => r.ok
    /\ "mx_info" \in DOMAIN r.metrics => {"target", "priority"} \subseteq DOMAIN r.labels

CheckType ==
    /\ probers \subseteq Checks /\ ran \subseteq probers /\ check \in ran \cup {Nil}
    /\ expired \in BOOLEAN /\ silent \subseteq Addrs \cup {NoIP}
    /\ check = Nil => at = 1 /\ local = Locals
    /\ check # Nil => discovery = "done" /\ LocalFits(local, at)
    /\ ExchangeType
    /\ results \in Seq(ProbeResult) /\ \A k \in 1..Len(results) : ResultFits(results[k])
    /\ ran # {} => discovery = "done" /\ nameservers # <<>>

ZoneType ==
    /\ WalkInv /\ DiscoveryInv /\ CheckType
    /\ discovery # "idle" => walk = "delegated"
-----------------------------------------------------------------------------
(* What a check starts from when it looks at a reply.                      *)

\* The nameserver whose turn it is has been asked.
LEMMA TurnFits ==
    ASSUME CheckType, DiscoveryInv, reply # Nil, local.stage \in {"servers", "dmarc"}
    PROVE  /\ check \in Checks \ {"ns_hostname"} /\ at \in 1..Len(nameservers)
           /\ Current \in Server /\ query = Question(QueryType, Name, Current)
           /\ LocalFits(local, at)
<1>1. /\ query # Nil /\ check # Nil /\ LocalFits(local, at) /\ QueryFits
  BY DEF CheckType, ExchangeType
<1>2. /\ check # "ns_hostname" /\ at <= Len(nameservers)
      /\ query = Question(QueryType, Name, Current)
  BY <1>1 DEF QueryFits
<1>3. nameservers \in Seq(Server) /\ Len(nameservers) \in Nat
  BY DEF DiscoveryInv, DiscoveryType
<1>4. at \in 1..Len(nameservers)
  BY <1>1, <1>2, <1>3 DEF LocalFits
<1>5. Current \in Server
  BY <1>3, <1>4 DEF Current
<1>6. check \in Checks
  BY <1>1 DEF CheckType
<1> QED
  BY <1>1, <1>2, <1>4, <1>5, <1>6

\* The stage of a check tells what it has asked for.
LEMMA StageOfReply ==
    ASSUME CheckType, DiscoveryInv, reply # Nil
    PROVE  /\ local.stage \in {"servers", "dmarc", "cname", "addresses", "stealth"}
           /\ query.type = "CNAME" <=> local.stage = "cname"
           /\ query.type \in {"A", "AAAA"} <=> local.stage = "addresses"
           /\ local.stage = "stealth" => query.type = "SOA" /\ check = "ns_classification"
           /\ local.stage \in {"servers", "dmarc"} => query.type = QueryType
           /\ local.stage \in {"cname", "addresses", "stealth"} =>
                 local.todo # <<>> /\ query = local.todo[1]
<1>1. /\ query # Nil /\ check \in Checks /\ LocalFits(local, at) /\ QueryFits
  BY DEF CheckType, ExchangeType
<1>2. local.stage \in StagesOf(check) /\ local.todo \in Seq(Questions)
  BY <1>1 DEF LocalFits, LocalsType, ToDo
<1>3. CASE local.stage \in {"servers", "dmarc"}
  <2>1. query = Question(QueryType, Name, Current) /\ check # "ns_hostname"
    BY <1>1, <1>3 DEF QueryFits
  <2>2. query.type = QueryType
    BY <2>1 DEF Question
  <2>3. QueryType \in {"SOA", "NS", "MX", "TXT"}
    BY <1>1, <2>1 DEF QueryType, Checks
  <2> QED
    BY <1>3, <2>2, <2>3
<1>4. CASE local.stage \notin {"servers", "dmarc"}
  <2>1. /\ local.stage \in {"cname", "addresses", "stealth"}
        /\ local.todo # <<>> /\ query = local.todo[1]
    BY <1>1, <1>2, <1>4 DEF QueryFits
  <2>2. 1 \in 1..Len(local.todo)
    BY <1>2, <2>1
  <2>3. CASE local.stage = "cname"
    BY <1>1, <2>1, <2>2, <2>3 DEF LocalFits, IsAlias, Question
  <2>4. CASE local.stage = "addresses"
    <3>1. IsAddress(query, nameservers[at])
      BY <1>1, <2>1, <2>2, <2>4 DEF LocalFits
    <3>2. query.type \in {"A", "AAAA"}
      BY <3>1 DEF IsAddress, Question
    <3> QED
      BY <2>1, <2>4, <3>2
  <2>5. CASE local.stage = "stealth"
    <3>1. IsStealth(query, Head(local.left))
      BY <1>1, <2>1, <2>2, <2>5 DEF LocalFits
    <3>2. query.type = "SOA"
      BY <3>1 DEF IsStealth, Question
    <3>3. check = "ns_classification"
      BY <1>1, <1>2, <2>5 DEF StagesOf, Checks
    <3> QED
      BY <2>1, <2>5, <3>2, <3>3
  <2> QED
    BY <2>1, <2>3, <2>4, <2>5
<1> QED
  BY <1>3, <1>4

\* It is what a failed exchange is put down to.
LEMMA TimeoutIsReal ==
    ASSUME CheckType, DiscoveryInv, reply # Nil, local.stage \in {"servers", "dmarc"}
    PROVE  reply.status = "timeout" => Current.ip \in silent
<1>1. query = Question(QueryType, Name, Current)
  BY TurnFits
<1>2. query.ns = Current
  BY <1>1 DEF Question
<1> QED
  BY <1>2 DEF CheckType, ExchangeType, ReplyFits

\* The nameserver's turn is over, or that of another begins.
LEMMA NextTurn ==
    ASSUME LocalFits(local, at), local.stage \in {"servers", "dmarc"},
           NEW n \in 1..(Len(nameservers) + 1)
    PROVE  LocalFits(local, n)
BY DEF LocalFits

\* The results that the running check may append.
NewFit(new) ==
    /\ new \in Seq(ProbeResult)
    /\ \A k \in 1..Len(new) : ResultFits(new[k]) /\ new[k].check = check

LEMMA NoneFits == NewFit(<<>>)
BY DEF NewFit

LEMMA OneFits ==
    ASSUME NEW r, ResultFits(r), r.check = check
    PROVE  NewFit(<<r>>)
<1>1. r \in ProbeResult
  BY DEF ResultFits
<1>2. <<r>> \in Seq(ProbeResult) /\ Len(<<r>>) = 1 /\ <<r>>[1] = r
  BY <1>1
<1> QED
  BY <1>2 DEF NewFit

LEMMA BothFit ==
    ASSUME NEW new, NEW more, NewFit(new), NewFit(more)
    PROVE  NewFit(new \o more)
<1> DEFINE m == Len(new)
           n == Len(more)
           both == new \o more
<1>1. /\ m \in Nat /\ n \in Nat /\ both \in Seq(ProbeResult) /\ Len(both) = m + n
      /\ \A k \in 1..m : both[k] = new[k]
      /\ \A k \in (m + 1)..(m + n) : both[k] = more[k - m]
  BY DEF NewFit
<1> HIDE DEF both
<1>2. ASSUME NEW k \in 1..Len(both)
      PROVE  ResultFits(both[k]) /\ both[k].check = check
  <2>1. CASE k \in 1..m
    BY <1>1, <2>1 DEF NewFit
  <2>2. CASE k \notin 1..m
    <3>1. both[k] = more[k - m] /\ k - m \in 1..n
      BY <1>1, <2>2
    <3> QED
      BY <3>1 DEF NewFit
  <2> QED
    BY <2>1, <2>2
<1> QED
  BY <1>1, <1>2 DEF NewFit, both

\* The check goes on with what fits.
Proceeds ==
    /\ check # Nil
    /\ \E new, n, locals : NewFit(new) /\ LocalFits(locals, n) /\ Handled(new, n, locals)

LEMMA HandledFits ==
    ASSUME CheckType, DiscoveryInv, check # Nil, query = Nil \/ reply # Nil,
           NEW new, NewFit(new), NEW n, NEW locals, LocalFits(locals, n), Handled(new, n, locals),
           UNCHANGED <<walkVars, discoveryVars>>
    PROVE  CheckType' /\ Proceeds
<1>1. /\ UNCHANGED <<nameservers, discovery, probers, ran, check, firstErr, expired, silent>>
      /\ local' = locals /\ at' = n /\ query' = Nil /\ reply' = Nil
      /\ results' = results \o new
  BY DEF Handled, discoveryVars
<1>2. LocalFits(local, at)'
  BY <1>1 DEF LocalFits, StagesOf, IsAlias, IsAddress, IsStealth, Question
<1>3. results' \in Seq(ProbeResult) /\ \A k \in 1..Len(results') : ResultFits(results'[k])
  <2>1. /\ results \in Seq(ProbeResult) /\ new \in Seq(ProbeResult)
        /\ \A k \in 1..Len(results) : ResultFits(results[k])
        /\ \A k \in 1..Len(new) : ResultFits(new[k])
    BY DEF CheckType, NewFit
  <2>2. /\ results' \in Seq(ProbeResult) /\ Len(results') = Len(results) + Len(new)
        /\ Len(results) \in Nat /\ Len(new) \in Nat
        /\ \A k \in 1..Len(results) : results'[k] = results[k]
        /\ \A k \in (Len(results) + 1)..Len(results') : results'[k] = new[k - Len(results)]
    BY <1>1, <2>1
  <2>3. \A k \in 1..Len(results') : \/ k \in 1..Len(results)
                                    \/ /\ k \in (Len(results) + 1)..Len(results')
                                       /\ k - Len(results) \in 1..Len(new)
    BY <2>2
  <2> QED
    BY <2>1, <2>2, <2>3
<1>4. firstErr = Nil
  BY DEF CheckType, ExchangeType
<1>5. ExchangeType'
  BY <1>1, <1>4 DEF ExchangeType
<1>6. \A k \in 1..Len(results') : ResultFits(results[k])'
  BY <1>1, <1>3 DEF ResultFits
<1>7. CheckType'
  BY <1>1, <1>2, <1>3, <1>5, <1>6 DEF CheckType
<1>8. Proceeds
  BY DEF Proceeds
<1> QED
  BY <1>7, <1>8

\* A result without labels and metrics, with metrics, and with both.
LEMMA PlainFits ==
    ASSUME check \in Checks, check \in ran, NEW host \in Hosts \cup {NoHost},
           NEW ip \in Addrs \cup {NoIP}, NEW ok \in BOOLEAN, NEW timedOut \in BOOLEAN,
           timedOut => ip \in silent, check \in Unfailing => ok,
           NEW r, r = Result(host, ip, ok, timedOut)
    PROVE  ResultFits(r) /\ r.check = check /\ NewFit(<<r>>)
<1>1. /\ r.zone = Zone /\ r.check = check /\ r.labels = <<>> /\ r.metrics = <<>>
      /\ r.timedOut = timedOut /\ r.ip = ip /\ r.ok = ok
  BY DEF Result
<1>2. r \in ProbeResult
  <2>1. <<>> \in Labels /\ <<>> \in Metrics /\ Zone \in Zones
    BY ChecksAssumption DEF Labels, Metrics
  <2> QED
    BY <2>1 DEF Result, ProbeResult
<1>3. ResultFits(r)
  BY <1>1, <1>2 DEF ResultFits
<1> QED
  BY <1>1, <1>3, OneFits

LEMMA FailedFits ==
    ASSUME CheckType, DiscoveryInv, reply # Nil, local.stage \in {"servers", "dmarc"},
           check \notin Unfailing, NEW r, r = FailedResult(Current)
    PROVE  ResultFits(r) /\ r.check = check /\ NewFit(<<r>>) /\ r.metrics = <<>>
<1> DEFINE timedOut == reply.status = "timeout"
<1>1. check \in Checks /\ check \in ran /\ Current \in Server
  <2>1. check \in Checks /\ Current \in Server
    BY TurnFits
  <2> QED
    BY <2>1, ChecksAssumption DEF CheckType
<1>2. Current.host \in Hosts \cup {NoHost} /\ Current.ip \in Addrs \cup {NoIP}
  BY <1>1 DEF Server
<1>3. timedOut \in BOOLEAN /\ (timedOut => Current.ip \in silent)
  BY TimeoutIsReal
<1>4. r = Result(Current.host, Current.ip, FALSE, timedOut)
  BY DEF FailedResult
<1>5. r.metrics = <<>>
  BY <1>4 DEF Result
<1> HIDE DEF timedOut
<1>6. ResultFits(r) /\ r.check = check /\ NewFit(<<r>>)
  BY <1>1, <1>2, <1>3, <1>4, PlainFits
<1> QED
  BY <1>5, <1>6

LEMMA MeasuredFits ==
    ASSUME check \in Checks, check \in ran, NEW host \in Hosts \cup {NoHost},
           NEW ip \in Addrs \cup {NoIP}, NEW metrics \in Metrics,
           "mx_info" \notin DOMAIN metrics,
           NEW r, r = [Result(host, ip, TRUE, FALSE) EXCEPT !.metrics = metrics]
    PROVE  ResultFits(r) /\ r.check = check /\ NewFit(<<r>>)
<1>1. /\ r.zone = Zone /\ r.check = check /\ r.metrics = metrics /\ r.timedOut = FALSE
      /\ r.ok = TRUE
  BY DEF Result
<1>2. Result(host, ip, TRUE, FALSE) \in ProbeResult
  BY PlainFits DEF ResultFits
<1>3. r \in ProbeResult
  BY <1>2 DEF ProbeResult
<1>4. ResultFits(r)
  BY <1>1, <1>3 DEF ResultFits
<1> QED
  BY <1>1, <1>4, OneFits

LEMMA LabelledFits ==
    ASSUME check \in Checks, check \in ran, NEW host \in Hosts \cup {NoHost},
           NEW ip \in Addrs \cup {NoIP}, NEW labels \in Labels, NEW metrics \in Metrics,
           "mx_info" \in DOMAIN metrics => {"target", "priority"} \subseteq DOMAIN labels,
           NEW r, r = [Result(host, ip, TRUE, FALSE) EXCEPT !.labels = labels,
                                                            !.metrics = metrics]
    PROVE  ResultFits(r) /\ r.check = check /\ NewFit(<<r>>)
<1>1. /\ r.zone = Zone /\ r.check = check /\ r.metrics = metrics /\ r.labels = labels
      /\ r.timedOut = FALSE /\ r.ok = TRUE
  BY DEF Result
<1>2. Result(host, ip, TRUE, FALSE) \in ProbeResult
  BY PlainFits DEF ResultFits
<1>3. r \in ProbeResult
  BY <1>2 DEF ProbeResult
<1>4. ResultFits(r)
  BY <1>1, <1>3 DEF ResultFits
<1> QED
  BY <1>1, <1>4, OneFits
-----------------------------------------------------------------------------
(* The steps of the checks.                                                *)

\* soa and recursion.
LEMMA SOAType ==
    ASSUME CheckType, DiscoveryInv, UNCHANGED <<walkVars, discoveryVars>>,
           SOAFails \/ SOARecord \/ Recursion
    PROVE  CheckType' /\ Proceeds
<1>1. reply # Nil /\ check \in {"soa", "recursion"} /\ check \in ran /\ check # Nil
  <2>1. reply # Nil /\ check \in {"soa", "recursion"}
    BY DEF SOAFails, SOARecord, Recursion, Replied
  <2> QED
    BY <2>1, ChecksAssumption DEF CheckType, Checks
<1>2. LocalFits(local, at) /\ local.stage = "servers"
  BY <1>1 DEF CheckType, LocalFits, StagesOf
<1>3. /\ at \in 1..Len(nameservers) /\ Current \in Server /\ check \in Checks
      /\ query = Question(QueryType, Name, Current)
  BY <1>1, <1>2, TurnFits
<1>4. Len(nameservers) \in Nat /\ at + 1 \in 1..(Len(nameservers) + 1)
  BY <1>3 DEF DiscoveryInv, DiscoveryType
<1>5. LocalFits(local, at + 1)
  BY <1>2, <1>4, NextTurn
<1>6. Current.host \in Hosts \cup {NoHost} /\ Current.ip \in Addrs \cup {NoIP}
  BY <1>3 DEF Server
<1>7. NewFit(<<FailedResult(Current)>>)
  BY <1>1, <1>2, FailedFits DEF Unfailing
<1>8. CASE SOAFails
  BY <1>1, <1>5, <1>7, <1>8, HandledFits DEF SOAFails
<1>9. CASE SOARecord
  <2> DEFINE mname == Head(reply.rrs)
             metricsOf(v) == [soa_mname |-> 1,
                              soa_mname_in_ns_set |-> OneIf(mname \in ParentHosts),
                              soa_mname_resolves |-> OneIf(v = "yes")]
  <2>1. PICK v \in Verdicts(mname) :
           Handled(<<[Result(Current.host, Current.ip, TRUE, FALSE) EXCEPT
                         !.labels = [mname |-> mname], !.metrics = metricsOf(v)]>>,
                   at + 1, [local EXCEPT !.cache[mname] = v])
    BY <1>9 DEF SOARecord
  <2> DEFINE labels == [mname |-> mname]
             metrics == metricsOf(v)
             r == [Result(Current.host, Current.ip, TRUE, FALSE) EXCEPT
                      !.labels = labels, !.metrics = metrics]
             locals == [local EXCEPT !.cache[mname] = v]
  <2>2. mname \in Hosts
    <3>1. query.type = "SOA" /\ reply.rrs # <<>> /\ ReplyFits
      BY <1>1, <1>9 DEF SOARecord, Replied, CheckType, ExchangeType
    <3>2. reply \in Answers["SOA"] \/ reply.rrs = <<>>
      BY <3>1 DEF ReplyFits, Silences, Silence
    <3>3. reply.rrs \in Seq(Hosts)
      BY <3>1, <3>2, ChecksAssumption DEF QueryTypes, Replies, Records
    <3> QED
      BY <3>1, <3>3
  <2>3. v \in {"unknown", "yes", "no"}
    <3>1. local.cache[mname] \in {"unknown", "yes", "no"}
      BY <1>2, <2>2 DEF LocalFits, LocalsType, Caches
    <3> QED
      BY <3>1 DEF Verdicts
  <2> HIDE DEF mname
  <2>4. labels \in Labels /\ DOMAIN labels = {"mname"}
    BY <2>2 DEF Labels
  <2>5. metrics \in Metrics /\ "mx_info" \notin DOMAIN metrics
    BY DEF Metrics, OneIf
  <2>6. locals \in LocalsType /\ locals.stage = local.stage /\ locals.left = local.left
    <3>1. local \in LocalsType
      BY <1>2 DEF LocalFits
    <3>2. [local.cache EXCEPT ![mname] = v] \in Caches
      BY <2>2, <2>3, <3>1 DEF LocalsType, Caches
    <3> QED
      BY <3>1, <3>2 DEF LocalsType
  <2>7. Handled(<<r>>, at + 1, locals)
    BY <2>1
  <2> HIDE DEF labels, metrics, locals
  <2>8. NewFit(<<r>>)
    BY <1>1, <1>3, <1>6, <2>4, <2>5, LabelledFits
  <2> HIDE DEF r
  <2>9. LocalFits(locals, at + 1)
    BY <1>2, <1>5, <2>6 DEF LocalFits
  <2> QED
    BY <1>1, <2>7, <2>8, <2>9, HandledFits
<1>10. CASE Recursion
  <2> DEFINE metrics == [ns_recursion_available |-> OneIf(reply.ra)]
             r == [Result(Current.host, Current.ip, TRUE, FALSE) EXCEPT !.metrics = metrics]
  <2>1. Handled(<<IF Answered THEN r ELSE FailedResult(Current)>>, at + 1, local)
    BY <1>10 DEF Recursion
  <2>2. metrics \in Metrics /\ "mx_info" \notin DOMAIN metrics
    BY DEF Metrics, OneIf
  <2> HIDE DEF metrics
  <2>3. NewFit(<<r>>)
    BY <1>1, <1>3, <1>6, <2>2, MeasuredFits
  <2> HIDE DEF r
  <2>4. NewFit(<<IF Answered THEN r ELSE FailedResult(Current)>>)
    BY <1>7, <2>3
  <2> QED
    BY <1>1, <1>5, <2>1, <2>4, HandledFits
<1> QED
  BY <1>8, <1>9, <1>10

\* Where a check is.
LEMMA CheckIsFit ==
    ASSUME CheckType, DiscoveryInv, check # Nil
    PROVE  /\ check \in Checks /\ check \in ran /\ LocalFits(local, at)
           /\ nameservers \in Seq(Server) /\ Len(nameservers) \in Nat
           /\ local \in LocalsType /\ local.stage \in StagesOf(check)
           /\ at <= Len(nameservers) => Current \in Server
           /\ delegation.nsRecords \in Seq(Nameserver) /\ delegation.glue \in Seq(Nameserver)
<1>1. check \in ran /\ check \in Checks /\ LocalFits(local, at)
  BY DEF CheckType
<1>2. nameservers \in Seq(Server) /\ Len(nameservers) \in Nat
  BY DEF DiscoveryInv, DiscoveryType
<1>3. at \in 1..(Len(nameservers) + 1)
  BY <1>1 DEF LocalFits
<1>4. at <= Len(nameservers) => Current \in Server
  BY <1>2, <1>3 DEF Current
<1>5. delegation.nsRecords \in Seq(Nameserver) /\ delegation.glue \in Seq(Nameserver)
  BY DEF DiscoveryInv, DiscoveryType, Delegations
<1> QED
  BY <1>1, <1>2, <1>4, <1>5 DEF LocalFits

\* ns_hostname.
LEMMA HostnameResultType ==
    ASSUME CheckType, DiscoveryInv, UNCHANGED <<walkVars, discoveryVars>>,
           check = "ns_hostname", at <= Len(nameservers), query = Nil \/ reply # Nil,
           NEW v \in {"yes", "no"}, HostnameResult(v)
    PROVE  CheckType' /\ Proceeds
<1> DEFINE metrics == [ns_hostname_is_cname |-> OneIf(v = "yes"),
                       ns_hostname_syntax_valid |-> OneIf(Current.host \in ValidNames)]
           r == [Result(Current.host, Current.ip, TRUE, FALSE) EXCEPT !.metrics = metrics]
           locals == [local EXCEPT !.stage = "servers", !.todo = <<>>, !.hop = 0,
                                   !.cache[Current.host] = v]
           stage == "servers"
           none == <<>>
           zero == 0
           cache == [local.cache EXCEPT ![Current.host] = v]
<1>1. Handled(<<r>>, at + 1, locals)
  BY DEF HostnameResult
<1>2. check # Nil
  BY ChecksAssumption DEF Checks
<1>3. /\ check \in Checks /\ check \in ran /\ LocalFits(local, at) /\ Len(nameservers) \in Nat
      /\ local \in LocalsType /\ Current \in Server
  BY <1>2, CheckIsFit
<1>4. /\ Current.host \in Hosts \cup {NoHost} /\ Current.ip \in Addrs \cup {NoIP}
      /\ Current.host \in Hosts
  BY <1>3 DEF Server
<1>5. metrics \in Metrics /\ "mx_info" \notin DOMAIN metrics
  BY DEF Metrics, OneIf
<1> HIDE DEF metrics
<1>6. NewFit(<<r>>)
  BY <1>3, <1>4, <1>5, MeasuredFits
<1>7. locals \in LocalsType /\ locals.stage = "servers" /\ locals.left = local.left
  <2>1. stage \in Stages /\ none \in ToDo /\ zero \in Nat
    BY DEF ToDo, Stages
  <2>2. cache \in Caches
    BY <1>3, <1>4 DEF LocalsType, Caches
  <2>3. locals = [local EXCEPT !.stage = stage, !.todo = none, !.hop = zero, !.cache = cache]
    BY <1>3 DEF LocalsType
  <2> HIDE DEF locals, stage, none, zero, cache
  <2>4. locals \in LocalsType /\ locals.stage = stage /\ locals.left = local.left
    BY <1>3, <2>1, <2>2, <2>3 DEF LocalsType
  <2> QED
    BY <2>4 DEF stage
<1> HIDE DEF locals, r
<1>8. local.left = <<>> /\ at + 1 \in 1..(Len(nameservers) + 1)
  BY <1>3 DEF LocalFits, StagesOf
<1>9. LocalFits(locals, at + 1)
  BY <1>7, <1>8 DEF LocalFits, StagesOf
<1> QED
  BY <1>1, <1>2, <1>6, <1>9, HandledFits

LEMMA HostnameType ==
    ASSUME CheckType, DiscoveryInv, UNCHANGED <<walkVars, discoveryVars>>, NSHostname
    PROVE  CheckType' /\ Proceeds
<1>1. check = "ns_hostname" /\ check # Nil
  BY ChecksAssumption DEF NSHostname, HostnameKnown, LookupCNAME, CNAMEReply, HostnameTurn,
                          Replied, Checks
<1>2. /\ check \in Checks /\ check \in ran /\ LocalFits(local, at) /\ Len(nameservers) \in Nat
      /\ local \in LocalsType
      /\ at <= Len(nameservers) => Current \in Server
  BY <1>1, CheckIsFit
<1>3. CASE HostnameKnown
  <2>1. /\ at <= Len(nameservers) /\ query = Nil /\ local.cache[Current.host] # "unknown"
        /\ HostnameResult(local.cache[Current.host])
    BY <1>3 DEF HostnameKnown, HostnameTurn
  <2>2. local.cache[Current.host] \in {"yes", "no"}
    <3>1. Current.host \in Hosts
      BY <1>2, <2>1 DEF Server
    <3> QED
      BY <1>2, <2>1, <3>1 DEF LocalsType, Caches
  <2> QED
    BY <1>1, <2>1, <2>2, HostnameResultType
<1>4. CASE LookupCNAME
  <2> DEFINE q == Question("CNAME", Current.host, [host |-> NoHost, ip |-> NoIP])
             todo == <<q>>
             stage == "cname"
             locals == [local EXCEPT !.stage = stage, !.todo = todo]
  <2>1. /\ at <= Len(nameservers) /\ query = Nil /\ local.stage = "servers"
        /\ local.cache[Current.host] = "unknown" /\ Handled(<<>>, at, locals)
    BY <1>4 DEF LookupCNAME, HostnameTurn
  <2>2. IsAlias(q, nameservers[at]) /\ q \in Questions
    <3>1. Current.host \in Hosts
      BY <1>2, <2>1 DEF Server
    <3>2. [host |-> NoHost, ip |-> NoIP] \in Target
      BY DEF Target
    <3> QED
      BY <1>2, <3>1, <3>2 DEF IsAlias, Question, Questions, Current, QueryTypes
  <2> HIDE DEF q
  <2>3. todo \in ToDo /\ Len(todo) = 1 /\ todo[1] = q
    BY <2>2 DEF ToDo
  <2> HIDE DEF todo
  <2>4. /\ locals \in LocalsType /\ locals.stage = "cname" /\ locals.left = local.left
        /\ locals.todo = todo /\ locals.cache = local.cache
    <3>1. stage \in Stages
      BY DEF Stages
    <3> HIDE DEF stage
    <3>2. /\ locals \in LocalsType /\ locals.stage = stage /\ locals.left = local.left
          /\ locals.todo = todo /\ locals.cache = local.cache
      BY <1>2, <2>3, <3>1 DEF LocalsType
    <3> QED
      BY <3>2 DEF stage
  <2> HIDE DEF locals
  <2>5. LocalFits(locals, at)
    BY <1>1, <1>2, <2>1, <2>2, <2>3, <2>4 DEF LocalFits, StagesOf, Current
  <2> QED
    BY <1>1, <2>1, <2>5, NoneFits, HandledFits
<1>5. CASE CNAMEReply
  <2> DEFINE locals == [local EXCEPT !.hop = @ + 1]
  <2>1. /\ reply # Nil /\ query.type = "CNAME"
        /\ \/ HostnameResult("yes") \/ HostnameResult("no") \/ Handled(<<>>, at, locals)
    BY <1>5 DEF CNAMEReply, Replied
  <2>2. local.stage = "cname" /\ at <= Len(nameservers)
    BY <1>2, <2>1, StageOfReply DEF LocalFits
  <2>3. /\ locals \in LocalsType /\ locals.stage = local.stage /\ locals.left = local.left
        /\ locals.todo = local.todo /\ locals.cache = local.cache
    BY <1>2 DEF LocalsType
  <2> HIDE DEF locals
  <2>4. LocalFits(locals, at)
    BY <1>2, <2>2, <2>3 DEF LocalFits
  <2>5. CASE Handled(<<>>, at, locals)
    BY <1>1, <2>1, <2>4, <2>5, NoneFits, HandledFits
  <2> QED
    BY <1>1, <2>1, <2>2, <2>5, HostnameResultType
<1> QED
  BY <1>3, <1>4, <1>5 DEF NSHostname

\* glue: a list of results with one metric.
LEMMA GlueResultsFit ==
    ASSUME check = "glue", check \in ran, NEW entries \in Seq(Nameserver),
           NEW metric \in {"ns_record", "ns_glue"}, NEW source \in {"parent", "self"},
           NEW rs, rs = GlueResults(entries, metric, source)
    PROVE  NewFit(rs) /\ Len(rs) = Len(entries)
<1> DEFINE labels == [source |-> source]
           metrics == [m \in {metric} |-> 1]
           n == Len(entries)
<1>1. check \in Checks
  BY DEF Checks
<1>2. labels \in Labels
  BY DEF Labels
<1>3. metrics \in Metrics /\ "mx_info" \notin DOMAIN metrics
  <2>1. CASE metric = "ns_record"
    <3>1. metrics \in [ns_record : Nat]
      BY <2>1
    <3> QED
      BY <2>1, <3>1 DEF Metrics
  <2>2. CASE metric = "ns_glue"
    <3>1. metrics \in [ns_glue : Nat]
      BY <2>2
    <3> QED
      BY <2>2, <3>1 DEF Metrics
  <2> QED
    BY <2>1, <2>2
<1>4. /\ n \in Nat /\ DOMAIN entries = 1..n
      /\ rs = [k \in 1..n |-> GlueResult(entries[k], metric, source)]
  BY DEF GlueResults
<1>5. ASSUME NEW k \in 1..n
      PROVE  ResultFits(rs[k]) /\ rs[k].check = check
  <2> DEFINE h == entries[k].host
             a == entries[k].ip
             r == rs[k]
  <2>1. h \in Hosts \cup {NoHost} /\ a \in Addrs \cup {NoIP}
    <3>1. entries[k] \in Nameserver
      BY <1>4
    <3> QED
      BY <3>1 DEF Nameserver
  <2>2. r = [Result(h, a, TRUE, FALSE) EXCEPT !.labels = labels, !.metrics = metrics]
    BY <1>4 DEF GlueResult
  <2> HIDE DEF h, a, r, labels, metrics
  <2>3. "mx_info" \in DOMAIN metrics => {"target", "priority"} \subseteq DOMAIN labels
    BY <1>3
  <2> DEFINE x == [Result(h, a, TRUE, FALSE) EXCEPT !.labels = labels, !.metrics = metrics]
  <2>4. ResultFits(x)
    BY <1>1, <1>2, <1>3, <2>1, <2>3, LabelledFits
  <2>5. r = x /\ x.check = check
    BY <2>2 DEF Result
  <2> HIDE DEF x
  <2>6. ResultFits(r) /\ r.check = check
    BY <2>4, <2>5
  <2> QED
    BY <2>6 DEF r
<1>6. \A k \in 1..n : rs[k] \in ProbeResult
  BY <1>5 DEF ResultFits
<1>7. rs \in Seq(ProbeResult) /\ Len(rs) = n
  BY <1>4, <1>6
<1> QED
  BY <1>5, <1>7 DEF NewFit

LEMMA GlueParentType ==
    ASSUME CheckType, DiscoveryInv, UNCHANGED <<walkVars, discoveryVars>>, GlueParent
    PROVE  CheckType' /\ Proceeds
<1> DEFINE stage == "servers"
           locals == [local EXCEPT !.stage = stage]
           names == GlueResults(delegation.nsRecords, "ns_record", "parent")
           glue == GlueResults(delegation.glue, "ns_glue", "parent")
<1>1. /\ check = "glue" /\ check # Nil /\ local.stage = "start"
      /\ Handled(names \o glue, at, locals)
  BY ChecksAssumption DEF GlueParent, ParentView, Checks
<1>2. /\ check \in ran /\ LocalFits(local, at) /\ local \in LocalsType
      /\ delegation.nsRecords \in Seq(Nameserver) /\ delegation.glue \in Seq(Nameserver)
  BY <1>1, CheckIsFit
<1>3. query = Nil \/ reply # Nil
  BY <1>1 DEF CheckType, ExchangeType, QueryFits
<1>4. /\ locals \in LocalsType /\ locals.stage = stage /\ locals.left = local.left
  <2>1. stage \in Stages
    BY DEF Stages
  <2> HIDE DEF stage
  <2> QED
    BY <1>2, <2>1 DEF LocalsType
<1> HIDE DEF locals, names, glue
<1>5. NewFit(names) /\ NewFit(glue)
  BY <1>1, <1>2, GlueResultsFit DEF names, glue
<1>6. NewFit(names \o glue)
  BY <1>5, BothFit
<1>7. LocalFits(locals, at)
  BY <1>1, <1>2, <1>4 DEF LocalFits, StagesOf
<1> QED
  BY <1>1, <1>3, <1>6, <1>7, HandledFits

\* The nameserver that glue asks.
LEMMA SelfStart ==
    ASSUME CheckType, DiscoveryInv, Replied("glue", "NS")
    PROVE  /\ check = "glue" /\ check # Nil /\ check \in ran /\ LocalFits(local, at)
           /\ local \in LocalsType /\ local.stage = "servers" /\ local.left = <<>>
           /\ at \in 1..Len(nameservers) /\ Current \in Server
           /\ Len(nameservers) \in Nat
<1>1. check = "glue" /\ check # Nil /\ reply # Nil /\ query.type = "NS"
  BY ChecksAssumption DEF Replied, Checks
<1>2. local.stage \in {"start", "servers", "addresses"}
  BY <1>1, CheckIsFit DEF StagesOf
<1>3. local.stage = "servers"
  BY <1>1, <1>2, StageOfReply
<1>4. LocalFits(local, at) /\ at \in 1..Len(nameservers) /\ Current \in Server
  BY <1>1, <1>3, TurnFits
<1>5. local.left = <<>>
  BY <1>3, <1>4 DEF LocalFits
<1> QED
  BY <1>1, <1>3, <1>4, <1>5, CheckIsFit

LEMMA SelfFailsType ==
    ASSUME CheckType, DiscoveryInv, UNCHANGED <<walkVars, discoveryVars>>, SelfFails
    PROVE  CheckType' /\ Proceeds
<1>1. Replied("glue", "NS") /\ Handled(<<FailedResult(Current)>>, at + 1, local)
  BY DEF SelfFails
<1>2. /\ check = "glue" /\ check # Nil /\ check \in ran /\ LocalFits(local, at)
      /\ local.stage = "servers" /\ at \in 1..Len(nameservers) /\ Current \in Server
      /\ Len(nameservers) \in Nat
  BY <1>1, SelfStart
<1>3. NewFit(<<FailedResult(Current)>>)
  BY <1>1, <1>2, FailedFits DEF Replied, Unfailing
<1>4. at + 1 \in 1..(Len(nameservers) + 1)
  BY <1>2
<1>5. LocalFits(local, at + 1)
  BY <1>2, <1>4, NextTurn
<1> QED
  BY <1>1, <1>2, <1>3, <1>5, HandledFits DEF Replied

\* The names of a nameserver's own NS set become questions to it.
LEMMA SelfNamesType ==
    ASSUME CheckType, DiscoveryInv, UNCHANGED <<walkVars, discoveryVars>>, SelfNames
    PROVE  CheckType' /\ Proceeds
<1> DEFINE pairs == [k \in DOMAIN reply.rrs |->
                        << Question("A", reply.rrs[k], Current),
                           Question("AAAA", reply.rrs[k], Current) >>]
           U == {Question(type, h, Current) : type \in {"A", "AAAA"}, h \in Hosts}
           todo == FlattenSeq(pairs)
           stage == "addresses"
           none == <<>>
           locals == [local EXCEPT !.stage = stage, !.own = none, !.todo = todo]
<1>1. Replied("glue", "NS") /\ Answered /\ Handled(<<>>, at, locals)
  BY DEF SelfNames
<1>2. /\ check = "glue" /\ check # Nil /\ LocalFits(local, at)
      /\ local \in LocalsType /\ local.left = <<>>
      /\ at \in 1..Len(nameservers) /\ Current \in Server /\ Len(nameservers) \in Nat
  BY <1>1, SelfStart
<1>3. reply.rrs \in Seq(Hosts)
  <2>1. query.type = "NS" /\ ReplyFits
    BY <1>1 DEF Replied, CheckType, ExchangeType
  <2>2. reply \in Answers["NS"]
    BY <1>1, <2>1 DEF ReplyFits, Silences, Silence, Answered
  <2> QED
    BY <2>2, ChecksAssumption DEF QueryTypes, Replies, Records
<1>4. pairs \in Seq(Seq(U))
  <2>1. ASSUME NEW k \in 1..Len(reply.rrs) PROVE pairs[k] \in Seq(U)
    <3>1. reply.rrs[k] \in Hosts
      BY <1>3
    <3>2. Question("A", reply.rrs[k], Current) \in U
      BY <3>1
    <3>3. Question("AAAA", reply.rrs[k], Current) \in U
      BY <3>1
    <3> HIDE DEF U
    <3> QED
      BY <1>3, <3>2, <3>3
  <2>2. pairs = [k \in 1..Len(reply.rrs) |-> pairs[k]] /\ Len(reply.rrs) \in Nat
    BY <1>3
  <2> HIDE DEF pairs, U
  <2> QED
    BY <2>1, <2>2
<1> HIDE DEF pairs
<1>5. U \subseteq Questions
  <2>1. ASSUME NEW type \in {"A", "AAAA"}, NEW h \in Hosts
        PROVE  Question(type, h, Current) \in Questions
    <3>1. Current \in Target
      BY <1>2 DEF Server, Target
    <3> QED
      BY <1>2, <3>1 DEF Question, Questions, QueryTypes, Checks
  <2> QED
    BY <2>1
<1>6. \A q \in U : IsAddress(q, Current)
  BY DEF IsAddress
<1> HIDE DEF U
<1>7. todo \in Seq(U)
  BY <1>4, FlattenKeeps
<1> HIDE DEF todo
<1>8. todo \in ToDo /\ \A k \in 1..Len(todo) : IsAddress(todo[k], nameservers[at])
  <2>1. todo \in Seq(Questions)
    BY <1>5, <1>7
  <2>2. ASSUME NEW k \in 1..Len(todo) PROVE IsAddress(todo[k], Current)
    <3>1. todo[k] \in U
      BY <1>7
    <3> QED
      BY <1>6, <3>1
  <2> QED
    BY <2>1, <2>2 DEF ToDo, Current
<1>9. /\ locals \in LocalsType /\ locals.stage = stage /\ locals.left = local.left
      /\ locals.todo = todo
  <2>1. stage \in Stages /\ none \in Own
    BY DEF Stages, Own
  <2> HIDE DEF stage, none
  <2> QED
    BY <1>2, <1>8, <2>1 DEF LocalsType
<1> HIDE DEF locals
<1>10. LocalFits(locals, at)
  BY <1>2, <1>8, <1>9 DEF LocalFits, StagesOf
<1> QED
  BY <1>1, <1>2, <1>10, NoneFits, HandledFits DEF Replied

\* The addresses of a reply, as servers of the name that was asked for.
LEMMA OwnFits ==
    ASSUME NEW h \in Hosts, NEW rrs \in Seq(Addrs),
           NEW new, new = [k \in DOMAIN rrs |-> [host |-> h, ip |-> rrs[k]]]
    PROVE  new \in Own /\ ToSet(new) = {[host |-> h, ip |-> ip] : ip \in ToSet(rrs)}
<1>1. DOMAIN rrs = 1..Len(rrs) /\ Len(rrs) \in Nat
  OBVIOUS
<1>2. \A k \in 1..Len(rrs) : new[k] = [host |-> h, ip |-> rrs[k]] /\ rrs[k] \in Addrs
  BY <1>1
<1>3. \A k \in 1..Len(rrs) : new[k] \in Server
  BY <1>2 DEF Server
<1>4. new \in Seq(Server) /\ Len(new) = Len(rrs) /\ DOMAIN new = 1..Len(rrs)
  BY <1>1, <1>3
<1> QED
  BY <1>1, <1>2, <1>4 DEF Own, ToSet

\* The next of its questions, when one of its addresses has been asked for.
LEMMA AddressesStart ==
    ASSUME CheckType, DiscoveryInv, check = "glue", reply # Nil, query.type \in {"A", "AAAA"}
    PROVE  /\ check # Nil /\ check \in ran /\ LocalFits(local, at) /\ local \in LocalsType
           /\ local.stage = "addresses" /\ at <= Len(nameservers) /\ Current \in Server
           /\ local.todo \in Seq(Questions) /\ local.todo # <<>> /\ query = local.todo[1]
           /\ query.name \in Hosts /\ query.ns = Current /\ query.check = "glue"
           /\ reply.rrs \in Seq(Addrs)
<1>1. check # Nil
  BY ChecksAssumption DEF Checks
<1>2. /\ local.stage = "addresses" /\ local.todo # <<>> /\ query = local.todo[1]
  BY StageOfReply
<1>3. /\ check \in ran /\ LocalFits(local, at) /\ local \in LocalsType
      /\ at <= Len(nameservers) => Current \in Server
  BY <1>1, CheckIsFit
<1>4. at <= Len(nameservers) /\ local.todo \in Seq(Questions)
  BY <1>2, <1>3 DEF LocalFits, LocalsType, ToDo
<1>5. 1 \in 1..Len(local.todo)
  BY <1>2, <1>4
<1>6. IsAddress(query, Current)
  BY <1>2, <1>3, <1>5 DEF LocalFits, Current
<1>7. query.name \in Hosts /\ query.ns = Current /\ query.check = "glue"
  BY <1>6 DEF IsAddress, Question
<1>8. reply.rrs \in Seq(Addrs)
  <2>1. reply \in Answers[query.type] \/ reply \in Silences
    BY DEF CheckType, ExchangeType, ReplyFits
  <2>2. CASE reply \in Silences
    <3>1. reply.rrs = <<>>
      BY <2>2 DEF Silences, Silence
    <3> QED
      BY <3>1
  <2>3. CASE reply \in Answers[query.type]
    <3>1. reply.rrs \in Seq(Records[query.type])
      BY <2>3, ChecksAssumption DEF QueryTypes, Replies
    <3>2. Records[query.type] \subseteq Addrs
      BY TypesAssumption DEF Records
    <3> QED
      BY <3>1, <3>2
  <2> QED
    BY <2>1, <2>2, <2>3
<1> QED
  BY <1>1, <1>2, <1>3, <1>4, <1>7, <1>8

LEMMA SelfAddressesType ==
    ASSUME CheckType, DiscoveryInv, UNCHANGED <<walkVars, discoveryVars>>, SelfAddresses
    PROVE  CheckType' /\ Proceeds
<1> DEFINE new == [k \in DOMAIN reply.rrs |-> [host |-> query.name, ip |-> reply.rrs[k]]]
           todo == Tail(local.todo)
           own == local.own \o new
           locals == [local EXCEPT !.todo = todo, !.own = own]
<1>1. /\ check = "glue" /\ reply # Nil /\ query.type \in {"A", "AAAA"}
      /\ Handled(<<>>, at, locals)
  BY DEF SelfAddresses
<1>2. /\ check # Nil /\ LocalFits(local, at) /\ local \in LocalsType
      /\ local.stage = "addresses" /\ local.todo \in Seq(Questions) /\ local.todo # <<>>
      /\ query.name \in Hosts /\ reply.rrs \in Seq(Addrs)
  BY <1>1, AddressesStart
<1>3. new \in Own
  BY <1>2, OwnFits
<1> HIDE DEF new
<1>4. own \in Own
  BY <1>2, <1>3 DEF LocalsType, Own
<1>5. /\ todo \in Seq(Questions) /\ Len(local.todo) \in Nat \ {0}
      /\ Len(todo) = Len(local.todo) - 1
      /\ \A k \in 1..Len(todo) : k + 1 \in 1..Len(local.todo) /\ todo[k] = local.todo[k + 1]
  BY <1>2
<1>6. \A k \in 1..Len(todo) : IsAddress(todo[k], nameservers[at])
  BY <1>2, <1>5 DEF LocalFits
<1> HIDE DEF todo, own
<1>7. /\ locals \in LocalsType /\ locals.stage = local.stage /\ locals.left = local.left
      /\ locals.todo = todo
  BY <1>2, <1>4, <1>5 DEF LocalsType, ToDo
<1> HIDE DEF locals
<1>8. LocalFits(locals, at)
  BY <1>2, <1>6, <1>7 DEF LocalFits
<1> QED
  BY <1>1, <1>2, <1>8, NoneFits, HandledFits

LEMMA SelfViewType ==
    ASSUME CheckType, DiscoveryInv, UNCHANGED <<walkVars, discoveryVars>>, SelfView
    PROVE  CheckType' /\ Proceeds
<1> DEFINE fresh == ToSet(local.own) \ local.emitted
           mine == Filter(local.own, fresh)
           new == Distinct(mine)
           names == GlueResults(new, "ns_record", "self")
           glue == GlueResults(new, "ns_glue", "self")
           stage == "servers"
           emitted == local.emitted \cup ToSet(new)
           locals == [local EXCEPT !.stage = stage, !.emitted = emitted]
<1>1. /\ check = "glue" /\ check # Nil /\ local.stage = "addresses" /\ query = Nil
      /\ Handled(names \o glue, at + 1, locals)
  BY ChecksAssumption DEF SelfView, Checks
<1>2. /\ check \in ran /\ LocalFits(local, at) /\ local \in LocalsType
      /\ Len(nameservers) \in Nat
  BY <1>1, CheckIsFit
<1>3. local.own \in Seq(Server) /\ local.emitted \in Emitted
  BY <1>2 DEF LocalsType, Own
<1> HIDE DEF fresh
<1>4. mine \in Seq(Server)
  BY <1>3, FilterKeeps
<1> HIDE DEF mine
<1>5. new \in Seq(Server)
  BY <1>4, DistinctKeeps
<1> HIDE DEF new
<1>6. new \in Seq(Nameserver)
  <2>1. Server \subseteq Nameserver
    BY DEF Server, Nameserver
  <2> QED
    BY <1>5, <2>1
<1>7. NewFit(names) /\ NewFit(glue)
  BY <1>1, <1>2, <1>6, GlueResultsFit
<1> HIDE DEF names, glue
<1>8. NewFit(names \o glue)
  BY <1>7, BothFit
<1>9. emitted \in Emitted
  BY <1>3, <1>5 DEF Emitted, ToSet
<1>10. locals \in LocalsType /\ locals.stage = stage /\ locals.left = local.left
  <2>1. stage \in Stages
    BY DEF Stages
  <2> HIDE DEF stage, emitted
  <2> QED
    BY <1>2, <1>9, <2>1 DEF LocalsType
<1> HIDE DEF locals
<1>11. at + 1 \in 1..(Len(nameservers) + 1) /\ local.left = <<>>
  BY <1>1, <1>2 DEF LocalFits
<1>12. LocalFits(locals, at + 1)
  BY <1>1, <1>10, <1>11 DEF LocalFits, StagesOf
<1> QED
  BY <1>1, <1>8, <1>12, HandledFits

LEMMA GlueType ==
    ASSUME CheckType, DiscoveryInv, UNCHANGED <<walkVars, discoveryVars>>, Glue
    PROVE  CheckType' /\ Proceeds
BY GlueParentType, SelfFailsType, SelfNamesType, SelfAddressesType, SelfViewType DEF Glue

\* ns_classification: the address that goes with a name.
LEMMA ParentIPIs ==
    ASSUME DiscoveryInv, NEW h
    PROVE  ParentIP(h) \in Addrs \cup {NoIP}
<1> DEFINE keep == {e \in ToSet(delegation.glue) : e.host = h}
           mine == Filter(delegation.glue, keep)
<1>1. delegation.glue \in Seq(Nameserver)
  BY DEF DiscoveryInv, DiscoveryType, Delegations
<1> HIDE DEF keep
<1>2. mine \in Seq(Nameserver)
  BY <1>1, FilterKeeps
<1>3. ParentIP(h) = IF mine = <<>> THEN NoIP ELSE Head(mine).ip
  BY DEF ParentIP, keep
<1> HIDE DEF mine
<1>4. CASE mine # <<>>
  <2>1. Head(mine) \in Nameserver
    BY <1>2, <1>4
  <2> QED
    BY <1>3, <1>4, <2>1 DEF Nameserver
<1> QED
  BY <1>3, <1>4

\* The stages in which it handles the names.
LEMMA ClassifyStart ==
    ASSUME CheckType, DiscoveryInv, local.stage \in {"classify", "stealth"}
    PROVE  /\ check = "ns_classification" /\ check # Nil /\ check \in ran
           /\ LocalFits(local, at) /\ local \in LocalsType /\ local.left \in Seq(Hosts)
           /\ local.stage = "classify" => query = Nil
<1>1. check # Nil
  BY DEF CheckType, Locals
<1>2. /\ check \in Checks /\ check \in ran /\ LocalFits(local, at) /\ local \in LocalsType
      /\ local.stage \in StagesOf(check)
  BY <1>1, CheckIsFit
<1>3. check = "ns_classification"
  BY <1>2 DEF StagesOf, Checks
<1>4. local.left \in Seq(Hosts)
  BY <1>2 DEF LocalFits
<1>5. local.stage = "classify" => query = Nil
  BY DEF CheckType, ExchangeType, QueryFits
<1> QED
  BY <1>1, <1>2, <1>3, <1>4, <1>5

LEMMA ClassifiesType ==
    ASSUME CheckType, DiscoveryInv, UNCHANGED <<walkVars, discoveryVars>>,
           local.stage \in {"classify", "stealth"}, local.left # <<>>,
           query = Nil \/ reply # Nil,
           NEW metrics \in Metrics, "mx_info" \notin DOMAIN metrics, Classifies(metrics)
    PROVE  CheckType' /\ Proceeds
<1> DEFINE h == Head(local.left)
           a == ParentIP(h)
           class == [classification |-> ClassOf(h)]
           r == [Result(h, a, TRUE, FALSE) EXCEPT !.labels = class, !.metrics = metrics]
           stage == "classify"
           none == <<>>
           left == Tail(local.left)
           locals == [local EXCEPT !.stage = stage, !.left = left, !.todo = none]
<1>1. Handled(<<r>>, at, locals)
  BY DEF Classifies
<1>2. /\ check = "ns_classification" /\ check # Nil /\ check \in ran
      /\ LocalFits(local, at) /\ local \in LocalsType /\ local.left \in Seq(Hosts)
  BY ClassifyStart
<1>3. h \in Hosts \cup {NoHost} /\ a \in Addrs \cup {NoIP} /\ check \in Checks
  BY <1>2, ParentIPIs DEF Checks
<1>4. left \in Left /\ left \in Seq(Hosts)
  BY <1>2 DEF Left
<1>5. class \in Labels
  BY DEF Labels, ClassOf, Classes
<1> HIDE DEF h, a, class, left
<1>6. NewFit(<<r>>)
  BY <1>2, <1>3, <1>5, LabelledFits
<1> HIDE DEF r
<1>7. locals \in LocalsType /\ locals.stage = stage /\ locals.left = left
  <2>1. stage \in Stages /\ none \in ToDo
    BY DEF Stages, ToDo
  <2> HIDE DEF stage, none
  <2> QED
    BY <1>2, <1>4, <2>1 DEF LocalsType
<1> HIDE DEF locals
<1>8. LocalFits(locals, at)
  BY <1>2, <1>4, <1>7 DEF LocalFits, StagesOf
<1> QED
  BY <1>1, <1>2, <1>6, <1>8, HandledFits

\* The nameserver that was asked for its NS set has answered, or is passed over.
LEMMA ClassificationTurnType ==
    ASSUME CheckType, DiscoveryInv, UNCHANGED <<walkVars, discoveryVars>>,
           SkipAskedBefore \/ SelfSet
    PROVE  CheckType' /\ Proceeds
<1>1. check = "ns_classification" /\ check # Nil
  BY ChecksAssumption DEF SkipAskedBefore, SelfSet, Replied, Checks
<1>2. /\ check \in ran /\ LocalFits(local, at) /\ local \in LocalsType
      /\ Len(nameservers) \in Nat
  BY <1>1, CheckIsFit
<1>3. CASE SkipAskedBefore
  <2>1. /\ local.stage = "servers" /\ at <= Len(nameservers) /\ query = Nil
        /\ Handled(<<>>, at + 1, local)
    BY <1>3 DEF SkipAskedBefore
  <2>2. at + 1 \in 1..(Len(nameservers) + 1)
    BY <1>2, <2>1 DEF LocalFits
  <2>3. LocalFits(local, at + 1)
    BY <1>2, <2>1, <2>2, NextTurn
  <2> QED
    BY <1>1, <2>1, <2>3, NoneFits, HandledFits
<1>4. CASE SelfSet
  <2> DEFINE self == local.self \cup ToSet(reply.rrs)
             locals == [local EXCEPT !.self = self]
  <2>1. reply # Nil /\ query.type = "NS" /\ Handled(<<>>, at + 1, locals)
    BY <1>4 DEF SelfSet, Replied
  <2>2. local.stage = "servers"
    BY <1>1, <1>2, <2>1, StageOfReply DEF LocalFits, StagesOf
  <2>3. at + 1 \in 1..(Len(nameservers) + 1)
    BY <1>2, <2>1, <2>2, TurnFits
  <2>4. LocalFits(local, at + 1)
    BY <1>2, <2>2, <2>3, NextTurn
  <2>5. reply.rrs \in Seq(Hosts)
    <3>1. ReplyFits
      BY <2>1 DEF CheckType, ExchangeType
    <3>2. reply \in Answers["NS"] \/ reply.rrs = <<>>
      BY <2>1, <3>1 DEF ReplyFits, Silences, Silence
    <3>3. CASE reply \in Answers["NS"]
      BY <3>3, ChecksAssumption DEF QueryTypes, Replies, Records
    <3>4. CASE reply.rrs = <<>>
      BY <3>4
    <3> QED
      BY <3>2, <3>3, <3>4
  <2>6. self \in Self
    BY <1>2, <2>5 DEF LocalsType, Self, ToSet
  <2> HIDE DEF self
  <2>7. locals \in LocalsType /\ locals.stage = local.stage /\ locals.left = local.left
    BY <1>2, <2>6 DEF LocalsType
  <2> HIDE DEF locals
  <2>8. LocalFits(locals, at + 1)
    BY <2>2, <2>4, <2>7 DEF LocalFits
  <2> QED
    BY <1>1, <2>1, <2>8, NoneFits, HandledFits
<1> QED
  BY <1>3, <1>4

\* All names, in their order.
LEMMA UnionSortedType ==
    ASSUME CheckType, DiscoveryInv, UNCHANGED <<walkVars, discoveryVars>>, UnionSorted
    PROVE  CheckType' /\ Proceeds
<1> DEFINE names == ParentHosts \cup local.self
           left == Filter(Sorted, names)
           stage == "classify"
           locals == [local EXCEPT !.stage = stage, !.left = left]
<1>1. /\ check = "ns_classification" /\ check # Nil /\ local.stage = "servers"
      /\ at > Len(nameservers) /\ Handled(<<>>, at, locals)
  BY ChecksAssumption DEF UnionSorted, Checks
<1>2. /\ LocalFits(local, at) /\ local \in LocalsType /\ Len(nameservers) \in Nat
  BY <1>1, CheckIsFit
<1>3. at = Len(nameservers) + 1
  BY <1>1, <1>2 DEF LocalFits
<1>4. query = Nil
  BY <1>2, <1>3, <1>1 DEF CheckType, ExchangeType, QueryFits
<1> HIDE DEF names
<1>5. left \in Seq(Hosts)
  BY SortedAssumption, FilterKeeps
<1> HIDE DEF left
<1>6. locals \in LocalsType /\ locals.stage = stage /\ locals.left = left
  <2>1. stage \in Stages /\ left \in Left
    BY <1>5 DEF Stages, Left
  <2> HIDE DEF stage
  <2> QED
    BY <1>2, <2>1 DEF LocalsType
<1> HIDE DEF locals
<1>7. LocalFits(locals, at)
  BY <1>1, <1>2, <1>3, <1>5, <1>6 DEF LocalFits, StagesOf
<1> QED
  BY <1>1, <1>4, <1>7, NoneFits, HandledFits

\* The metrics of a self-only name.
LEMMA StealthFits ==
    ASSUME NEW b \in BOOLEAN
    PROVE  Stealth(b) \in Metrics /\ "mx_info" \notin DOMAIN Stealth(b)
BY DEF Stealth, Metrics, OneIf

LEMMA ClassifyType ==
    ASSUME CheckType, DiscoveryInv, UNCHANGED <<walkVars, discoveryVars>>, Classify
    PROVE  CheckType' /\ Proceeds
<1> DEFINE metrics == [ns_classification |-> 1]
<1>1. local.stage = "classify" /\ local.left # <<>> /\ Classifies(metrics)
  BY DEF Classify
<1>2. query = Nil
  BY <1>1, ClassifyStart
<1>3. metrics \in Metrics /\ "mx_info" \notin DOMAIN metrics
  BY DEF Metrics
<1> HIDE DEF metrics
<1> QED
  BY <1>1, <1>2, <1>3, ClassifiesType

\* A self-only name: without addresses it is not reachable, else they are asked.
LEMMA ResolveStealthType ==
    ASSUME CheckType, DiscoveryInv, UNCHANGED <<walkVars, discoveryVars>>, ResolveStealth
    PROVE  CheckType' /\ Proceeds
<1> DEFINE h == Head(local.left)
<1>1. local.stage = "classify" /\ local.left # <<>>
  BY DEF ResolveStealth
<1>2. /\ check = "ns_classification" /\ check # Nil /\ query = Nil
      /\ LocalFits(local, at) /\ local \in LocalsType /\ local.left \in Seq(Hosts)
  BY <1>1, ClassifyStart
<1>3. h \in Hosts
  BY <1>1, <1>2
<1> DEFINE todoOf(ips) == [k \in DOMAIN ips |->
                              Question("SOA", "zone", [host |-> h, ip |-> ips[k]])]
           stage == "stealth"
<1>4. PICK ips \in Lookups[h] \cup {<<>>} :
         IF ips = <<>> THEN Classifies(Stealth(FALSE))
         ELSE Handled(<<>>, at, [local EXCEPT !.stage = stage, !.todo = todoOf(ips)])
  BY DEF ResolveStealth
<1>5. CASE ips = <<>>
  <2> DEFINE metrics == Stealth(FALSE)
  <2>1. metrics \in Metrics /\ "mx_info" \notin DOMAIN metrics /\ Classifies(metrics)
    BY <1>4, <1>5, StealthFits
  <2> HIDE DEF metrics
  <2> QED
    BY <1>1, <1>2, <2>1, ClassifiesType
<1>6. CASE ips # <<>>
  <2> DEFINE todo == todoOf(ips)
             locals == [local EXCEPT !.stage = stage, !.todo = todo]
  <2>1. Handled(<<>>, at, locals)
    BY <1>4, <1>6
  <2>2. ips \in Seq(Addrs)
    BY <1>3, <1>4, <1>6, LookupsAssumption
  <2>3. /\ Len(ips) \in Nat \ {0}
        /\ todo = [k \in 1..Len(ips) |-> Question("SOA", "zone", [host |-> h, ip |-> ips[k]])]
        /\ \A k \in 1..Len(ips) : ips[k] \in Addrs
    BY <1>6, <2>2
  <2>4. todo = [k \in 1..Len(ips) |-> todo[k]]
    BY <2>3
  <2>5. \A k \in 1..Len(ips) : todo[k] \in Questions /\ IsStealth(todo[k], h)
    BY <1>2, <1>3, <2>3 DEF Questions, Target, Question, IsStealth, QueryTypes, Checks
  <2> HIDE DEF todo
  <2>6. todo \in Seq(Questions) /\ Len(todo) = Len(ips) /\ todo # <<>>
    BY <2>3, <2>5, <2>4
  <2>7. locals \in LocalsType /\ locals.stage = stage /\ locals.left = local.left
        /\ locals.todo = todo
    <3>1. stage \in Stages /\ todo \in ToDo
      BY <2>6 DEF Stages, ToDo
    <3> HIDE DEF stage
    <3> QED
      BY <1>2, <3>1 DEF LocalsType
  <2> HIDE DEF locals
  <2>8. LocalFits(locals, at)
    BY <1>1, <1>2, <2>5, <2>6, <2>7 DEF LocalFits, StagesOf
  <2> QED
    BY <1>2, <2>1, <2>8, NoneFits, HandledFits
<1> QED
  BY <1>5, <1>6

LEMMA StealthReplyType ==
    ASSUME CheckType, DiscoveryInv, UNCHANGED <<walkVars, discoveryVars>>, StealthReply
    PROVE  CheckType' /\ Proceeds
<1> DEFINE working == Answered /\ reply.aa /\ reply.rrs # <<>>
           todo == Tail(local.todo)
           locals == [local EXCEPT !.todo = todo]
<1>1. /\ check = "ns_classification" /\ check # Nil /\ reply # Nil /\ query.type = "SOA"
      /\ IF working \/ Len(local.todo) = 1 THEN Classifies(Stealth(working))
         ELSE Handled(<<>>, at, locals)
  BY ChecksAssumption DEF StealthReply, Replied, Checks
<1>2. local.stage = "stealth" /\ local.todo # <<>>
  BY <1>1, StageOfReply DEF QueryType
<1>3. /\ LocalFits(local, at) /\ local \in LocalsType /\ local.left \in Seq(Hosts)
      /\ local.left # <<>>
  BY <1>2, ClassifyStart DEF LocalFits
<1>4. CASE working \/ Len(local.todo) = 1
  <2> DEFINE metrics == Stealth(working)
  <2>1. metrics \in Metrics /\ "mx_info" \notin DOMAIN metrics
    BY DEF Stealth, Metrics, OneIf
  <2>2. Classifies(metrics)
    BY <1>1, <1>4
  <2> HIDE DEF metrics
  <2> QED
    BY <1>1, <1>2, <1>3, <2>1, <2>2, ClassifiesType
<1>5. CASE ~(working \/ Len(local.todo) = 1)
  <2>1. Handled(<<>>, at, locals)
    BY <1>1, <1>5
  <2>2. local.todo \in Seq(Questions)
    BY <1>3 DEF LocalsType, ToDo
  <2>3. Len(local.todo) \in Nat /\ Len(local.todo) # 0 /\ Len(local.todo) # 1
    BY <1>2, <1>5, <2>2
  <2>4. /\ todo \in Seq(Questions) /\ Len(todo) = Len(local.todo) - 1
        /\ \A k \in 1..Len(todo) : k + 1 \in 1..Len(local.todo) /\ todo[k] = local.todo[k + 1]
    BY <1>2, <2>2, <2>3
  <2> HIDE DEF todo
  <2>5. todo # <<>>
    <3>1. Len(todo) # 0
      BY <2>4, <2>3
    <3> QED
      BY <3>1
  <2>6. locals \in LocalsType /\ locals.stage = local.stage /\ locals.left = local.left
        /\ locals.todo = todo
    BY <1>3, <2>4 DEF LocalsType, ToDo
  <2> HIDE DEF locals
  <2>7. LocalFits(locals, at)
    BY <1>2, <1>3, <2>4, <2>6, <2>5 DEF LocalFits
  <2> QED
    BY <1>1, <2>1, <2>7, NoneFits, HandledFits
<1> QED
  BY <1>4, <1>5

LEMMA ClassificationType ==
    ASSUME CheckType, DiscoveryInv, UNCHANGED <<walkVars, discoveryVars>>, NSClassification
    PROVE  CheckType' /\ Proceeds
BY ClassificationTurnType, UnionSortedType, ClassifyType, ResolveStealthType,
   StealthReplyType DEF NSClassification

\* The results of mx and email_auth.
LEMMA ZoneResultFits ==
    ASSUME check \in Checks, check \in ran, NEW labels \in Labels, NEW metrics \in Metrics,
           "mx_info" \in DOMAIN metrics => {"target", "priority"} \subseteq DOMAIN labels
    PROVE  /\ ResultFits(MXResult(labels, metrics)) /\ MXResult(labels, metrics).check = check
           /\ NewFit(<<MXResult(labels, metrics)>>)
<1> DEFINE r == [Result(NoHost, NoIP, TRUE, FALSE) EXCEPT !.labels = labels,
                                                          !.metrics = metrics]
<1>1. NoHost \in Hosts \cup {NoHost} /\ NoIP \in Addrs \cup {NoIP}
  OBVIOUS
<1>2. ResultFits(r)
  BY <1>1, LabelledFits
<1>3. NewFit(<<r>>)
  BY <1>1, LabelledFits
<1>4. MXResult(labels, metrics) = r /\ r.check = check
  BY DEF MXResult, Result
<1> HIDE DEF r
<1> QED
  BY <1>2, <1>3, <1>4

\* mx: a nameserver that fails.
LEMMA MXFailsType ==
    ASSUME CheckType, DiscoveryInv, UNCHANGED <<walkVars, discoveryVars>>, MXFails
    PROVE  CheckType' /\ Proceeds
<1> DEFINE r == [FailedResult(Current) EXCEPT !.host = NoHost]
           new == IF at < Len(nameservers) THEN <<>> ELSE <<r>>
<1>1. /\ check = "mx" /\ check # Nil /\ reply # Nil /\ query.type = "MX"
      /\ Handled(new, at + 1, local)
  BY ChecksAssumption DEF MXFails, Replied, Checks
<1>2. /\ check \in Checks /\ check \in ran /\ LocalFits(local, at)
      /\ Len(nameservers) \in Nat /\ local.stage \in {"servers", "targets"}
  BY <1>1, CheckIsFit DEF StagesOf
<1>3. local.stage = "servers"
  BY <1>1, <1>2, StageOfReply
<1>4. at \in 1..Len(nameservers) /\ Current \in Server
  BY <1>1, <1>3, TurnFits
<1>5. NewFit(<<r>>)
  <2> DEFINE f == FailedResult(Current)
  <2>1. ResultFits(f) /\ f.check = check /\ f.metrics = <<>>
    BY <1>1, <1>3, FailedFits DEF Unfailing
  <2> HIDE DEF f
  <2>2. f.check = check
    BY <2>1
  <2>3. "mx_info" \notin DOMAIN f.metrics
    BY <2>1
  <2>4. /\ f \in ProbeResult /\ f.zone = Zone /\ f.check \in ran
        /\ f.timedOut => f.ip \in silent
    BY <2>1 DEF ResultFits
  <2>5. r = [f EXCEPT !.host = NoHost]
    BY DEF f
  <2>6. /\ r \in ProbeResult /\ r.zone = f.zone /\ r.check = f.check
        /\ r.metrics = f.metrics /\ r.ip = f.ip /\ r.timedOut = f.timedOut
    BY <2>4, <2>5 DEF ProbeResult
  <2> HIDE DEF r
  <2>7. ResultFits(r)
    BY <1>1, <2>2, <2>3, <2>4, <2>6 DEF ResultFits, Unfailing
  <2> QED
    BY <2>2, <2>6, <2>7, OneFits
<1> HIDE DEF r
<1>6. NewFit(new)
  BY <1>5, NoneFits
<1>7. at + 1 \in 1..(Len(nameservers) + 1)
  BY <1>2, <1>4
<1>8. LocalFits(local, at + 1)
  BY <1>2, <1>3, <1>7, NextTurn
<1> HIDE DEF new
<1> QED
  BY <1>1, <1>6, <1>8, HandledFits

\* An answer: its records are handled one by one.
LEMMA MXAnswerType ==
    ASSUME CheckType, DiscoveryInv, UNCHANGED <<walkVars, discoveryVars>>, MXAnswer
    PROVE  CheckType' /\ Proceeds
<1> DEFINE r == Result(NoHost, Current.ip, TRUE, FALSE)
           stage == "targets"
           left == reply.rrs
           locals == [local EXCEPT !.stage = stage, !.left = left]
<1>1. /\ check = "mx" /\ check # Nil /\ reply # Nil /\ query.type = "MX" /\ Answered
      /\ Handled(<<r>>, Len(nameservers) + 1, locals)
  BY ChecksAssumption DEF MXAnswer, Replied, Checks
<1>2. /\ check \in Checks /\ check \in ran /\ LocalFits(local, at) /\ local \in LocalsType
      /\ Len(nameservers) \in Nat /\ local.stage \in {"servers", "targets"}
  BY <1>1, CheckIsFit DEF StagesOf
<1>3. local.stage = "servers"
  BY <1>1, <1>2, StageOfReply
<1>4. at \in 1..Len(nameservers) /\ Current \in Server
  BY <1>1, <1>3, TurnFits
<1>5. NewFit(<<r>>)
  <2>1. NoHost \in Hosts \cup {NoHost} /\ Current.ip \in Addrs \cup {NoIP}
    BY <1>4 DEF Server
  <2> QED
    BY <1>2, <2>1, PlainFits
<1> HIDE DEF r
<1>6. left \in Seq(MXRecords)
  <2>1. reply \in Answers["MX"]
    BY <1>1 DEF CheckType, ExchangeType, ReplyFits, Silences, Silence, Answered
  <2> QED
    BY <2>1, ChecksAssumption DEF QueryTypes, Replies, Records, MXRecords
<1> HIDE DEF left
<1>7. locals \in LocalsType /\ locals.stage = stage /\ locals.left = left
  <2>1. stage \in Stages /\ left \in Left
    BY <1>6 DEF Stages, Left
  <2> HIDE DEF stage
  <2> QED
    BY <1>2, <2>1 DEF LocalsType
<1> HIDE DEF locals
<1>8. LocalFits(locals, Len(nameservers) + 1)
  BY <1>1, <1>2, <1>6, <1>7 DEF LocalFits, StagesOf
<1> QED
  BY <1>1, <1>5, <1>8, HandledFits

\* What may come out of a record: its info, and the validity of its target.
LEMMA MXTargetType ==
    ASSUME CheckType, DiscoveryInv, UNCHANGED <<walkVars, discoveryVars>>, MXTarget
    PROVE  CheckType' /\ Proceeds
<1> DEFINE mx == Head(local.left)
           target == [target |-> mx.target]
           both == [target |-> mx.target, priority |-> mx.preference]
           listed == [mx_info |-> 1]
           null == [mx_syntax_valid |-> 1]
           looked(a, b) == [mx_resolves |-> a, mx_is_cname |-> b,
                            mx_syntax_valid |-> OneIf(mx.target \in ValidNames)]
           info == MXResult(both, listed)
           left == Tail(local.left)
           emitted == local.emitted \cup {mx.target}
           locals == [local EXCEPT !.left = left, !.emitted = emitted]
<1>1. /\ check = "mx" /\ check # Nil /\ local.left # <<>>
      /\ \/ Handled(<<info>>, at, locals)
         \/ Handled(<<info, MXResult(target, null)>>, at, locals)
         \/ \E a, b \in {0, 1} : Handled(<<info, MXResult(target, looked(a, b))>>, at, locals)
  BY ChecksAssumption DEF MXTarget, Checks
<1>2. /\ check \in Checks /\ check \in ran /\ LocalFits(local, at) /\ local \in LocalsType
      /\ local.stage = "targets"
  BY <1>1, CheckIsFit DEF LocalFits, StagesOf
<1>3. query = Nil
  BY <1>2 DEF CheckType, ExchangeType, QueryFits
<1>4. local.left \in Seq(MXRecords)
  BY <1>2 DEF LocalFits
<1>5. mx \in MXRecords /\ left \in Seq(MXRecords)
  BY <1>1, <1>4
<1>6. mx.target \in Hosts /\ mx.preference \in Nat
  BY <1>5 DEF MXRecords
<1> HIDE DEF mx, left
<1>7. target \in Labels /\ both \in Labels /\ {"target", "priority"} \subseteq DOMAIN both
  BY <1>6 DEF Labels
<1>8. /\ listed \in Metrics
      /\ null \in Metrics /\ "mx_info" \notin DOMAIN null
  BY DEF Metrics
<1>9. \A a, b \in {0, 1} : looked(a, b) \in Metrics /\ "mx_info" \notin DOMAIN looked(a, b)
  BY DEF Metrics, OneIf
<1> HIDE DEF target, both, listed, null, looked
<1>10. NewFit(<<info>>)
  BY <1>2, <1>7, <1>8, ZoneResultFits
<1> HIDE DEF info
<1>11. ASSUME NEW metrics \in Metrics, "mx_info" \notin DOMAIN metrics
       PROVE  NewFit(<<info, MXResult(target, metrics)>>)
  <2> DEFINE valid == MXResult(target, metrics)
  <2>1. NewFit(<<valid>>)
    BY <1>2, <1>7, <1>11, ZoneResultFits
  <2> HIDE DEF valid
  <2>2. <<info, valid>> = <<info>> \o <<valid>>
    OBVIOUS
  <2>3. NewFit(<<info>> \o <<valid>>)
    BY <1>10, <2>1, BothFit
  <2> QED
    BY <2>2, <2>3 DEF valid
<1>12. emitted \in Emitted /\ left \in Left
  BY <1>2, <1>5, <1>6 DEF LocalsType, Emitted, Left
<1> HIDE DEF emitted
<1>13. locals \in LocalsType /\ locals.stage = local.stage /\ locals.left = left
  BY <1>2, <1>12 DEF LocalsType
<1> HIDE DEF locals
<1>14. LocalFits(locals, at)
  BY <1>2, <1>5, <1>13 DEF LocalFits
<1>15. CASE Handled(<<info>>, at, locals)
  BY <1>1, <1>3, <1>10, <1>14, <1>15, HandledFits
<1>16. CASE Handled(<<info, MXResult(target, null)>>, at, locals)
  <2>1. NewFit(<<info, MXResult(target, null)>>)
    BY <1>8, <1>11
  <2> QED
    BY <1>1, <1>3, <1>14, <1>16, <2>1, HandledFits
<1>17. ASSUME NEW a \in {0, 1}, NEW b \in {0, 1},
              Handled(<<info, MXResult(target, looked(a, b))>>, at, locals)
       PROVE  CheckType' /\ Proceeds
  <2>1. NewFit(<<info, MXResult(target, looked(a, b))>>)
    BY <1>9, <1>11
  <2> QED
    BY <1>1, <1>3, <1>14, <1>17, <2>1, HandledFits
<1> QED
  BY <1>1, <1>15, <1>16, <1>17

\* What is read of a TXT record.
LEMMA ValuesFit ==
    ASSUME NEW txt \in TXTRecord, NEW tag
    PROVE  /\ Values(txt, tag) \in Seq(TXTTerm)
           /\ \A k \in 1..Len(Values(txt, tag)) : Values(txt, tag)[k].tag = tag
<1> DEFINE keep == {t \in ToSet(txt.terms) : t.tag = tag}
           mine == Filter(txt.terms, keep)
<1>1. txt.terms \in Seq(TXTTerm)
  BY DEF TXTRecord
<1>2. Values(txt, tag) = mine
  BY DEF Values
<1>3. \A t \in keep : t.tag = tag
  OBVIOUS
<1> HIDE DEF keep
<1>4. mine \in Seq(TXTTerm) /\ ToSet(mine) = ToSet(txt.terms) \cap keep
  BY <1>1, FilterKeeps
<1> HIDE DEF mine
<1>5. \A k \in 1..Len(mine) : mine[k] \in ToSet(mine)
  BY <1>4 DEF ToSet
<1> QED
  BY <1>2, <1>3, <1>4, <1>5

LEMMA TerminalAllFits ==
    ASSUME NEW txt \in TXTRecord
    PROVE  TerminalAll(txt) \in Qualifiers
<1> DEFINE all == Values(txt, "all")
<1>1. all \in Seq(TXTTerm) /\ \A k \in 1..Len(all) : all[k].tag = "all"
  BY ValuesFit
<1>2. TerminalAll(txt) = IF all = <<>> THEN "none" ELSE Last(all).value
  BY DEF TerminalAll
<1> HIDE DEF all
<1>3. CASE all # <<>>
  <2>1. Last(all) = all[Len(all)] /\ Len(all) \in 1..Len(all)
    BY <1>1, <1>3 DEF Last
  <2>2. Last(all) \in TXTTerm /\ Last(all).tag = "all"
    BY <1>1, <2>1
  <2> QED
    BY <1>2, <1>3, <2>2 DEF TXTTerm
<1> QED
  BY <1>2, <1>3 DEF Qualifiers

LEMMA VersionsFit ==
    ASSUME NEW rrs \in Seq(TXTRecord), NEW version
    PROVE  Versions(rrs, version) \in Seq(TXTRecord)
BY FilterKeeps DEF Versions

LEMMA PolicyFits ==
    ASSUME NEW txt, NEW tag
    PROVE  Policy(txt, tag) \in Seq(Policies)
<1> DEFINE value == Head(Values(txt, tag)).value
<1>1. Policy(txt, tag) = <<>> \/ (Policy(txt, tag) = <<value>> /\ value \in Policies)
  BY DEF Policy
<1> HIDE DEF value
<1>2. value \in Policies => <<value>> \in Seq(Policies)
  OBVIOUS
<1>3. <<>> \in Seq(Policies)
  OBVIOUS
<1> QED
  BY <1>1, <1>2, <1>3

\* A TXT reply that brings records.
LEMMA RecordsFit ==
    ASSUME CheckType, DiscoveryInv, Replied("email_auth", "TXT")
    PROVE  /\ check = "email_auth" /\ check # Nil /\ check \in Checks /\ check \in ran
           /\ reply # Nil /\ LocalFits(local, at) /\ local \in LocalsType
           /\ local.stage \in {"servers", "dmarc"} /\ local.left = <<>>
           /\ at \in 1..Len(nameservers) /\ Len(nameservers) \in Nat
           /\ reply.rrs \in Seq(TXTRecord)
<1>1. check = "email_auth" /\ check # Nil /\ reply # Nil /\ query.type = "TXT"
  BY ChecksAssumption DEF Replied, Checks
<1>2. /\ check \in Checks /\ check \in ran /\ LocalFits(local, at) /\ local \in LocalsType
      /\ Len(nameservers) \in Nat /\ local.stage \in {"servers", "dmarc"}
  BY <1>1, CheckIsFit DEF StagesOf
<1>3. at \in 1..Len(nameservers) /\ local.left = <<>>
  BY <1>1, <1>2, TurnFits DEF LocalFits
<1>4. reply \in Answers["TXT"] \/ reply.rrs = <<>>
  BY <1>1 DEF CheckType, ExchangeType, ReplyFits, Silences, Silence
<1>5. reply.rrs \in Seq(TXTRecord)
  <2>1. CASE reply \in Answers["TXT"]
    BY <2>1, ChecksAssumption DEF QueryTypes, Replies, Records
  <2>2. CASE reply.rrs = <<>>
    BY <2>2
  <2> QED
    BY <1>4, <2>1, <2>2
<1> QED
  BY <1>1, <1>2, <1>3, <1>5

LEMMA TXTFailsType ==
    ASSUME CheckType, DiscoveryInv, UNCHANGED <<walkVars, discoveryVars>>, TXTFails
    PROVE  CheckType' /\ Proceeds
<1>1. Replied("email_auth", "TXT") /\ Handled(<<>>, at + 1, local)
  BY DEF TXTFails
<1>2. /\ check # Nil /\ reply # Nil /\ LocalFits(local, at)
      /\ local.stage \in {"servers", "dmarc"} /\ at \in 1..Len(nameservers)
      /\ Len(nameservers) \in Nat
  BY <1>1, RecordsFit
<1>3. LocalFits(local, at + 1)
  BY <1>2, NextTurn
<1> QED
  BY <1>1, <1>2, <1>3, NoneFits, HandledFits

\* The results about SPF.
LEMMA SPFResultsFit ==
    ASSUME check \in Checks, check \in ran, NEW rrs \in Seq(TXTRecord),
           NEW lookups \in LookupCounts
    PROVE  NewFit(SPFResults(rrs, lookups))
<1> DEFINE spf == Versions(rrs, "spf1")
           single == Len(spf) = 1
           valid == single /\ ~Malformed(spf[1])
           none == <<>>
           counts == [spf_present |-> OneIf(spf # <<>>), spf_record_count |-> Len(spf),
                      spf_valid |-> OneIf(valid)]
           record == [record |-> spf]
           listed == [spf_record |-> 1]
           qualifier == [qualifier |-> TerminalAll(spf[1])]
           terminal == [spf_terminal_all |-> 1]
           r1 == <<MXResult(none, counts)>>
           r2 == IF spf = <<>> THEN <<>> ELSE <<MXResult(record, listed)>>
           r3 == IF single THEN <<MXResult(qualifier, terminal)>> ELSE <<>>
           r4 == IF valid THEN <<MXResult(none, lookups)>> ELSE <<>>
<1>1. SPFResults(rrs, lookups) = r1 \o r2 \o r3 \o r4
  BY DEF SPFResults, EmailResult
<1>2. spf \in Seq(TXTRecord)
  BY VersionsFit
<1> HIDE DEF spf
<1>3. none \in Labels /\ record \in Labels
  BY <1>2 DEF Labels
<1>4. counts \in Metrics /\ "mx_info" \notin DOMAIN counts
  <2>1. Len(spf) \in Nat
    BY <1>2
  <2>2. counts \in [spf_present : Nat, spf_record_count : Nat, spf_valid : Nat]
    BY <2>1 DEF OneIf
  <2> QED
    BY <2>2 DEF Metrics
<1>5. /\ listed \in Metrics /\ "mx_info" \notin DOMAIN listed
      /\ terminal \in Metrics /\ "mx_info" \notin DOMAIN terminal
  BY DEF Metrics
<1>6. lookups \in Metrics /\ "mx_info" \notin DOMAIN lookups
  <2>1. lookups \in [spf_lookup_budget_exceeded : Nat, spf_lookup_eval_complete : Nat]
    BY DEF LookupCounts
  <2> QED
    BY <2>1 DEF Metrics
<1>7. single => qualifier \in Labels
  <2>1. single => 1 \in 1..Len(spf)
    OBVIOUS
  <2>2. ASSUME single PROVE spf[1] \in TXTRecord
    <3>1. 1 \in 1..Len(spf)
      BY <2>1, <2>2
    <3> QED
      BY <1>2, <3>1
  <2> QED
    BY <2>2, TerminalAllFits DEF Labels
<1> HIDE DEF none, counts, record, listed, qualifier, terminal, single, valid
<1>8. NewFit(r1)
  BY <1>3, <1>4, ZoneResultFits
<1>9. NewFit(r2)
  <2>1. NewFit(<<MXResult(record, listed)>>)
    BY <1>3, <1>5, ZoneResultFits
  <2> QED
    BY <2>1, NoneFits
<1>10. NewFit(r3)
  <2>1. single => NewFit(<<MXResult(qualifier, terminal)>>)
    BY <1>5, <1>7, ZoneResultFits
  <2> QED
    BY <2>1, NoneFits
<1>11. NewFit(r4)
  <2>1. NewFit(<<MXResult(none, lookups)>>)
    BY <1>3, <1>6, ZoneResultFits
  <2> QED
    BY <2>1, NoneFits
<1> HIDE DEF r1, r2, r3, r4
<1>12. NewFit(r1 \o r2)
  BY <1>8, <1>9, BothFit
<1>13. NewFit(r1 \o r2 \o r3)
  BY <1>10, <1>12, BothFit
<1>14. NewFit(r1 \o r2 \o r3 \o r4)
  BY <1>11, <1>13, BothFit
<1> QED
  BY <1>1, <1>14

\* The results for a policy, if there is one.
LEMMA PolicyResultsFit ==
    ASSUME check \in Checks, check \in ran, NEW p \in Seq(Policies), NEW metrics \in Metrics,
           "mx_info" \notin DOMAIN metrics,
           NEW rs, rs = [k \in DOMAIN p |-> EmailResult([policy |-> p[k]], metrics)]
    PROVE  NewFit(rs)
<1>1. /\ DOMAIN p = 1..Len(p) /\ Len(p) \in Nat
      /\ \A k \in 1..Len(p) : p[k] \in Policies
  OBVIOUS
<1>2. ASSUME NEW k \in 1..Len(p)
      PROVE  ResultFits(rs[k]) /\ rs[k].check = check
  <2> DEFINE label == [policy |-> p[k]]
  <2>1. label \in Labels
    BY <1>1 DEF Labels
  <2>2. rs[k] = MXResult(label, metrics)
    BY <1>1 DEF EmailResult
  <2> HIDE DEF label
  <2>3. /\ ResultFits(MXResult(label, metrics))
        /\ MXResult(label, metrics).check = check
    BY <2>1, ZoneResultFits
  <2> QED
    BY <2>2, <2>3
<1>3. rs = [k \in 1..Len(p) |-> rs[k]]
  BY <1>1
<1>4. \A k \in 1..Len(p) : rs[k] \in ProbeResult
  BY <1>2 DEF ResultFits
<1>5. rs \in Seq(ProbeResult) /\ Len(rs) = Len(p)
  BY <1>1, <1>3, <1>4
<1> QED
  BY <1>2, <1>5 DEF NewFit

\* The results about DMARC.
LEMMA DMARCResultsFit ==
    ASSUME check \in Checks, check \in ran, NEW rrs \in Seq(TXTRecord)
    PROVE  NewFit(DMARCResults(rrs))
<1> DEFINE records == Versions(rrs, "dmarc1")
           txt == Head(records)
           present == records # <<>>
           p == IF present THEN Policy(txt, "p") ELSE <<>>
           sp == IF present THEN Policy(txt, "sp") ELSE <<>>
           has(tag) == OneIf(present /\ Values(txt, tag) # <<>>)
           none == <<>>
           flags == [dmarc_present |-> OneIf(present), dmarc_valid |-> OneIf(p # <<>>),
                     dmarc_rua_present |-> has("rua"), dmarc_ruf_present |-> has("ruf")]
           policy == [dmarc_policy |-> 1]
           record == [record |-> <<txt>>]
           listed == [dmarc_record |-> 1]
           sub == [dmarc_sp_policy |-> 1]
           r1 == <<MXResult(none, flags)>>
           r2 == [k \in DOMAIN p |-> EmailResult([policy |-> p[k]], policy)]
           r3 == IF present THEN <<MXResult(record, listed)>> ELSE <<>>
           r4 == [k \in DOMAIN sp |-> EmailResult([policy |-> sp[k]], sub)]
<1>1. DMARCResults(rrs) = r1 \o r2 \o r3 \o r4
  BY DEF DMARCResults, EmailResult
<1>2. records \in Seq(TXTRecord)
  BY VersionsFit
<1> HIDE DEF records
<1>3. none \in Labels
  BY DEF Labels
<1>4. present => record \in Labels
  <2>1. present => txt \in TXTRecord
    BY <1>2
  <2> HIDE DEF txt, present
  <2>2. present => <<txt>> \in Seq(TXTRecord)
    BY <2>1
  <2>3. present => record \in [record : Seq(TXTRecord)]
    BY <2>2
  <2> QED
    BY <2>3 DEF Labels
<1>5. p \in Seq(Policies) /\ sp \in Seq(Policies)
  BY PolicyFits
<1>6. flags \in Metrics /\ "mx_info" \notin DOMAIN flags
  <2>1. flags \in [dmarc_present : Nat, dmarc_valid : Nat, dmarc_rua_present : Nat,
                   dmarc_ruf_present : Nat]
    BY DEF OneIf
  <2> QED
    BY <2>1 DEF Metrics
<1>7. /\ policy \in Metrics /\ "mx_info" \notin DOMAIN policy
      /\ listed \in Metrics /\ "mx_info" \notin DOMAIN listed
      /\ sub \in Metrics /\ "mx_info" \notin DOMAIN sub
  BY DEF Metrics
<1> HIDE DEF txt, present, p, sp, has, none, flags, policy, record, listed, sub
<1>8. NewFit(r1)
  BY <1>3, <1>6, ZoneResultFits
<1>9. NewFit(r2)
  BY <1>5, <1>7, PolicyResultsFit
<1>10. NewFit(r3)
  <2>1. present => NewFit(<<MXResult(record, listed)>>)
    BY <1>4, <1>7, ZoneResultFits
  <2> QED
    BY <2>1, NoneFits
<1>11. NewFit(r4)
  BY <1>5, <1>7, PolicyResultsFit
<1> HIDE DEF r1, r2, r3, r4
<1>12. NewFit(r1 \o r2)
  BY <1>8, <1>9, BothFit
<1>13. NewFit(r1 \o r2 \o r3)
  BY <1>10, <1>12, BothFit
<1>14. NewFit(r1 \o r2 \o r3 \o r4)
  BY <1>11, <1>13, BothFit
<1> QED
  BY <1>1, <1>14

LEMMA EmailAuthType ==
    ASSUME CheckType, DiscoveryInv, UNCHANGED <<walkVars, discoveryVars>>,
           SPFRecords \/ NoSPF \/ DMARCRecords
    PROVE  CheckType' /\ Proceeds
<1> DEFINE stage == "dmarc"
           locals == [local EXCEPT !.stage = stage]
<1>1. ASSUME check = "email_auth", check # Nil, local.stage = "servers" PROVE LocalFits(locals, 1)
  <2>1. LocalFits(local, at) /\ local \in LocalsType /\ Len(nameservers) \in Nat
    BY <1>1, CheckIsFit
  <2>2. locals \in LocalsType /\ locals.stage = stage /\ locals.left = local.left
    <3>1. stage \in Stages
      BY DEF Stages
    <3> HIDE DEF stage
    <3> QED
      BY <2>1, <3>1 DEF LocalsType
  <2> HIDE DEF locals
  <2> QED
    BY <1>1, <2>1, <2>2 DEF LocalFits, StagesOf
<1>2. CASE SPFRecords
  <2>1. /\ Replied("email_auth", "TXT") /\ local.stage = "servers"
        /\ \E lookups \in LookupCounts :
              Handled(SPFResults(reply.rrs, lookups), 1, locals)
    BY <1>2 DEF SPFRecords
  <2>2. /\ check = "email_auth" /\ check # Nil /\ check \in Checks /\ check \in ran
        /\ reply # Nil /\ reply.rrs \in Seq(TXTRecord)
    BY <2>1, RecordsFit
  <2>3. PICK lookups \in LookupCounts : Handled(SPFResults(reply.rrs, lookups), 1, locals)
    BY <2>1
  <2>4. NewFit(SPFResults(reply.rrs, lookups))
    BY <2>2, SPFResultsFit
  <2>5. LocalFits(locals, 1)
    BY <1>1, <2>1, <2>2
  <2> HIDE DEF locals
  <2> QED
    BY <2>2, <2>3, <2>4, <2>5, HandledFits
<1>3. CASE NoSPF
  <2>1. /\ check = "email_auth" /\ check # Nil /\ local.stage = "servers"
        /\ at > Len(nameservers) /\ Handled(<<>>, 1, locals)
    BY <1>3, ChecksAssumption DEF NoSPF, Checks
  <2>2. /\ LocalFits(local, at) /\ Len(nameservers) \in Nat
    BY <2>1, CheckIsFit
  <2>3. query = Nil
    BY <2>1, <2>2 DEF CheckType, ExchangeType, QueryFits, LocalFits
  <2>4. LocalFits(locals, 1)
    BY <1>1, <2>1
  <2> HIDE DEF locals
  <2> QED
    BY <2>1, <2>3, <2>4, NoneFits, HandledFits
<1>4. CASE DMARCRecords
  <2>1. /\ Replied("email_auth", "TXT")
        /\ Handled(DMARCResults(reply.rrs), Len(nameservers) + 1, local)
    BY <1>4 DEF DMARCRecords
  <2>2. /\ check = "email_auth" /\ check # Nil /\ check \in Checks /\ check \in ran
        /\ reply # Nil /\ reply.rrs \in Seq(TXTRecord) /\ LocalFits(local, at)
        /\ local.stage \in {"servers", "dmarc"} /\ Len(nameservers) \in Nat
    BY <2>1, RecordsFit
  <2>3. NewFit(DMARCResults(reply.rrs))
    BY <2>2, DMARCResultsFit
  <2>4. LocalFits(local, Len(nameservers) + 1)
    BY <2>2, NextTurn
  <2> QED
    BY <2>1, <2>2, <2>3, <2>4, HandledFits
<1> QED
  BY <1>2, <1>3, <1>4

LEMMA FailoverType ==
    ASSUME CheckType, DiscoveryInv, UNCHANGED <<walkVars, discoveryVars>>, FailoverCheckStep
    PROVE  CheckType' /\ Proceeds
BY MXFailsType, MXAnswerType, MXTargetType, TXTFailsType, EmailAuthType
   DEF FailoverCheckStep

LEMMA ServerCheckType ==
    ASSUME CheckType, DiscoveryInv, UNCHANGED <<walkVars, discoveryVars>>, ServerCheckStep
    PROVE  CheckType' /\ Proceeds
BY SOAType, HostnameType, GlueType, ClassificationType DEF ServerCheckStep

-----------------------------------------------------------------------------
(* The exchanges, the loop over the checks and the deadline.               *)

\* A step that leaves the check as it is.
LEMMA SteadyType ==
    ASSUME CheckType, UNCHANGED <<walkVars, discoveryVars>>,
           UNCHANGED <<probers, ran, check, at, local, results>>,
           expired' \in BOOLEAN, silent' \subseteq Addrs \cup {NoIP}, silent \subseteq silent',
           ExchangeType'
    PROVE  CheckType'
<1>1. UNCHANGED <<nameservers, discovery>>
  BY DEF discoveryVars
<1>2. check # Nil => LocalFits(local, at)'
  <2>1. check # Nil => LocalFits(local, at)
    BY DEF CheckType
  <2> QED
    BY <1>1, <2>1 DEF LocalFits, StagesOf, IsAlias, IsAddress, IsStealth, Question
<1>3. \A k \in 1..Len(results') : ResultFits(results[k])'
  BY DEF CheckType, ResultFits
<1> QED
  BY <1>1, <1>2, <1>3 DEF CheckType

LEMMA AskType ==
    ASSUME CheckType, DiscoveryInv, UNCHANGED <<walkVars, discoveryVars>>, AskServer \/ AskNext
    PROVE  CheckType'
<1>1. PICK question : query = Nil /\ Sends(question)
  BY DEF AskServer, AskNext
<1>2. /\ query' = question /\ firstErr = Nil /\ reply = Nil
      /\ UNCHANGED <<probers, ran, check, at, firstErr, reply, local, results, expired, silent>>
  BY <1>1 DEF Sends, CheckType, ExchangeType
<1>3. check # Nil /\ query' \in Questions /\ QueryFits'
  <2>1. CASE AskServer
    <3>1. /\ check \in Checks \ {"ns_hostname"} /\ local.stage \in {"servers", "dmarc"}
          /\ at <= Len(nameservers) /\ query' = Question(QueryType, Name, Current)
      BY <2>1 DEF AskServer, Sends
    <3>2. check # Nil
      BY <3>1, ChecksAssumption
    <3>3. Current \in Server
      BY <3>1, <3>2, CheckIsFit
    <3>4. Current \in Target
      BY <3>3 DEF Server, Target
    <3>5. QueryType \in QueryTypes /\ Name \in Hosts \cup {"zone", "_dmarc"}
      BY <3>1 DEF QueryType, QueryTypes, Name, Checks
    <3>6. query' \in Questions
      BY <3>1, <3>4, <3>5 DEF Question, Questions
    <3>7. QueryFits'
      BY <1>2, <3>1 DEF QueryFits, Question, QueryType, Name, Current, discoveryVars
    <3> QED
      BY <3>2, <3>6, <3>7
  <2>2. CASE AskNext
    <3>1. /\ local.stage \in {"addresses", "stealth", "cname"} /\ local.todo # <<>>
          /\ query' = Head(local.todo)
      BY <2>2 DEF AskNext, Sends
    <3>2. check # Nil
      BY <3>1 DEF CheckType, Locals
    <3>3. local.todo \in Seq(Questions)
      BY <3>2, CheckIsFit DEF LocalsType, ToDo
    <3>4. query' \in Questions
      BY <3>1, <3>3
    <3>5. QueryFits'
      BY <1>2, <3>1 DEF QueryFits
    <3> QED
      BY <3>2, <3>4, <3>5
  <2> QED
    BY <2>1, <2>2
<1>4. ExchangeType'
  BY <1>2, <1>3 DEF ExchangeType
<1>5. expired' \in BOOLEAN /\ silent' \subseteq Addrs \cup {NoIP}
  BY <1>2 DEF CheckType
<1> QED
  BY <1>2, <1>4, <1>5, SteadyType

LEMMA ReturnsType ==
    ASSUME CheckType, UNCHANGED <<walkVars, discoveryVars>>,
           query # Nil, NEW r \in Answers[query.type] \cup Silences, Returns(r)
    PROVE  CheckType'
<1>1. /\ reply' = r /\ firstErr' = Nil
      /\ silent' = IF r.status = "timeout" THEN silent \cup {query.ns.ip} ELSE silent
      /\ UNCHANGED <<probers, ran, check, at, query, local, results, expired>>
      /\ UNCHANGED nameservers
  BY DEF Returns, discoveryVars
<1>2. query \in Questions /\ QueryFits /\ check # Nil
  BY DEF CheckType, ExchangeType
<1>3. query.ns.ip \in Addrs \cup {NoIP}
  BY <1>2 DEF Questions, Target
<1>4. QueryFits'
  BY <1>1, <1>2 DEF QueryFits, Question, QueryType, Name, Current
<1>5. ReplyFits'
  BY <1>1 DEF ReplyFits, Silences, Silence
<1>6. ExchangeType'
  BY <1>1, <1>2, <1>4, <1>5 DEF ExchangeType
<1>7. expired' \in BOOLEAN /\ silent' \subseteq Addrs \cup {NoIP}
  BY <1>1, <1>3 DEF CheckType
<1> QED
  BY <1>1, <1>6, <1>7, SteadyType

LEMMA TriesAgainType ==
    ASSUME CheckType, UNCHANGED <<walkVars, discoveryVars>>,
           query # Nil, reply = Nil, NEW kind \in {"timeout", "error"}, TriesAgain(kind)
    PROVE  CheckType'
<1>1. /\ firstErr' = kind
      /\ UNCHANGED <<probers, ran, check, at, query, reply, local, results, expired, silent>>
      /\ UNCHANGED nameservers
  BY DEF TriesAgain, discoveryVars
<1>2. query \in Questions /\ QueryFits /\ check # Nil
  BY DEF CheckType, ExchangeType
<1>3. QueryFits'
  BY <1>1, <1>2 DEF QueryFits, Question, QueryType, Name, Current
<1>4. ExchangeType'
  BY <1>1, <1>2, <1>3 DEF ExchangeType
<1>5. expired' \in BOOLEAN /\ silent' \subseteq Addrs \cup {NoIP}
  BY <1>1 DEF CheckType
<1> QED
  BY <1>1, <1>4, <1>5, SteadyType

\* An exchange comes to an end: with an answer, or with an error.
LEMMA ExchangeEnds ==
    ASSUME CheckType, ExchangeWithRetry \/ OnlyTryFails
    PROVE  /\ query # Nil /\ reply = Nil
           /\ \/ \E r \in Answers[query.type] \cup Silences : Returns(r)
              \/ \E kind \in {"timeout", "error"} : TriesAgain(kind)
<1>1. query # Nil /\ reply = Nil
  BY DEF ExchangeWithRetry, Exchanged, FirstTryFails, RetryFails, OnlyTryFails
<1>2. \A kind \in {"timeout", "error"} : Silence(kind) \in Silences
  BY DEF Silences
<1>3. CASE Exchanged
  BY <1>1, <1>3 DEF Exchanged
<1>4. CASE FirstTryFails
  <2>1. PICK kind \in {"timeout", "error"} :
           IF expired THEN Returns(Silence(kind)) ELSE TriesAgain(kind)
    BY <1>4 DEF FirstTryFails
  <2> QED
    BY <1>1, <1>2, <2>1
<1>5. CASE RetryFails
  <2>1. firstErr \in {"timeout", "error"} /\ Returns(Silence(firstErr))
    BY <1>5 DEF RetryFails, CheckType, ExchangeType
  <2> QED
    BY <1>1, <1>2, <2>1
<1>6. CASE OnlyTryFails
  BY <1>1, <1>2, <1>6 DEF OnlyTryFails
<1> QED
  BY <1>3, <1>4, <1>5, <1>6 DEF ExchangeWithRetry

LEMMA StartCheckType ==
    ASSUME CheckType, DiscoveryInv, UNCHANGED <<walkVars, discoveryVars>>,
           NEW c \in Checks, StartCheck(c)
    PROVE  CheckType'
<1>1. /\ discovery = "done" /\ nameservers # <<>> /\ check = Nil /\ c \in probers \ ran
      /\ check' = c /\ ran' = ran \cup {c} /\ at' = 1
      /\ local' = IF c = "glue" THEN [Locals EXCEPT !.stage = "start"] ELSE Locals
      /\ UNCHANGED <<probers, query, firstErr, reply, results, expired, silent>>
      /\ UNCHANGED <<nameservers, discovery>>
  BY DEF StartCheck, discoveryVars
<1>2. query = Nil /\ firstErr = Nil /\ reply = Nil
  BY <1>1 DEF CheckType, ExchangeType
<1>3. Locals \in LocalsType
  BY DEF Locals, LocalsType, Caches, Stages, ToDo, Left, Own, Emitted, Self
<1>4. local' \in LocalsType
  <2> DEFINE stage == "start"
  <2>1. stage \in Stages
    BY DEF Stages
  <2> HIDE DEF stage
  <2>2. [Locals EXCEPT !.stage = stage] \in LocalsType
    BY <1>3, <2>1 DEF LocalsType
  <2> QED
    BY <1>1, <1>3, <2>2 DEF stage
<1>5. local'.stage = (IF c = "glue" THEN "start" ELSE "servers") /\ local'.left = <<>>
  BY <1>1 DEF Locals
<1>6. Len(nameservers) \in Nat
  BY DEF DiscoveryInv, DiscoveryType
<1>7. LocalFits(local, at)'
  BY <1>1, <1>4, <1>5, <1>6 DEF LocalFits, StagesOf, Checks
<1>8. ExchangeType'
  BY <1>1, <1>2 DEF ExchangeType
<1>9. \A k \in 1..Len(results') : ResultFits(results[k])'
  BY <1>1 DEF CheckType, ResultFits
<1>10. results' \in Seq(ProbeResult) /\ c # Nil
  BY <1>1, ChecksAssumption DEF CheckType
<1> QED
  BY <1>1, <1>2, <1>7, <1>8, <1>9, <1>10 DEF CheckType

LEMMA EndCheckType ==
    ASSUME CheckType, UNCHANGED <<walkVars, discoveryVars>>, EndCheck
    PROVE  CheckType'
<1>1. /\ query = Nil /\ check' = Nil /\ at' = 1 /\ local' = Locals
      /\ UNCHANGED <<probers, ran, query, firstErr, reply, results, expired, silent>>
      /\ UNCHANGED <<nameservers, discovery>>
  BY DEF EndCheck, discoveryVars
<1>2. ExchangeType'
  BY <1>1 DEF CheckType, ExchangeType
<1>3. \A k \in 1..Len(results') : ResultFits(results[k])'
  BY <1>1 DEF CheckType, ResultFits
<1> QED
  BY <1>1, <1>2, <1>3 DEF CheckType

LEMMA ExpireType ==
    ASSUME CheckType, UNCHANGED <<walkVars, discoveryVars>>, Expire
    PROVE  CheckType'
<1>1. /\ expired' = TRUE
      /\ UNCHANGED <<probers, ran, check, at, query, firstErr, reply, local, results, silent>>
      /\ UNCHANGED nameservers
  BY DEF Expire, discoveryVars
<1>2. ExchangeType'
  BY <1>1 DEF CheckType, ExchangeType, QueryFits, ReplyFits, Question, QueryType, Name,
              Current, Silences, Silence
<1>3. expired' \in BOOLEAN /\ silent' \subseteq Addrs \cup {NoIP}
  BY <1>1 DEF CheckType
<1> QED
  BY <1>1, <1>2, <1>3, SteadyType

\* A step of the running check.
LEMMA CheckStepType ==
    ASSUME CheckType, DiscoveryInv, UNCHANGED <<walkVars, discoveryVars>>, CheckStep
    PROVE  CheckType'
<1>1. ASSUME NEW c \in Checks, StartCheck(c) PROVE CheckType'
  BY <1>1, StartCheckType
<1>2. CASE AskServer \/ AskNext
  BY <1>2, AskType
<1>3. CASE ExchangeWithRetry \/ OnlyTryFails
  <2>1. /\ query # Nil /\ reply = Nil
        /\ \/ \E r \in Answers[query.type] \cup Silences : Returns(r)
           \/ \E kind \in {"timeout", "error"} : TriesAgain(kind)
    BY <1>3, ExchangeEnds
  <2>2. ASSUME NEW r \in Answers[query.type] \cup Silences, Returns(r) PROVE CheckType'
    BY <2>1, <2>2, ReturnsType
  <2>3. ASSUME NEW kind \in {"timeout", "error"}, TriesAgain(kind) PROVE CheckType'
    BY <2>1, <2>3, TriesAgainType
  <2> QED
    BY <2>1, <2>2, <2>3
<1>4. CASE ServerCheckStep
  BY <1>4, ServerCheckType
<1>5. CASE FailoverCheckStep
  BY <1>5, FailoverType
<1>6. CASE EndCheck
  BY <1>6, EndCheckType
<1> QED
  BY <1>1, <1>2, <1>3, <1>4, <1>5, <1>6 DEF CheckStep

LEMMA UndisturbedWalk ==
    ASSUME WalkInv, UNCHANGED walkVars
    PROVE  WalkInv'
<1>1. UNCHANGED <<walk, server, hops, referral, delegation>>
  BY DEF walkVars
<1>2. WalkType'
  BY <1>1 DEF WalkInv, WalkType
<1>3. DelegationIsTheReply'
  BY <1>1 DEF WalkInv, DelegationIsTheReply
<1>4. PrefersIPv4'
  BY <1>1 DEF WalkInv, PrefersIPv4
<1> QED
  BY <1>1, <1>2, <1>3, <1>4 DEF WalkInv

LEMMA UndisturbedDiscovery ==
    ASSUME DiscoveryInv, UNCHANGED <<walkVars, discoveryVars>>
    PROVE  DiscoveryInv'
BY DEF DiscoveryInv, DiscoveryType, Discovered, GlueUpTo, NameserversAreDistinct,
       HostsNeedingAugmentation, Covers, walkVars, discoveryVars

\* Before the checks, nothing of theirs moves.
LEMMA UndisturbedChecks ==
    ASSUME CheckType, discovery # "done", UNCHANGED checkVars
    PROVE  CheckType'
<1>1. check = Nil /\ ran = {}
  BY DEF CheckType
<1>2. UNCHANGED <<probers, ran, check, at, query, firstErr, reply, local, results,
                  expired, silent>>
  BY DEF checkVars
<1>3. ExchangeType'
  BY <1>1, <1>2 DEF CheckType, ExchangeType
<1>4. \A k \in 1..Len(results') : ResultFits(results[k])'
  BY <1>2 DEF CheckType, ResultFits
<1> QED
  BY <1>1, <1>2, <1>3, <1>4 DEF CheckType

LEMMA WalkKeepsType ==
    ASSUME ZoneType, Walk
    PROVE  ZoneType'
<1>1. WalkNext /\ UNCHANGED <<discoveryVars, checkVars>>
  BY DEF Walk, WalkNext
<1>2. walk # "delegated"
  BY <1>1 DEF WalkNext, WalkExchangeFails, WalkDelegates, WalkUnusable, WalkFollowsGlue,
              WalkStartsFallback, WalkFallbackFinds, WalkFallbackMisses
<1>3. discovery = "idle"
  BY <1>2 DEF ZoneType
<1>4. WalkInv'
  BY <1>1, WalkStep DEF ZoneType
<1>5. DiscoveryInv'
  <2>1. UNCHANGED <<discovery, nameservers, position, unresolved, resolved, sought, found>>
    BY <1>1 DEF discoveryVars
  <2>2. delegation' \in Delegations
    BY <1>4 DEF WalkInv, WalkType
  <2>3. Len(delegation'.nsRecords) \in Nat
    BY <2>2 DEF Delegations
  <2>4. nameservers = <<>> /\ position = 0 /\ resolved = <<>> /\ found = {} /\ sought = {}
    BY <1>3 DEF ZoneType, DiscoveryInv, Discovered
  <2>5. ToSet(nameservers) = {} /\ GlueUpTo(0)' = {}
    BY <2>4, ElementsOfNone DEF GlueUpTo
  <2>6. Discovered'
    BY <1>3, <2>1, <2>4, <2>5 DEF Discovered, ToSet
  <2>7. NameserversAreDistinct'
    BY <2>1 DEF ZoneType, DiscoveryInv, NameserversAreDistinct
  <2>8. DiscoveryType'
    BY <2>1, <2>2, <2>3, <2>4 DEF ZoneType, DiscoveryInv, DiscoveryType
  <2> QED
    BY <2>6, <2>7, <2>8 DEF DiscoveryInv
<1>6. CheckType'
  BY <1>1, <1>3, UndisturbedChecks DEF ZoneType
<1> QED
  BY <1>1, <1>3, <1>4, <1>5, <1>6 DEF ZoneType, discoveryVars

LEMMA DiscoverKeepsType ==
    ASSUME ZoneType, Discover
    PROVE  ZoneType'
<1>1. /\ walk = "delegated" /\ DiscoveryNext /\ UNCHANGED walkVars /\ UNCHANGED checkVars
  BY DEF Discover, DiscoveryNext
<1>2. discovery # "done"
  BY <1>1 DEF DiscoveryNext, DiscoveryStep, BeginDiscovery, TakeGlue, BeginAugmentation,
              TakeResolved, EndDiscovery, ResolutionFails, Resolves
<1>3. DiscoveryInv'
  BY <1>1, DiscoveryStepHolds DEF ZoneType
<1>4. WalkInv' /\ CheckType'
  BY <1>1, <1>2, UndisturbedWalk, UndisturbedChecks DEF ZoneType
<1> QED
  BY <1>1, <1>3, <1>4 DEF ZoneType, walkVars

\* The goroutine of the zone, and its deadline.
LEMMA ZoneStep ==
    ASSUME ZoneType, ProbeZone \/ Deadline
    PROVE  ZoneType'
<1>1. CASE CheckStep /\ UNCHANGED <<walkVars, discoveryVars>>
  <2>1. WalkInv' /\ DiscoveryInv' /\ CheckType'
    BY <1>1, UndisturbedWalk, UndisturbedDiscovery, CheckStepType DEF ZoneType
  <2> QED
    BY <1>1, <2>1 DEF ZoneType, walkVars, discoveryVars
<1>2. CASE Deadline
  <2>1. Expire /\ UNCHANGED <<walkVars, discoveryVars>>
    BY <1>2 DEF Deadline
  <2>2. WalkInv' /\ DiscoveryInv' /\ CheckType'
    BY <2>1, UndisturbedWalk, UndisturbedDiscovery, ExpireType DEF ZoneType
  <2> QED
    BY <2>1, <2>2 DEF ZoneType, walkVars, discoveryVars
<1> QED
  BY <1>1, <1>2, WalkKeepsType, DiscoverKeepsType DEF ProbeZone

\* A timeout is not forgotten.
LEMMA SilentGrows ==
    ASSUME ZoneType, ProbeZone \/ Deadline
    PROVE  silent \subseteq silent'
<1>1. CASE UNCHANGED checkVars
  BY <1>1 DEF checkVars
<1>2. CASE CheckStep /\ UNCHANGED <<walkVars, discoveryVars>>
  <2>1. ASSUME NEW c \in Checks, StartCheck(c) PROVE UNCHANGED silent
    BY <2>1 DEF StartCheck
  <2>2. CASE AskServer \/ AskNext \/ EndCheck
    BY <2>2 DEF AskServer, AskNext, Sends, EndCheck
  <2>3. CASE ExchangeWithRetry \/ OnlyTryFails
    <3>1. (\E r : Returns(r)) \/ \E kind : TriesAgain(kind)
      BY <2>3, ExchangeEnds DEF ZoneType
    <3> QED
      BY <3>1 DEF Returns, TriesAgain
  <2>4. CASE ServerCheckStep \/ FailoverCheckStep
    <3>1. Proceeds
      BY <1>2, <2>4, ServerCheckType, FailoverType DEF ZoneType
    <3> QED
      BY <3>1 DEF Proceeds, Handled
  <2> QED
    BY <1>2, <2>1, <2>2, <2>3, <2>4 DEF CheckStep
<1>3. CASE Deadline
  BY <1>3 DEF Deadline, Expire
<1> QED
  BY <1>1, <1>2, <1>3 DEF ProbeZone, Walk, Discover

LEMMA ZoneInit == ASSUME ProbeInit PROVE ZoneType
<1>1. WalkInv
  BY WalkAssumption, TypesAssumption
     DEF ProbeInit, WalkInit, WalkInv, WalkType, DelegationIsTheReply, PrefersIPv4, NoReply,
         WalkReplyType, NoDelegation, Delegations, ToSet
<1>2. DiscoveryInv
  <2>1. /\ discovery = "idle" /\ nameservers = <<>> /\ position = 0 /\ unresolved = {}
        /\ resolved = <<>> /\ sought = {} /\ found = {}
    BY DEF ProbeInit, DiscoveryIdle
  <2>2. delegation \in Delegations
    BY <1>1 DEF WalkInv, WalkType
  <2>3. Len(delegation.nsRecords) \in Nat
    BY <2>2 DEF Delegations
  <2>4. DiscoveryType
    BY <2>1, <2>2, <2>3 DEF DiscoveryType
  <2>5. ToSet(nameservers) = {} /\ GlueUpTo(0) = {}
    BY <2>1, ElementsOfNone DEF GlueUpTo
  <2>6. Discovered
    BY <2>1, <2>5 DEF Discovered
  <2> QED
    BY <2>1, <2>4, <2>6 DEF DiscoveryInv, NameserversAreDistinct
<1>3. CheckType
  <2>1. /\ probers \in ProberSets /\ ran = {} /\ check = Nil /\ at = 1 /\ query = Nil
        /\ firstErr = Nil /\ reply = Nil /\ local = Locals /\ results = <<>>
        /\ expired = FALSE /\ silent = {}
    BY DEF ProbeInit, ChecksIdle
  <2>2. probers \subseteq Checks
    BY <2>1, ChecksAssumption
  <2>3. results \in Seq(ProbeResult) /\ \A k \in 1..Len(results) : ResultFits(results[k])
    BY <2>1
  <2>4. ExchangeType
    BY <2>1 DEF ExchangeType
  <2> QED
    BY <2>1, <2>2, <2>3, <2>4 DEF CheckType
<1> QED
  BY <1>1, <1>2, <1>3 DEF ZoneType, ProbeInit, DiscoveryIdle
=============================================================================
