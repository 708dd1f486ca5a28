-------------------------- MODULE ProbeCycleProofs --------------------------
(***************************************************************************)
(* What the goroutine of a zone has done for the nameservers and the names *)
(* when it returns (from the types of ZoneProbeProofs), and what the probe *)
(* cycle makes of it: what it returns is what Publication takes, and so    *)
(* the theorems of Publication are theorems of the cycle.                  *)
(***************************************************************************)
EXTENDS ProbeCycle, ZoneProbeProofs, PublicationProofs

-----------------------------------------------------------------------------
(* What a check has to do with the steps of the others.                    *)

\* The exchanges of a check that were answered.
LogOf(c) == {e \in log : e.query.check = c}

\* What a check asks for.
TypesOf(c) ==
    CASE c \in {"soa", "recursion"} -> {"SOA"}
      [] c = "ns_hostname" -> {"CNAME"}
      [] c = "glue" -> {"NS", "A", "AAAA"}
      [] c = "ns_classification" -> {"NS", "SOA"}
      [] c = "mx" -> {"MX"}
      [] c = "email_auth" -> {"TXT"}

\* What is logged: an exchange of a check that has been started.
LogInv ==
    /\ \A e \in log : /\ e.query \in Questions /\ e.query.check \in ran
                      /\ e.query.type \in TypesOf(e.query.check)
                      /\ e.reply \in Answers[e.query.type]
    /\ (reply # Nil /\ Answered) => [query |-> query, reply |-> reply] \in log

LEMMA OnlyAnswersAreOk ==
    /\ \A type \in QueryTypes : \A r \in Answers[type] : r.status = "ok" /\ r # Nil
    /\ \A r \in Silences : r.status # "ok" /\ r.rrs = <<>> /\ r # Nil
<1>1. ASSUME NEW type \in QueryTypes, NEW r \in Answers[type] PROVE r.status = "ok" /\ r # Nil
  <2>1. r \in Replies(type) /\ r # Nil
    BY <1>1, ChecksAssumption
  <2> QED
    BY <2>1 DEF Replies
<1>2. ASSUME NEW r \in Silences PROVE r.status # "ok" /\ r.rrs = <<>> /\ r # Nil
  BY ChecksAssumption DEF Silences, Silence
<1> QED
  BY <1>1, <1>2

\* The question that is out is one of the running check.
LEMMA AskedByCheck ==
    ASSUME CheckType, query # Nil
    PROVE  /\ query.check = check /\ query \in Questions /\ check \in ran
           /\ query.type \in TypesOf(check)
<1>1. /\ check # Nil /\ query \in Questions /\ QueryFits /\ LocalFits(local, at)
      /\ check \in ran /\ check \in Checks /\ local.stage \in StagesOf(check)
  BY DEF CheckType, ExchangeType, LocalFits
<1>2. CASE query = Question(QueryType, Name, Current) /\ check # "ns_hostname"
  BY <1>1, <1>2 DEF Question, QueryType, TypesOf, Checks
<1>3. CASE /\ local.stage \in {"cname", "addresses", "stealth"}
           /\ local.todo # <<>> /\ query = Head(local.todo)
  <2>1. local.todo \in Seq(Questions) /\ Len(local.todo) \in Nat
    BY <1>1 DEF LocalFits, LocalsType, ToDo
  <2>2. 1 \in 1..Len(local.todo) /\ query = local.todo[1]
    BY <1>3, <2>1
  <2>3. CASE local.stage = "cname"
    <3>1. query.check = check /\ query.type = "CNAME"
      BY <1>1, <2>2, <2>3 DEF LocalFits, IsAlias, Question
    <3>2. check = "ns_hostname"
      BY <1>1, <2>3 DEF StagesOf, Checks
    <3> QED
      BY <1>1, <3>1, <3>2 DEF TypesOf
  <2>4. CASE local.stage = "addresses"
    <3>1. IsAddress(query, nameservers[at])
      BY <1>1, <2>2, <2>4 DEF LocalFits
    <3>2. query.check = check /\ query.type \in {"A", "AAAA"}
      BY <3>1 DEF IsAddress, Question
    <3>3. check = "glue"
      BY <1>1, <2>4 DEF StagesOf, Checks
    <3> QED
      BY <1>1, <3>2, <3>3 DEF TypesOf
  <2>5. CASE local.stage = "stealth"
    <3>1. IsStealth(query, Head(local.left))
      BY <1>1, <2>2, <2>5 DEF LocalFits
    <3>2. query.check = check /\ query.type = "SOA"
      BY <3>1 DEF IsStealth, Question
    <3>3. check = "ns_classification"
      BY <1>1, <2>5 DEF StagesOf, Checks
    <3> QED
      BY <1>1, <3>2, <3>3 DEF TypesOf
  <2> QED
    BY <1>3, <2>3, <2>4, <2>5
<1> QED
  BY <1>1, <1>2, <1>3 DEF QueryFits

\* The results of a check, when any are appended.
LEMMA OfGrows ==
    ASSUME results \in Seq(ProbeResult), NEW new, NewFit(new), results' = results \o new
    PROVE  \A c : Of(c)' = IF c = check THEN Of(c) \o new ELSE Of(c)
<1> SUFFICES ASSUME NEW c PROVE Of(c)' = IF c = check THEN Of(c) \o new ELSE Of(c)
  OBVIOUS
<1> DEFINE Mine == {r \in ProbeResult : r.check = c}
           kept(s) == Filter(s, {r \in ToSet(s) : r.check = c})
           both == results \o new
<1>1. new \in Seq(ProbeResult) /\ \A r \in ToSet(new) : r.check = check
  BY DEF NewFit, ToSet
<1>2. both \in Seq(ProbeResult)
  BY <1>1
<1> HIDE DEF Mine
<1>3. Filter(both, ToSet(both) \cap Mine)
         = Filter(results, ToSet(results) \cap Mine) \o Filter(new, Mine)
  <2>1. \A t \in Seq(ProbeResult) :
           Filter(results \o t, ToSet(results \o t) \cap Mine)
             = Filter(results, ToSet(results) \cap Mine) \o Filter(t, Mine)
    BY FilterGrows
  <2> QED
    BY <1>1, <2>1
<1>4. ASSUME NEW s \in Seq(ProbeResult)
      PROVE  {r \in ToSet(s) : r.check = c} = ToSet(s) \cap Mine
  <2>1. ToSet(s) \subseteq ProbeResult
    BY DEF ToSet
  <2> QED
    BY <2>1 DEF Mine
<1> HIDE DEF both
<1>5. kept(both) = kept(results) \o Filter(new, Mine)
  <2>1. kept(both) = Filter(both, ToSet(both) \cap Mine)
    BY <1>2, <1>4, Zenon
  <2>2. kept(results) = Filter(results, ToSet(results) \cap Mine)
    BY <1>4, Zenon
  <2> QED
    BY <1>3, <2>1, <2>2, Zenon
<1>6. Of(c) = kept(results) /\ Of(c)' = kept(both)
  BY DEF Of, both
<1>7. kept(results) \in Seq(ProbeResult)
  BY FilterKeeps
<1> HIDE DEF kept
<1>8. CASE c = check
  <2>1. ToSet(new) \subseteq Mine
    BY <1>1, <1>8 DEF Mine, ToSet
  <2>2. Filter(new, Mine) = new
    BY <1>1, <2>1, FilterAll
  <2> QED
    BY <1>5, <1>6, <1>8, <2>2
<1>9. CASE c # check
  <2>1. ToSet(new) \cap Mine = {}
    BY <1>1, <1>9 DEF Mine
  <2>2. Filter(new, Mine) = <<>>
    BY <1>1, <2>1, FilterOut
  <2>3. kept(results) \o <<>> = kept(results)
    BY <1>7
  <2> QED
    BY <1>5, <1>6, <1>9, <2>2, <2>3
<1> QED
  BY <1>8, <1>9

\* They are results of that check, none of one that has not been started.
LEMMA OfCheck ==
    ASSUME CheckType, NEW c
    PROVE  /\ Of(c) \in Seq(ProbeResult)
           /\ \A k \in 1..Len(Of(c)) : Of(c)[k].check = c /\ ResultFits(Of(c)[k])
           /\ c \notin ran => Of(c) = <<>>
<1> DEFINE K == {r \in ToSet(results) : r.check = c}
           mine == Filter(results, K)
<1>1. results \in Seq(ProbeResult) /\ \A r \in ToSet(results) : ResultFits(r)
  BY DEF CheckType, ToSet
<1>2. mine \in Seq(ProbeResult) /\ ToSet(mine) = ToSet(results) \cap K
  BY <1>1, FilterKeeps
<1>3. c \notin ran => mine = <<>>
  <2>1. c \notin ran => ToSet(results) \cap K = {}
    BY <1>1 DEF ResultFits
  <2> HIDE DEF K
  <2> QED
    BY <1>1, <2>1, FilterOut
<1>4. Of(c) = mine
  BY DEF Of
<1> HIDE DEF mine
<1>5. ASSUME NEW k \in 1..Len(mine) PROVE mine[k].check = c /\ ResultFits(mine[k])
  <2>1. mine[k] \in ToSet(mine)
    BY <1>2 DEF ToSet
  <2> QED
    BY <1>1, <1>2, <2>1
<1> QED
  BY <1>2, <1>3, <1>4, <1>5

\* A step of the goroutine as a check sees it: it is none of its own,
Apart(c) ==
    /\ check # c /\ check' # c /\ (c \in ran' <=> c \in ran)
    /\ Of(c)' = Of(c) /\ LogOf(c)' = LogOf(c)
    /\ c \in ran => UNCHANGED <<nameservers, delegation>>

\* or it starts or ends the check,
Starts(c) == StartCheck(c) /\ UNCHANGED <<walkVars, discoveryVars>>
Ends(c) == check = c /\ EndCheck /\ UNCHANGED <<walkVars, discoveryVars>>

\* the check goes on asking, or hears of a nameserver,
Steady(c) ==
    /\ check = c
    /\ UNCHANGED <<ran, check, at, reply, local, results, log, nameservers, delegation>>
    /\ query # Nil => query' = query

Hears(c) ==
    /\ check = c /\ query # Nil /\ reply = Nil
    /\ \E r \in Answers[query.type] \cup Silences : Returns(r)
    /\ UNCHANGED <<walkVars, discoveryVars>>

\* or looks at what it has.
Acts(c) ==
    /\ check = c /\ (ServerCheckStep \/ FailoverCheckStep) /\ Proceeds
    /\ UNCHANGED <<walkVars, discoveryVars>>

LEMMA Unmoved ==
    ASSUME NEW c, UNCHANGED <<ran, check, results, log>>,
           c \in ran => UNCHANGED <<nameservers, delegation>>,
           check = c => UNCHANGED <<at, reply, local, nameservers, delegation>>,
           check = c /\ query # Nil => query' = query
    PROVE  Apart(c) \/ Steady(c)
BY DEF Apart, Steady, Of, LogOf

LEMMA Moves ==
    ASSUME ZoneType, ProbeZone \/ Deadline, NEW c \in Checks
    PROVE  Apart(c) \/ Starts(c) \/ Ends(c) \/ Steady(c) \/ Hears(c) \/ Acts(c)
<1> USE DEF walkVars, discoveryVars
<1>1. CASE UNCHANGED checkVars /\ discovery # "done"
  <2>1. ran = {} /\ check = Nil /\ check # c
    BY <1>1, ChecksAssumption DEF ZoneType, CheckType
  <2> QED
    BY <1>1, <2>1, Unmoved DEF checkVars
<1>2. CASE CheckStep /\ UNCHANGED <<walkVars, discoveryVars>>
  <2>1. ASSUME NEW d \in Checks, StartCheck(d) PROVE Apart(c) \/ Starts(c)
    <3>1. CASE d = c
      BY <1>2, <2>1, <3>1 DEF Starts
    <3>2. CASE d # c
      BY <1>2, <2>1, <3>2, ChecksAssumption DEF StartCheck, Apart, Of, LogOf
    <3> QED
      BY <3>1, <3>2
  <2>2. CASE AskServer \/ AskNext
    <3>1. query = Nil /\ UNCHANGED <<ran, check, at, reply, local, results, log>>
      BY <2>2 DEF AskServer, AskNext, Sends
    <3> QED
      BY <1>2, <3>1, Unmoved
  <2>3. CASE ExchangeWithRetry \/ OnlyTryFails
    <3>1. /\ query # Nil /\ reply = Nil
          /\ \/ \E r \in Answers[query.type] \cup Silences : Returns(r)
             \/ \E kind \in {"timeout", "error"} : TriesAgain(kind)
      BY <2>3, ExchangeEnds DEF ZoneType
    <3>2. ASSUME NEW r \in Answers[query.type] \cup Silences, Returns(r), check # c
          PROVE  Apart(c)
      <4>1. query.check = check
        BY <3>1, AskedByCheck DEF ZoneType
      <4>2. LogOf(c)' = LogOf(c)
        <5>1. log' \subseteq log \cup {[query |-> query, reply |-> r]} /\ log \subseteq log'
          BY <3>2 DEF Returns
        <5> QED
          BY <3>2, <4>1, <5>1 DEF LogOf
      <4> QED
        BY <1>2, <3>2, <4>2 DEF Returns, Apart, Of
    <3>3. ASSUME NEW kind \in {"timeout", "error"}, TriesAgain(kind)
          PROVE  Apart(c) \/ Steady(c)
      <4>1. UNCHANGED <<ran, check, at, query, reply, local, results, log>>
        BY <3>3 DEF TriesAgain
      <4> QED
        BY <1>2, <4>1, Unmoved
    <3> QED
      BY <1>2, <3>1, <3>2, <3>3 DEF Hears
  <2>4. CASE ServerCheckStep \/ FailoverCheckStep
    <3>1. Proceeds
      BY <1>2, <2>4, ServerCheckType, FailoverType DEF ZoneType
    <3>2. CASE check # c
      <4>1. PICK new, n, locals : NewFit(new) /\ Handled(new, n, locals)
        BY <3>1 DEF Proceeds
      <4>2. results' = results \o new /\ UNCHANGED <<ran, check, log>>
        BY <4>1 DEF Handled
      <4>3. Of(c)' = Of(c)
        BY <3>2, <4>1, <4>2, OfGrows DEF ZoneType, CheckType
      <4> QED
        BY <1>2, <3>2, <4>2, <4>3 DEF Apart, LogOf
    <3> QED
      BY <1>2, <2>4, <3>1, <3>2 DEF Acts
  <2>5. CASE EndCheck
    <3>1. CASE check # c
      BY <1>2, <2>5, <3>1, ChecksAssumption DEF EndCheck, Apart, Of, LogOf
    <3> QED
      BY <1>2, <2>5, <3>1 DEF Ends
  <2> QED
    BY <1>2, <2>1, <2>2, <2>3, <2>4, <2>5 DEF CheckStep
<1>3. CASE Deadline
  <2>1. UNCHANGED <<ran, check, at, query, reply, local, results, log, nameservers, delegation>>
    BY <1>3 DEF Deadline, Expire
  <2> QED
    BY <2>1, Unmoved
<1>4. CASE Walk \/ Discover
  <2>1. discovery # "done"
    BY <1>4 DEF ZoneType, Walk, WalkNext, WalkExchangeFails, WalkDelegates, WalkUnusable,
                WalkFollowsGlue, WalkStartsFallback, WalkFallbackFinds, WalkFallbackMisses,
                Discover, DiscoveryNext, DiscoveryStep, BeginDiscovery, TakeGlue,
                BeginAugmentation, TakeResolved, EndDiscovery, ResolutionFails, Resolves
  <2> QED
    BY <1>1, <1>4, <2>1 DEF Walk, Discover
<1> QED
  BY <1>2, <1>3, <1>4 DEF ProbeZone

LEMMA LogStep ==
    ASSUME ZoneType, LogInv, ProbeZone \/ Deadline
    PROVE  LogInv'
<1>1. ASSUME UNCHANGED log, ran \subseteq ran', reply' # Nil => UNCHANGED <<query, reply>>
      PROVE  LogInv'
  BY <1>1 DEF LogInv, Answered
<1>2. CASE UNCHANGED checkVars \/ Deadline
  BY <1>1, <1>2 DEF checkVars, Deadline, Expire
<1>3. CASE CheckStep /\ UNCHANGED <<walkVars, discoveryVars>>
  <2>1. ASSUME NEW d \in Checks, StartCheck(d) PROVE LogInv'
    BY <1>1, <2>1 DEF StartCheck
  <2>2. CASE AskServer \/ AskNext \/ EndCheck
    <3>1. query = Nil /\ reply = Nil
      BY <2>2 DEF AskServer, AskNext, EndCheck, ZoneType, CheckType, ExchangeType
    <3> QED
      BY <1>1, <2>2, <3>1 DEF AskServer, AskNext, Sends, EndCheck
  <2>3. CASE ExchangeWithRetry \/ OnlyTryFails
    <3>1. /\ query # Nil /\ reply = Nil
          /\ \/ \E r \in Answers[query.type] \cup Silences : Returns(r)
             \/ \E kind \in {"timeout", "error"} : TriesAgain(kind)
      BY <2>3, ExchangeEnds DEF ZoneType
    <3>2. ASSUME NEW r \in Answers[query.type] \cup Silences, Returns(r)
          PROVE  LogInv'
      <4>1. /\ query \in Questions /\ query.check \in ran /\ query.type \in QueryTypes
            /\ query.type \in TypesOf(query.check)
        BY <3>1, AskedByCheck DEF ZoneType, Questions
      <4>2. /\ reply' = r /\ query' = query /\ ran' = ran
            /\ log' = IF r.status = "ok" THEN log \cup {[query |-> query, reply |-> r]} ELSE log
        BY <3>2 DEF Returns
      <4>3. r.status = "ok" => r \in Answers[query.type]
        BY <3>2, <4>1, OnlyAnswersAreOk
      <4>4. \A e \in log' : /\ e.query \in Questions /\ e.query.check \in ran'
                            /\ e.query.type \in TypesOf(e.query.check)
                            /\ e.reply \in Answers[e.query.type]
        BY <4>1, <4>2, <4>3 DEF LogInv
      <4>5. reply'.status = "ok" => [query |-> query', reply |-> reply'] \in log'
        BY <4>2
      <4> QED
        BY <4>4, <4>5 DEF LogInv, Answered
    <3> QED
      BY <1>1, <3>1, <3>2 DEF TriesAgain
  <2>4. CASE ServerCheckStep \/ FailoverCheckStep
    <3>1. Proceeds
      BY <1>3, <2>4, ServerCheckType, FailoverType DEF ZoneType
    <3>2. reply' = Nil /\ UNCHANGED <<ran, log>>
      BY <3>1 DEF Proceeds, Handled
    <3> QED
      BY <1>1, <3>2
  <2> QED
    BY <1>3, <2>1, <2>2, <2>3, <2>4 DEF CheckStep
<1> QED
  BY <1>2, <1>3 DEF ProbeZone, Walk, Discover

\* Each check has steps of its own.
LEMMA OwnSteps ==
    ASSUME CheckType, check # Nil, ServerCheckStep \/ FailoverCheckStep
    PROVE  /\ check = "soa" => SOAFails \/ SOARecord
           /\ check = "recursion" => Recursion
           /\ check = "ns_hostname" => NSHostname
           /\ check = "glue" => Glue
           /\ check = "ns_classification" => NSClassification
           /\ check = "mx" => MXFails \/ MXAnswer \/ MXTarget
           /\ check = "email_auth" => TXTFails \/ SPFRecords \/ NoSPF \/ DMARCRecords
<1>1. Classify \/ ResolveStealth => check = "ns_classification"
  <2>1. check \in Checks /\ local.stage \in StagesOf(check)
    BY DEF CheckType, LocalFits
  <2>2. Classify \/ ResolveStealth => local.stage = "classify"
    BY DEF Classify, ResolveStealth
  <2> QED
    BY <2>1, <2>2 DEF StagesOf, Checks
<1>2. /\ SOAFails \/ SOARecord => check = "soa"
      /\ Recursion => check = "recursion"
      /\ NSHostname => check = "ns_hostname"
      /\ Glue => check = "glue"
  BY DEF SOAFails, SOARecord, Recursion, NSHostname, HostnameKnown, LookupCNAME, CNAMEReply,
         HostnameTurn, Glue, GlueParent, SelfFails, SelfNames, SelfAddresses, SelfView, Replied
<1>3. NSClassification => check = "ns_classification"
  BY <1>1 DEF NSClassification, SkipAskedBefore, SelfSet, UnionSorted, StealthReply, Replied
<1>4. /\ MXFails \/ MXAnswer \/ MXTarget => check = "mx"
      /\ TXTFails \/ SPFRecords \/ NoSPF \/ DMARCRecords => check = "email_auth"
  BY DEF MXFails, MXAnswer, MXTarget, TXTFails, SPFRecords, NoSPF, DMARCRecords, Replied
<1> QED
  BY <1>2, <1>3, <1>4 DEF ServerCheckStep, FailoverCheckStep

\* What is appended to a list is determined by the longer list.
LEMMA Cancels ==
    ASSUME NEW U, NEW V, NEW s \in Seq(U), NEW t \in Seq(U), NEW u \in Seq(V), s \o t = s \o u
    PROVE  t = u
<1> DEFINE st == s \o t
           su == s \o u
<1>1. /\ Len(st) = Len(s) + Len(t)
      /\ \A k \in 1..Len(t) : st[Len(s) + k] = t[k]
  OBVIOUS
<1>2. /\ Len(su) = Len(s) + Len(u)
      /\ \A k \in 1..Len(u) : su[Len(s) + k] = u[k]
  OBVIOUS
<1>3. st = su /\ Len(s) \in Nat /\ Len(t) \in Nat /\ Len(u) \in Nat
  OBVIOUS
<1> HIDE DEF st, su
<1>4. Len(t) = Len(u) /\ \A k \in 1..Len(t) : t[k] = u[k]
  BY <1>1, <1>2, <1>3
<1> QED
  BY <1>4

\* What a step of a check appends to its results, and where it goes on.
LEMMA ActsAppend ==
    ASSUME ZoneType, NEW c, Acts(c), NEW V, NEW new \in Seq(V), NEW n, NEW locals,
           Handled(new, n, locals)
    PROVE  /\ Of(c)' = Of(c) \o new /\ at' = n /\ local' = locals /\ NewFit(new)
           /\ LocalFits(locals, n) /\ query' = Nil /\ reply' = Nil
           /\ UNCHANGED <<ran, check, log, nameservers, delegation>>
<1>1. PICK more, m, l : NewFit(more) /\ LocalFits(l, m) /\ Handled(more, m, l)
  BY DEF Acts, Proceeds
<1>2. /\ results' = results \o new /\ results' = results \o more
      /\ at' = n /\ at' = m /\ local' = locals /\ local' = l
      /\ query' = Nil /\ reply' = Nil /\ UNCHANGED <<ran, check, log>>
  BY <1>1 DEF Handled
<1>3. results \in Seq(ProbeResult) /\ more \in Seq(ProbeResult)
  BY <1>1 DEF ZoneType, CheckType, NewFit
<1>4. new = more
  <2>1. \A t \in Seq(ProbeResult) : \A u \in Seq(V) :
           results \o t = results \o u => t = u
    BY <1>3, Cancels
  <2>2. results \o more = results \o new
    BY <1>2
  <2> QED
    BY <1>3, <2>1, <2>2
<1>5. Of(c)' = Of(c) \o new
  BY <1>1, <1>2, <1>3, <1>4, OfGrows DEF Acts
<1> QED
  BY <1>1, <1>2, <1>4, <1>5 DEF Acts, walkVars, discoveryVars

\* One result, or none.
LEMMA ActsAppendOne ==
    ASSUME ZoneType, NEW c, Acts(c), NEW r, NEW n, NEW locals, Handled(<<r>>, n, locals)
    PROVE  /\ Of(c)' = Append(Of(c), r) /\ at' = n /\ local' = locals /\ NewFit(<<r>>)
           /\ LocalFits(locals, n) /\ query' = Nil /\ reply' = Nil
           /\ UNCHANGED <<ran, check, log, nameservers, delegation>>
<1> DEFINE new == <<r>>
<1>1. new \in Seq({r})
  OBVIOUS
<1>2. Handled(new, n, locals)
  OBVIOUS
<1> HIDE DEF new
<1>3. /\ Of(c)' = Of(c) \o new /\ at' = n /\ local' = locals /\ NewFit(new)
      /\ LocalFits(locals, n) /\ query' = Nil /\ reply' = Nil
      /\ UNCHANGED <<ran, check, log, nameservers, delegation>>
  BY <1>1, <1>2, ActsAppend
<1>4. Of(c) \in Seq(ProbeResult) /\ r \in ProbeResult
  <2>1. Of(c) \in Seq(ProbeResult)
    BY OfCheck DEF ZoneType
  <2>2. new[1] \in ProbeResult
    BY <1>3 DEF NewFit, new
  <2> QED
    BY <2>1, <2>2 DEF new
<1>5. Of(c) \o <<r>> = Append(Of(c), r)
  BY <1>4
<1> QED
  BY <1>3, <1>5 DEF new

LEMMA ActsAppendNone ==
    ASSUME ZoneType, NEW c, Acts(c), NEW n, NEW locals, Handled(<<>>, n, locals)
    PROVE  /\ Of(c)' = Of(c) /\ at' = n /\ local' = locals
           /\ LocalFits(locals, n) /\ query' = Nil /\ reply' = Nil
           /\ UNCHANGED <<ran, check, log, nameservers, delegation>>
<1> DEFINE new == <<>>
<1>1. new \in Seq({}) /\ Handled(new, n, locals)
  OBVIOUS
<1> HIDE DEF new
<1>2. /\ Of(c)' = Of(c) \o new /\ at' = n /\ local' = locals
      /\ LocalFits(locals, n) /\ query' = Nil /\ reply' = Nil
      /\ UNCHANGED <<ran, check, log, nameservers, delegation>>
  BY <1>1, ActsAppend
<1>3. Of(c) \in Seq(ProbeResult)
  BY OfCheck DEF ZoneType
<1>4. Of(c) \o <<>> = Of(c)
  BY <1>3
<1> QED
  BY <1>2, <1>4 DEF new
-----------------------------------------------------------------------------
(* The checks that take the nameservers in turn and give each a result.    *)

Turned == {"soa", "recursion", "ns_hostname"}

\* What the result of a turn says.
Gives(c, r) ==
    /\ at \in 1..Len(nameservers) /\ r.host = Current.host /\ r.ip = Current.ip
    /\ c = "soa" => reply # Nil /\ (r.ok <=> reply.rrs # <<>>)
    /\ c = "recursion" => reply # Nil /\ (r.ok <=> Answered)

TurnOver(c) ==
    \E r : Gives(c, r) /\ Of(c)' = Append(Of(c), r) /\ at' = at + 1

LEMMA TurnStep ==
    ASSUME ZoneType, NEW c \in Turned, Acts(c)
    PROVE  TurnOver(c) \/ (c = "ns_hostname" /\ Of(c)' = Of(c) /\ at' = at)
<1>1. c \in Checks /\ check = c /\ c # Nil
  BY ChecksAssumption DEF Turned, Checks, Acts
<1>2. LocalFits(local, at) /\ DiscoveryInv /\ CheckType
  BY <1>1 DEF ZoneType, CheckType
<1>3. /\ c = "soa" => SOAFails \/ SOARecord
      /\ c = "recursion" => Recursion
      /\ c = "ns_hostname" => NSHostname
  BY <1>1, <1>2, OwnSteps DEF Acts
<1>4. ASSUME NEW r, Gives(c, r), NEW locals, Handled(<<r>>, at + 1, locals)
      PROVE  TurnOver(c)
  BY <1>4, ActsAppendOne DEF TurnOver
<1>5. c \in {"soa", "recursion"} /\ reply # Nil => at \in 1..Len(nameservers)
  <2>1. c \in {"soa", "recursion"} => local.stage = "servers"
    BY <1>1, <1>2 DEF LocalFits, StagesOf
  <2> QED
    BY <1>2, <2>1, TurnFits
<1>6. CASE c = "soa" /\ SOAFails
  <2> DEFINE r == FailedResult(Current)
  <2>1. Handled(<<r>>, at + 1, local) /\ reply # Nil /\ reply.rrs = <<>>
    BY <1>6 DEF SOAFails, Replied
  <2>2. Gives(c, r)
    BY <1>5, <1>6, <2>1 DEF Gives, FailedResult, Result
  <2> HIDE DEF r
  <2> QED
    BY <1>4, <2>1, <2>2
<1>7. CASE c = "soa" /\ SOARecord
  <2>1. reply # Nil /\ reply.rrs # <<>>
    BY <1>7 DEF SOARecord, Replied
  <2> DEFINE mname == Head(reply.rrs)
             r(v) == [Result(Current.host, Current.ip, TRUE, FALSE) EXCEPT
                        !.labels = [mname |-> mname],
                        !.metrics = [soa_mname |-> 1,
                           soa_mname_in_ns_set |-> OneIf(mname \in ParentHosts),
                           soa_mname_resolves |-> OneIf(v = "yes")]]
  <2>2. PICK v : Handled(<<r(v)>>, at + 1, [local EXCEPT !.cache[mname] = v])
    BY <1>7 DEF SOARecord
  <2>3. Gives(c, r(v))
    BY <1>5, <1>7, <2>1 DEF Gives, Result
  <2> HIDE DEF r
  <2> QED
    BY <1>4, <2>2, <2>3
<1>8. CASE c = "recursion"
  <2> DEFINE r == IF Answered
                  THEN [Result(Current.host, Current.ip, TRUE, FALSE) EXCEPT
                          !.metrics = [ns_recursion_available |-> OneIf(reply.ra)]]
                  ELSE FailedResult(Current)
  <2>1. Handled(<<r>>, at + 1, local) /\ reply # Nil
    BY <1>3, <1>8 DEF Recursion, Replied
  <2>2. Gives(c, r)
    BY <1>5, <1>8, <2>1 DEF Gives, FailedResult, Result
  <2> HIDE DEF r
  <2> QED
    BY <1>4, <2>1, <2>2
<1>9. CASE c = "ns_hostname"
  <2>1. ASSUME NEW yes, HostnameResult(yes), at \in 1..Len(nameservers) PROVE TurnOver(c)
    <3> DEFINE r == [Result(Current.host, Current.ip, TRUE, FALSE) EXCEPT
                       !.metrics = [ns_hostname_is_cname |-> OneIf(yes = "yes"),
                          ns_hostname_syntax_valid |-> OneIf(Current.host \in ValidNames)]]
               l == [local EXCEPT !.stage = "servers", !.todo = <<>>, !.hop = 0,
                                  !.cache[Current.host] = yes]
    <3>1. Handled(<<r>>, at + 1, l)
      BY <2>1 DEF HostnameResult
    <3>2. Gives(c, r)
      BY <1>9, <2>1 DEF Gives, Result
    <3> HIDE DEF r, l
    <3> QED
      BY <1>4, <3>1, <3>2
  <2>2. ASSUME NEW l, Handled(<<>>, at, l) PROVE Of(c)' = Of(c) /\ at' = at
    BY <2>2, ActsAppendNone
  <2>3. at \in 1..(Len(nameservers) + 1) /\ Len(nameservers) \in Nat
    BY <1>2 DEF LocalFits, DiscoveryInv, DiscoveryType
  <2>4. CASE HostnameKnown
    BY <2>1, <2>3, <2>4 DEF HostnameKnown, HostnameTurn
  <2>5. CASE LookupCNAME
    BY <1>9, <2>2, <2>5 DEF LookupCNAME
  <2>6. CASE CNAMEReply
    <3>1. at \in 1..Len(nameservers)
      <4>1. reply # Nil /\ query.type = "CNAME"
        BY <2>6 DEF CNAMEReply, Replied
      <4>2. local.stage = "cname"
        BY <1>2, <4>1, StageOfReply
      <4> QED
        BY <1>2, <2>3, <4>2 DEF LocalFits
    <3>2. (\E yes : HostnameResult(yes)) \/ \E l : Handled(<<>>, at, l)
      BY <2>6 DEF CNAMEReply
    <3> QED
      BY <1>9, <2>1, <2>2, <3>1, <3>2
  <2> QED
    BY <1>3, <1>9, <2>4, <2>5, <2>6 DEF NSHostname
<1> QED
  BY <1>3, <1>6, <1>7, <1>8, <1>9 DEF Turned

\* How many nameservers a check has been through.
Through(c) ==
    IF check = c THEN at - 1 ELSE IF c \in ran THEN Len(nameservers) ELSE 0

\* The nameserver has answered the check.
Told(c, ns) == \E e \in LogOf(c) : e.query.ns = ns /\ (c = "soa" => e.reply.rrs # <<>>)

\* A nameserver is told from the others by its place, and only the one whose
\* turn it is may have answered before it has its result.
TurnsInv(c) ==
    /\ Len(Of(c)) = Through(c)
    /\ \A k \in 1..Through(c) :
          /\ Of(c)[k].host = nameservers[k].host /\ Of(c)[k].ip = nameservers[k].ip
          /\ c # "ns_hostname" => (Of(c)[k].ok <=> Told(c, nameservers[k]))
    /\ (check = c /\ c # "ns_hostname") =>
          \A e \in LogOf(c) : \A k \in at..Len(nameservers) : e.query.ns = nameservers[k] =>
             k = at /\ reply # Nil /\ e = [query |-> query, reply |-> reply]

LEMMA NotRun ==
    ASSUME ZoneType, LogInv, NEW c, c \notin ran
    PROVE  Of(c) = <<>> /\ LogOf(c) = {}
BY OfCheck DEF ZoneType, LogInv, LogOf

LEMMA NoTurns ==
    ASSUME NEW c, Of(c)' = <<>>, check' # c, c \notin ran'
    PROVE  TurnsInv(c)'
BY DEF TurnsInv, Through

\* A step that leaves what the invariant mentions.
LEMMA TurnsKept ==
    ASSUME NEW c, TurnsInv(c), Of(c)' = Of(c), LogOf(c)' = LogOf(c),
           UNCHANGED nameservers, Through(c)' = Through(c),
           check' = c => UNCHANGED <<check, at, reply>> /\ (reply # Nil => query' = query)
    PROVE  TurnsInv(c)'
BY DEF TurnsInv, Told

LEMMA TurnsStep ==
    ASSUME ZoneType, LogInv, NEW c \in Turned, TurnsInv(c), ProbeZone \/ Deadline
    PROVE  TurnsInv(c)'
<1>1. c \in Checks /\ c # Nil
  BY ChecksAssumption DEF Turned, Checks
<1>2. nameservers \in Seq(Server) /\ Len(nameservers) \in Nat /\ NameserversAreDistinct
  BY DEF ZoneType, DiscoveryInv, DiscoveryType
<1>3. check = c => at \in 1..(Len(nameservers) + 1) /\ local.stage \in StagesOf(c)
  BY <1>1 DEF ZoneType, CheckType, LocalFits
<1>4. CASE Apart(c)
  <2>1. CASE c \in ran
    BY <1>4, <2>1, TurnsKept DEF Apart, Through
  <2>2. CASE c \notin ran
    BY <1>4, <2>2, NotRun, NoTurns DEF Apart
  <2> QED
    BY <2>1, <2>2
<1>5. CASE Starts(c)
  <2>1. /\ Of(c)' = <<>> /\ LogOf(c)' = {} /\ check' = c /\ at' = 1
        /\ UNCHANGED <<nameservers, delegation>>
    BY <1>5, NotRun DEF Starts, StartCheck, Of, LogOf, walkVars, discoveryVars
  <2> QED
    BY <2>1 DEF TurnsInv, Through
<1>6. CASE Ends(c)
  <2>1. /\ check' # c /\ c \in ran' /\ Of(c)' = Of(c) /\ LogOf(c)' = LogOf(c)
        /\ UNCHANGED nameservers /\ at > Len(nameservers) /\ check = c
    BY <1>1, <1>6 DEF Ends, EndCheck, Of, LogOf, walkVars, discoveryVars, ZoneType, CheckType
  <2>2. Through(c)' = Through(c)
    BY <1>2, <1>3, <2>1 DEF Through
  <2> QED
    BY <2>1, <2>2, TurnsKept
<1>7. CASE Steady(c)
  <2>1. reply # Nil => query # Nil
    BY DEF ZoneType, CheckType, ExchangeType
  <2> QED
    BY <1>7, <2>1, TurnsKept DEF Steady, Through, Of, LogOf
<1>8. CASE Hears(c)
  <2>1. PICK r \in Answers[query.type] \cup Silences : Returns(r)
    BY <1>8 DEF Hears
  <2>0. r # Nil
    <3>1. query.type \in QueryTypes
      BY <1>8, AskedByCheck DEF Hears, ZoneType, Questions
    <3> QED
      BY <2>1, <3>1, OnlyAnswersAreOk
  <2>2. /\ check = c /\ reply = Nil /\ reply' = r /\ r # Nil /\ query' = query
        /\ log' = IF r.status = "ok" THEN log \cup {[query |-> query, reply |-> r]} ELSE log
        /\ UNCHANGED <<ran, check, at, results, nameservers>>
    BY <1>8, <2>0, <2>1 DEF Hears, Returns, discoveryVars
  <2>3. Of(c)' = Of(c) /\ Through(c)' = Through(c)
    BY <2>2 DEF Of, Through
  <2>4. CASE c = "ns_hostname"
    BY <2>2, <2>3, <2>4 DEF TurnsInv
  <2>5. CASE c # "ns_hostname"
    <3>1. query.ns = nameservers[at] /\ at \in 1..Len(nameservers)
      <4>1. local.stage = "servers"
        BY <1>3, <2>2, <2>5 DEF Turned, StagesOf
      <4>2. QueryFits
        BY <1>8 DEF Hears, ZoneType, CheckType, ExchangeType
      <4> QED
        BY <1>2, <1>3, <2>2, <4>1, <4>2 DEF QueryFits, Question, Current
    <3>2. LogOf(c)' \subseteq LogOf(c) \cup {[query |-> query, reply |-> r]}
          /\ LogOf(c) \subseteq LogOf(c)'
      BY <2>2 DEF LogOf
    <3>3. ASSUME NEW k \in 1..Through(c)
          PROVE  Told(c, nameservers[k])' <=> Told(c, nameservers[k])
      <4>1. nameservers[k] # nameservers[at]
        BY <1>2, <2>2, <3>1, <3>3 DEF Through, NameserversAreDistinct
      <4> QED
        BY <2>2, <3>1, <3>2, <4>1 DEF Told
    <3>4. ASSUME NEW e \in LogOf(c)', NEW k \in at..Len(nameservers), e.query.ns = nameservers[k]
          PROVE  k = at /\ e = [query |-> query, reply |-> r]
      <4>1. e \notin LogOf(c)
        BY <2>2, <2>5, <3>4 DEF TurnsInv
      <4>2. e = [query |-> query, reply |-> r]
        BY <3>2, <4>1
      <4>3. nameservers[k] = nameservers[at] /\ k \in DOMAIN nameservers
        BY <1>2, <3>1, <3>4, <4>2
      <4> QED
        BY <1>2, <3>1, <4>2, <4>3 DEF NameserversAreDistinct
    <3> QED
      BY <2>2, <2>3, <3>3, <3>4 DEF TurnsInv
  <2> QED
    BY <2>4, <2>5
<1>9. CASE Acts(c)
  <2>1. check = c /\ UNCHANGED <<ran, check, log, nameservers>>
    BY <1>9 DEF Acts, Proceeds, Handled, discoveryVars
  <2>2. LogOf(c)' = LogOf(c)
    BY <2>1 DEF LogOf
  <2>3. CASE c = "ns_hostname" /\ Of(c)' = Of(c) /\ at' = at
    BY <2>1, <2>2, <2>3 DEF TurnsInv, Through
  <2>4. CASE TurnOver(c)
    <3>1. PICK r : Gives(c, r) /\ Of(c)' = Append(Of(c), r) /\ at' = at + 1
      BY <2>4 DEF TurnOver
    <3>2. at \in 1..Len(nameservers) /\ Through(c) = at - 1 /\ Through(c)' = at
      BY <1>2, <2>1, <3>1 DEF Gives, Through
    <3>3. Of(c) \in Seq(ProbeResult) /\ Len(Of(c)) = at - 1
      BY <3>2, OfCheck DEF ZoneType, TurnsInv
    <3>4. /\ Len(Of(c)') = at /\ Of(c)'[at] = r
          /\ \A k \in 1..(at - 1) : Of(c)'[k] = Of(c)[k]
      BY <3>1, <3>2, <3>3
    <3>5. r.host = nameservers[at].host /\ r.ip = nameservers[at].ip
      BY <3>1 DEF Gives, Current
    <3>6. c # "ns_hostname" => (r.ok <=> Told(c, nameservers[at]))
      <4> SUFFICES ASSUME c # "ns_hostname" PROVE r.ok <=> Told(c, nameservers[at])
        OBVIOUS
      <4>1. /\ reply # Nil
            /\ c = "soa" => (r.ok <=> reply.rrs # <<>>)
            /\ c = "recursion" => (r.ok <=> Answered)
        BY <3>1 DEF Gives, Turned
      <4>2. local.stage = "servers" /\ c \in {"soa", "recursion"}
        BY <1>3, <2>1 DEF Turned, StagesOf
      <4>3. CheckType /\ DiscoveryInv /\ ExchangeType
        BY DEF ZoneType, CheckType
      <4>4. query # Nil /\ query.check = c /\ query.type \in QueryTypes
            /\ query.ns = nameservers[at]
        <5>1. query # Nil
          BY <4>1, <4>2, <4>3 DEF ExchangeType
        <5>2. query.check = c /\ query \in Questions
          BY <2>1, <4>3, <5>1, AskedByCheck
        <5>3. query = Question(QueryType, Name, Current)
          BY <4>1, <4>2, <4>3, TurnFits
        <5> QED
          BY <5>1, <5>2, <5>3 DEF Question, Current, Questions
      <4>5. /\ reply.rrs # <<>> => Answered
            /\ Answered => [query |-> query, reply |-> reply] \in LogOf(c)
        <5>1. reply \in Answers[query.type] \cup Silences
          BY <4>1, <4>2, <4>3 DEF ExchangeType, ReplyFits
        <5> QED
          BY <4>1, <4>2, <4>4, <5>1, OnlyAnswersAreOk DEF Answered, LogInv, LogOf
      <4>6. ASSUME NEW e \in LogOf(c), e.query.ns = nameservers[at]
            PROVE  e.reply = reply /\ Answered
        <5>1. e = [query |-> query, reply |-> reply]
          BY <2>1, <3>2, <4>6 DEF TurnsInv
        <5>2. e.query \in Questions /\ e.reply \in Answers[e.query.type]
          BY <4>6 DEF LogInv, LogOf
        <5>3. e.reply.status = "ok"
          BY <5>2, OnlyAnswersAreOk DEF Questions
        <5> QED
          BY <5>1, <5>3 DEF Answered
      <4> QED
        <5>1. Answered => \E e \in LogOf(c) : e.query.ns = nameservers[at] /\ e.reply = reply
          BY <4>4, <4>5
        <5> QED
          BY <4>1, <4>2, <4>5, <4>6, <5>1 DEF Told
    <3>7. \A ns : Told(c, ns)' <=> Told(c, ns)
      BY <2>2 DEF Told
    <3>8. ASSUME NEW k \in 1..at
          PROVE  /\ Of(c)'[k].host = nameservers[k].host /\ Of(c)'[k].ip = nameservers[k].ip
                 /\ c # "ns_hostname" => (Of(c)'[k].ok <=> Told(c, nameservers[k]))
      BY <3>2, <3>4, <3>5, <3>6 DEF TurnsInv
    <3>9. ASSUME c # "ns_hostname", NEW e \in LogOf(c), NEW k \in (at + 1)..Len(nameservers)
          PROVE  e.query.ns # nameservers[k]
      BY <2>1, <3>2, <3>9 DEF TurnsInv
    <3> QED
      BY <1>2, <2>1, <2>2, <3>1, <3>2, <3>4, <3>7, <3>8, <3>9 DEF TurnsInv
  <2> QED
    BY <2>3, <2>4, <1>9, TurnStep
<1> QED
  BY <1>1, <1>4, <1>5, <1>6, <1>7, <1>8, <1>9, Moves

\* A check that has run is no longer running.
LEMMA RanToTheEnd ==
    ASSUME ZoneType, NEW c, Ran(c)
    PROVE  c \in ran /\ check = Nil
<1>1. c \in ran /\ discovery = "done" /\ nameservers # <<>>
  BY DEF Ran, ZoneType, CheckType
<1>2. walk = "delegated"
  BY <1>1 DEF ZoneType
<1> QED
  BY <1>1, <1>2 DEF Ran, Finished

LEMMA VerdictsOfTurns ==
    ASSUME ZoneType, LogInv, \A c \in Turned : TurnsInv(c)
    PROVE  EveryNameserverHasItsVerdict
<1> SUFFICES ASSUME NEW c \in Turned, Ran(c)
             PROVE  /\ [k \in DOMAIN Of(c) |-> [host |-> Of(c)[k].host, ip |-> Of(c)[k].ip]]
                          = nameservers
                    /\ c # "ns_hostname" =>
                         \A k \in DOMAIN Of(c) :
                            Of(c)[k].ok <=>
                              \E e \in Heard(c, "SOA", nameservers[k]) :
                                 c = "soa" => e.reply.rrs # <<>>
  BY Zenon DEF EveryNameserverHasItsVerdict, Turned
<1>1. c \in Checks /\ check = Nil /\ c # Nil /\ c \in ran
  BY RanToTheEnd, ChecksAssumption DEF Turned, Checks
<1>2. nameservers \in Seq(Server) /\ Of(c) \in Seq(ProbeResult)
  BY OfCheck DEF ZoneType, DiscoveryInv, DiscoveryType
<1>3. /\ Len(Of(c)) = Len(nameservers)
      /\ \A k \in 1..Len(nameservers) :
            /\ Of(c)[k].host = nameservers[k].host /\ Of(c)[k].ip = nameservers[k].ip
            /\ c # "ns_hostname" => (Of(c)[k].ok <=> Told(c, nameservers[k]))
  BY <1>1 DEF TurnsInv, Through
<1>4. [k \in DOMAIN Of(c) |-> [host |-> Of(c)[k].host, ip |-> Of(c)[k].ip]] = nameservers
  <2>1. DOMAIN Of(c) = 1..Len(nameservers)
    BY <1>2, <1>3
  <2>2. ASSUME NEW k \in 1..Len(nameservers)
        PROVE  [host |-> Of(c)[k].host, ip |-> Of(c)[k].ip] = nameservers[k]
    <3>1. nameservers[k] \in Server
      BY <1>2
    <3>2. nameservers[k] = [host |-> nameservers[k].host, ip |-> nameservers[k].ip]
      BY <3>1 DEF Server
    <3> QED
      BY <1>3, <3>2
  <2>3. nameservers = [k \in 1..Len(nameservers) |-> nameservers[k]]
    BY <1>2
  <2> QED
    BY <2>1, <2>2, <2>3
<1>5. c # "ns_hostname" => \A ns : Told(c, ns) <=>
         \E e \in Heard(c, "SOA", ns) : c = "soa" => e.reply.rrs # <<>>
  BY DEF Told, Heard, LogOf, LogInv, TypesOf, Turned
<1>6. DOMAIN Of(c) = 1..Len(nameservers)
  BY <1>2, <1>3
<1> QED
  BY <1>3, <1>4, <1>5, <1>6

-----------------------------------------------------------------------------
(* What is looked up once.  The cache of a check is gone when it ends; that *)
(* there is one that all its results agree with stays.                     *)

\* What a reply holds.
LEMMA ReplyRead ==
    ASSUME CheckType, reply # Nil
    PROVE  /\ query # Nil /\ query.type \in QueryTypes
           /\ reply.rrs \in Seq(Records[query.type])
<1>1. query # Nil /\ query \in Questions /\ ReplyFits
  BY DEF CheckType, ExchangeType
<1>2. query.type \in QueryTypes
  BY <1>1 DEF Questions
<1>3. CASE reply \in Answers[query.type]
  <2>1. reply \in Replies(query.type)
    BY <1>2, <1>3, ChecksAssumption
  <2> QED
    BY <1>1, <1>2, <2>1 DEF Replies
<1>4. CASE reply \in Silences
  <2>1. reply.rrs = <<>>
    BY <1>4, OnlyAnswersAreOk
  <2> QED
    BY <1>1, <1>2, <2>1
<1> QED
  BY <1>1, <1>3, <1>4 DEF ReplyFits

SOAMetrics(mname, v) ==
    [soa_mname |-> 1, soa_mname_in_ns_set |-> OneIf(mname \in ParentHosts),
     soa_mname_resolves |-> OneIf(v = "yes")]

SOASays(r, v) ==
    \E mname \in Hosts : /\ r.labels = [mname |-> mname] /\ v[mname] # "unknown"
                         /\ r.metrics = SOAMetrics(mname, v[mname])

SOAAgrees(v) ==
    /\ v \in Caches
    /\ check = "soa" => v = local.cache
    /\ \A k \in 1..Len(Of("soa")) : Of("soa")[k].ok => SOASays(Of("soa")[k], v)

SOAInv == \E v : SOAAgrees(v)

\* One more result from a cache that has grown.
LEMMA SOAOneMore ==
    ASSUME CheckType, NEW v, SOAAgrees(v), NEW w \in Caches,
           \A h \in Hosts : v[h] # "unknown" => w[h] = v[h],
           check' = "soa" => w = local'.cache,
           UNCHANGED delegation,
           NEW r, Of("soa")' = Append(Of("soa"), r), r.ok => SOASays(r, w)
    PROVE  SOAInv'
<1> DEFINE mine == Of("soa")
           more == Append(mine, r)
<1>1. mine \in Seq(ProbeResult) /\ Len(mine) \in Nat
  BY OfCheck
<1>2. /\ Len(more) = Len(mine) + 1 /\ more[Len(mine) + 1] = r
      /\ \A k \in 1..Len(mine) : more[k] = mine[k]
  BY <1>1
<1>3. ASSUME NEW q, SOASays(q, v) PROVE SOASays(q, w)
  BY <1>3 DEF SOASays
<1> HIDE DEF mine, more
<1>4. ASSUME NEW k \in 1..Len(more), more[k].ok PROVE SOASays(more[k], w)
  <2>1. CASE k \in 1..Len(mine)
    BY <1>2, <1>3, <1>4, <2>1 DEF SOAAgrees, mine
  <2>2. CASE k = Len(mine) + 1
    BY <1>2, <1>4, <2>2
  <2> QED
    BY <1>1, <1>2, <1>4, <2>1, <2>2
<1>5. \A q : SOASays(q, w) => SOASays(q, w)'
  BY DEF SOASays, SOAMetrics, ParentHosts
<1>6. Of("soa")' = more
  BY DEF more, mine
<1>7. SOAAgrees(w)'
  BY <1>4, <1>5, <1>6 DEF SOAAgrees
<1> QED
  BY <1>7 DEF SOAInv

LEMMA SOAKept ==
    ASSUME NEW v, SOAAgrees(v), Of("soa")' = Of("soa"), UNCHANGED delegation,
           check' = "soa" => UNCHANGED <<check, local>>
    PROVE  SOAInv'
<1>1. SOAAgrees(v)'
  BY DEF SOAAgrees, SOASays, SOAMetrics, ParentHosts
<1> QED
  BY <1>1 DEF SOAInv

LEMMA NoSOA ==
    ASSUME Of("soa")' = <<>>, check' = "soa" => local'.cache \in Caches
    PROVE  SOAInv'
<1>1. PICK v \in Caches : check' = "soa" => v = local'.cache
  <2>1. [h \in Hosts |-> "unknown"] \in Caches
    BY DEF Caches
  <2> QED
    BY <2>1
<1>2. 1..Len(Of("soa")') = {}
  OBVIOUS
<1>3. SOAAgrees(v)'
  BY <1>1, <1>2 DEF SOAAgrees
<1> QED
  BY <1>3 DEF SOAInv

LEMMA SOAStep ==
    ASSUME ZoneType, LogInv, SOAInv, ProbeZone \/ Deadline
    PROVE  SOAInv'
<1>1. PICK v : SOAAgrees(v)
  BY DEF SOAInv
<1>2. "soa" \in Checks /\ CheckType
  BY DEF Checks, ZoneType
<1>3. CASE Apart("soa")
  <2>1. Of("soa")' = Of("soa") /\ check' # "soa"
    BY <1>3 DEF Apart
  <2>2. CASE "soa" \in ran
    BY <1>1, <1>3, <2>1, <2>2, SOAKept DEF Apart
  <2>3. CASE "soa" \notin ran
    BY <2>1, <2>3, NotRun, NoSOA
  <2> QED
    BY <2>2, <2>3
<1>4. CASE Starts("soa")
  <2>1. /\ "soa" \notin ran /\ Of("soa")' = Of("soa")
        /\ local' = IF "soa" = "glue" THEN [Locals EXCEPT !.stage = "start"] ELSE Locals
    BY <1>4 DEF Starts, StartCheck, Of
  <2>2. local'.cache \in Caches
    BY <2>1 DEF Locals, Caches
  <2> QED
    BY <2>1, <2>2, NotRun, NoSOA
<1>5. CASE Ends("soa") \/ Steady("soa") \/ Hears("soa")
  <2>1. /\ Of("soa")' = Of("soa") /\ UNCHANGED delegation
        /\ check' = "soa" => UNCHANGED <<check, local>>
    BY <1>2, <1>5, ChecksAssumption
       DEF Ends, EndCheck, Steady, Hears, Returns, Of, walkVars, discoveryVars
  <2> QED
    BY <1>1, <2>1, SOAKept
<1>6. CASE Acts("soa")
  <2>1. check = "soa" /\ v = local.cache /\ v \in Caches
    BY <1>1, <1>6 DEF Acts, SOAAgrees
  <2>2. (SOAFails \/ SOARecord) /\ check # Nil
    BY <1>2, <1>6, <2>1, OwnSteps, ChecksAssumption DEF Acts
  <2>3. CASE SOAFails
    <3> DEFINE r == FailedResult(Current)
    <3>1. Handled(<<r>>, at + 1, local) /\ ~r.ok
      BY <2>3 DEF SOAFails, FailedResult, Result
    <3> HIDE DEF r
    <3>2. Of("soa")' = Append(Of("soa"), r) /\ local' = local /\ UNCHANGED delegation
      BY <1>6, <3>1, ActsAppendOne
    <3> QED
      BY <1>1, <1>2, <2>1, <3>1, <3>2, SOAOneMore
  <2>4. CASE SOARecord
    <3> DEFINE mname == Head(reply.rrs)
               r(w) == [Result(Current.host, Current.ip, TRUE, FALSE) EXCEPT
                          !.labels = [mname |-> mname],
                          !.metrics = [soa_mname |-> 1,
                             soa_mname_in_ns_set |-> OneIf(mname \in ParentHosts),
                             soa_mname_resolves |-> OneIf(w = "yes")]]
    <3>1. mname \in Hosts
      <4>1. reply # Nil /\ query.type = "SOA" /\ reply.rrs # <<>>
        BY <2>4 DEF SOARecord, Replied
      <4>2. reply.rrs \in Seq(Hosts)
        BY <1>2, <4>1, ReplyRead DEF Records
      <4> QED
        BY <4>1, <4>2
    <3>2. PICK w \in Verdicts(mname) :
             Handled(<<r(w)>>, at + 1, [local EXCEPT !.cache[mname] = w])
      BY <2>4 DEF SOARecord
    <3> DEFINE l == [local EXCEPT !.cache[mname] = w]
               cache == [v EXCEPT ![mname] = w]
    <3>3. w \in {"yes", "no"} /\ (v[mname] # "unknown" => w = v[mname])
      BY <2>1, <3>1, <3>2 DEF Verdicts, Caches
    <3>4. l.cache = cache
      <4>1. local \in LocalsType
        BY <1>2, <2>1, <2>2 DEF CheckType, LocalFits
      <4> QED
        BY <2>1, <4>1 DEF LocalsType
    <3>5. cache \in Caches /\ cache[mname] = w /\ \A h \in Hosts : v[h] # "unknown" => cache[h] = v[h]
      BY <2>1, <3>1, <3>3 DEF Caches
    <3>6. /\ r(w).labels = [mname |-> mname] /\ r(w).metrics = SOAMetrics(mname, w)
      BY DEF SOAMetrics, Result
    <3>7. Handled(<<r(w)>>, at + 1, l)
      BY <3>2
    <3> HIDE DEF r, mname, l, cache
    <3>8. SOASays(r(w), cache)
      BY <3>1, <3>3, <3>5, <3>6 DEF SOASays
    <3>9. Of("soa")' = Append(Of("soa"), r(w)) /\ local' = l /\ UNCHANGED delegation
      BY <1>6, <3>7, ActsAppendOne
    <3> QED
      BY <1>1, <1>2, <3>4, <3>5, <3>8, <3>9, SOAOneMore
  <2> QED
    BY <2>2, <2>3, <2>4
<1> QED
  BY <1>2, <1>3, <1>4, <1>5, <1>6, Moves
-----------------------------------------------------------------------------

HostMetrics(h, v) ==
    [ns_hostname_is_cname |-> OneIf(v = "yes"),
     ns_hostname_syntax_valid |-> OneIf(h \in ValidNames)]

HostSays(r, v) ==
    r.host \in Hosts /\ v[r.host] # "unknown" /\ r.metrics = HostMetrics(r.host, v[r.host])

\* A server has answered the lookup of a name with a CNAME; it did so just now.
Found(h) ==
    \E e \in LogOf("ns_hostname") : e.query.name = h /\ Contains(e.reply.rrs, "CNAME")

Pending(h) ==
    check = "ns_hostname" /\ reply # Nil /\ query.name = h /\ Contains(reply.rrs, "CNAME")

HostAgrees(v) ==
    /\ v \in Caches
    /\ check = "ns_hostname" => v = local.cache
    /\ \A k \in 1..Len(Of("ns_hostname")) : HostSays(Of("ns_hostname")[k], v)
    /\ \A h \in Hosts : /\ v[h] = "yes" => Found(h)
                        /\ Found(h) => v[h] = "yes" \/ Pending(h)

HostInv == \E v : HostAgrees(v)

\* The lookup that is under way.
LEMMA AliasAsked ==
    ASSUME CheckType, DiscoveryInv, check = "ns_hostname", query # Nil
    PROVE  /\ local.stage = "cname" /\ at \in 1..Len(nameservers)
           /\ Current.host \in Hosts /\ query.name = Current.host /\ query.type = "CNAME"
           /\ local.cache[Current.host] = "unknown"
<1>1. /\ check # Nil /\ QueryFits /\ LocalFits(local, at) /\ local \in LocalsType
      /\ local.stage \in StagesOf(check) /\ Len(nameservers) \in Nat
      /\ at <= Len(nameservers) => Current \in Server
  BY CheckIsFit DEF CheckType, ExchangeType
<1>2. /\ local.stage = "cname" /\ local.todo # <<>> /\ query = Head(local.todo)
  BY <1>1 DEF QueryFits, StagesOf
<1>3. at \in 1..Len(nameservers)
  BY <1>1, <1>2 DEF LocalFits
<1>4. Current.host \in Hosts
  BY <1>1, <1>3 DEF Server
<1>5. local.todo \in Seq(Questions) /\ Len(local.todo) = 1
  BY <1>1, <1>2 DEF LocalFits, LocalsType, ToDo
<1>6. query = local.todo[1]
  BY <1>2, <1>5
<1>7. IsAlias(query, Current) /\ local.cache[Current.host] = "unknown"
  BY <1>1, <1>2, <1>6 DEF LocalFits, Current
<1> QED
  BY <1>2, <1>3, <1>4, <1>7 DEF IsAlias, Question

LEMMA HostOneMore ==
    ASSUME CheckType, NEW v, HostAgrees(v), NEW w \in Caches,
           \A h \in Hosts : v[h] # "unknown" => w[h] = v[h],
           check' = "ns_hostname" => w = local'.cache,
           NEW r, Of("ns_hostname")' = Append(Of("ns_hostname"), r), HostSays(r, w),
           LogOf("ns_hostname")' = LogOf("ns_hostname"),
           \A h \in Hosts : w[h] = "yes" <=> Found(h)
    PROVE  HostInv'
<1> DEFINE mine == Of("ns_hostname")
           more == Append(mine, r)
<1>1. mine \in Seq(ProbeResult) /\ Len(mine) \in Nat
  BY OfCheck
<1>2. /\ Len(more) = Len(mine) + 1 /\ more[Len(mine) + 1] = r
      /\ \A k \in 1..Len(mine) : more[k] = mine[k]
  BY <1>1
<1>3. ASSUME NEW q, HostSays(q, v) PROVE HostSays(q, w)
  BY <1>3 DEF HostSays
<1>4. Of("ns_hostname")' = more
  OBVIOUS
<1> HIDE DEF mine, more
<1>5. ASSUME NEW k \in 1..Len(more) PROVE HostSays(more[k], w)
  <2>1. CASE k \in 1..Len(mine)
    BY <1>2, <1>3, <2>1 DEF HostAgrees, mine
  <2>2. CASE k = Len(mine) + 1
    BY <1>2, <2>2
  <2> QED
    BY <1>1, <1>2, <1>5, <2>1, <2>2
<1>6. \A h : Found(h)' <=> Found(h)
  BY DEF Found
<1>7. HostAgrees(w)'
  BY <1>4, <1>5, <1>6 DEF HostAgrees, HostSays
<1> QED
  BY <1>7 DEF HostInv

LEMMA HostKept ==
    ASSUME NEW v, HostAgrees(v), Of("ns_hostname")' = Of("ns_hostname"),
           LogOf("ns_hostname")' = LogOf("ns_hostname"),
           check' = "ns_hostname" => check = "ns_hostname" /\ local'.cache = local.cache,
           \A h : Pending(h) => Pending(h)'
    PROVE  HostInv'
<1>1. \A h : Found(h)' <=> Found(h)
  BY DEF Found
<1>2. HostAgrees(v)'
  BY <1>1 DEF HostAgrees, HostSays
<1> QED
  BY <1>2 DEF HostInv

LEMMA NoHostname ==
    ASSUME Of("ns_hostname")' = <<>>, LogOf("ns_hostname")' = {},
           check' = "ns_hostname" => local' = Locals
    PROVE  HostInv'
<1> DEFINE v == [h \in Hosts |-> "unknown"]
<1>1. v \in Caches /\ v = Locals.cache /\ \A h \in Hosts : v[h] # "yes"
  BY DEF Caches, Locals
<1>2. 1..Len(Of("ns_hostname")') = {}
  OBVIOUS
<1>3. \A h : ~Found(h)'
  BY DEF Found
<1> HIDE DEF v
<1>4. HostAgrees(v)'
  BY <1>1, <1>2, <1>3 DEF HostAgrees
<1> QED
  BY <1>4 DEF HostInv

\* A result with what is known of the name now.
LEMMA HostResultStep ==
    ASSUME ZoneType, NEW v, HostAgrees(v), Acts("ns_hostname"), NEW yes \in {"yes", "no"},
           HostnameResult(yes), at \in 1..Len(nameservers), Current.host \in Hosts,
           v[Current.host] \in {"unknown", yes},
           \A h \in Hosts \ {Current.host} : ~Pending(h),
           Found(Current.host) <=> yes = "yes"
    PROVE  HostInv'
<1> DEFINE r == [Result(Current.host, Current.ip, TRUE, FALSE) EXCEPT
                   !.metrics = [ns_hostname_is_cname |-> OneIf(yes = "yes"),
                      ns_hostname_syntax_valid |-> OneIf(Current.host \in ValidNames)]]
           l == [local EXCEPT !.stage = "servers", !.todo = <<>>, !.hop = 0,
                              !.cache[Current.host] = yes]
           w == [v EXCEPT ![Current.host] = yes]
<1>1. CheckType /\ check = "ns_hostname" /\ v = local.cache /\ v \in Caches
  BY DEF ZoneType, Acts, HostAgrees
<1>2. Handled(<<r>>, at + 1, l)
  BY DEF HostnameResult
<1>3. w \in Caches /\ \A h \in Hosts : w[h] = IF h = Current.host THEN yes ELSE v[h]
  BY <1>1 DEF Caches
<1>4. l.cache = w
  <2>1. local \in LocalsType
    BY <1>1, ChecksAssumption DEF CheckType, LocalFits, Checks
  <2> QED
    BY <1>1, <2>1 DEF LocalsType
<1>5. r.host = Current.host /\ r.metrics = HostMetrics(Current.host, yes)
  BY DEF Result, HostMetrics
<1> HIDE DEF r, l, w
<1>6. HostSays(r, w)
  BY <1>3, <1>5 DEF HostSays
<1>7. \A h \in Hosts : w[h] = "yes" <=> Found(h)
  BY <1>3 DEF HostAgrees
<1>8. /\ Of("ns_hostname")' = Append(Of("ns_hostname"), r) /\ local' = l
      /\ LogOf("ns_hostname")' = LogOf("ns_hostname")
  BY <1>2, ActsAppendOne DEF LogOf
<1> QED
  BY <1>1, <1>3, <1>4, <1>6, <1>7, <1>8, HostOneMore

\* A reply with a record is an answer, and in the log.
LEMMA AliasHeard ==
    ASSUME ZoneType, LogInv, check = "ns_hostname", reply # Nil, NEW h
    PROVE  Pending(h) => Found(h)
<1>1. query # Nil /\ reply \in Answers[query.type] \cup Silences
  BY DEF ZoneType, CheckType, ExchangeType, ReplyFits
<1>2. query.type \in QueryTypes /\ query.check = check
  BY <1>1, AskedByCheck, ReplyRead DEF ZoneType
<1>3. ASSUME Contains(reply.rrs, "CNAME") PROVE [query |-> query, reply |-> reply] \in LogOf(check)
  <2>1. reply.rrs # <<>>
    BY <1>3 DEF Contains
  <2>2. Answered
    BY <1>1, <1>2, <2>1, OnlyAnswersAreOk DEF Answered
  <2> QED
    BY <1>2, <2>2 DEF LogInv, LogOf
<1> QED
  BY <1>3 DEF Pending, Found

LEMMA HostActs ==
    ASSUME ZoneType, LogInv, NEW v, HostAgrees(v), Acts("ns_hostname")
    PROVE  HostInv'
<1>1. /\ check = "ns_hostname" /\ check # Nil /\ check \in Checks /\ CheckType /\ DiscoveryInv
      /\ v = local.cache /\ v \in Caches
  BY ChecksAssumption DEF Acts, Checks, ZoneType, HostAgrees
<1>2. NSHostname
  BY <1>1, OwnSteps DEF Acts
<1>3. /\ LocalFits(local, at) /\ Len(nameservers) \in Nat /\ local \in LocalsType
      /\ at <= Len(nameservers) => Current.host \in Hosts
  BY <1>1, CheckIsFit DEF Server
<1>4. reply # Nil => query # Nil
  BY <1>1 DEF CheckType, ExchangeType
<1>5. CASE HostnameKnown
  <2>1. /\ at \in 1..Len(nameservers) /\ query = Nil /\ reply = Nil
        /\ v[Current.host] # "unknown" /\ HostnameResult(v[Current.host])
    BY <1>1, <1>3, <1>4, <1>5 DEF HostnameKnown, HostnameTurn, LocalFits
  <2>2. Current.host \in Hosts /\ v[Current.host] \in {"yes", "no"}
    BY <1>1, <1>3, <2>1 DEF Caches
  <2>3. \A h : ~Pending(h)
    BY <2>1 DEF Pending
  <2>4. Found(Current.host) <=> v[Current.host] = "yes"
    BY <2>2, <2>3 DEF HostAgrees
  <2> QED
    BY <2>1, <2>2, <2>3, <2>4, HostResultStep
<1>6. ASSUME NEW l, Handled(<<>>, at, l), l.cache = local.cache, \A h : ~Pending(h)
      PROVE  HostInv'
  <2>1. /\ Of("ns_hostname")' = Of("ns_hostname") /\ local' = l
        /\ LogOf("ns_hostname")' = LogOf("ns_hostname")
    BY <1>6, ActsAppendNone DEF LogOf
  <2> QED
    BY <1>1, <1>6, <2>1, HostKept
<1>7. CASE LookupCNAME
  <2>1. \A h : ~Pending(h)
    BY <1>4, <1>7 DEF LookupCNAME, HostnameTurn, Pending
  <2> DEFINE l == [local EXCEPT !.stage = "cname",
            !.todo = <<Question("CNAME", Current.host, [host |-> NoHost, ip |-> NoIP])>>]
  <2>2. Handled(<<>>, at, l)
    BY <1>7 DEF LookupCNAME
  <2>3. l.cache = local.cache
    BY <1>3 DEF LocalsType
  <2> HIDE DEF l
  <2> QED
    BY <1>6, <2>1, <2>2, <2>3
<1>8. CASE CNAMEReply
  <2>1. reply # Nil /\ query # Nil
    BY <1>4, <1>8 DEF CNAMEReply, Replied
  <2>2. /\ at \in 1..Len(nameservers) /\ Current.host \in Hosts
        /\ query.name = Current.host /\ v[Current.host] = "unknown"
    BY <1>1, <2>1, AliasAsked
  <2>3. Pending(Current.host) <=> Contains(reply.rrs, "CNAME")
    BY <1>1, <2>1, <2>2 DEF Pending
  <2>4. \A h : h # Current.host => ~Pending(h)
    BY <2>2 DEF Pending
  <2>5. Found(Current.host) <=> Contains(reply.rrs, "CNAME")
    <3>1. Found(Current.host) => Pending(Current.host)
      BY <2>2 DEF HostAgrees
    <3>2. Pending(Current.host) => Found(Current.host)
      BY <1>1, <2>1, AliasHeard
    <3> QED
      BY <2>3, <3>1, <3>2
  <2>6. ASSUME NEW yes \in {"yes", "no"}, HostnameResult(yes),
               yes = "yes" <=> Contains(reply.rrs, "CNAME")
        PROVE  HostInv'
    BY <2>2, <2>4, <2>5, <2>6, HostResultStep
  <2>7. CASE Contains(reply.rrs, "CNAME")
    <3>1. HostnameResult("yes")
      BY <1>8, <2>7 DEF CNAMEReply
    <3> QED
      BY <2>6, <2>7, <3>1
  <2>8. CASE ~Contains(reply.rrs, "CNAME")
    <3> DEFINE l == [local EXCEPT !.hop = @ + 1]
    <3>1. Handled(<<>>, at, l) \/ HostnameResult("no")
      BY <1>8, <2>8 DEF CNAMEReply
    <3>2. l.cache = local.cache
      BY <1>3 DEF LocalsType
    <3> HIDE DEF l
    <3>3. \A h : ~Pending(h)
      BY <2>3, <2>4, <2>8
    <3>4. CASE HostnameResult("no")
      BY <2>6, <2>8, <3>4
    <3> QED
      BY <1>6, <3>1, <3>2, <3>3, <3>4
  <2> QED
    BY <2>7, <2>8
<1> QED
  BY <1>2, <1>5, <1>7, <1>8 DEF NSHostname

LEMMA HostStep ==
    ASSUME ZoneType, LogInv, HostInv, ProbeZone \/ Deadline
    PROVE  HostInv'
<1>1. PICK v : HostAgrees(v)
  BY DEF HostInv
<1>2. "ns_hostname" \in Checks /\ CheckType /\ DiscoveryInv
  BY DEF Checks, ZoneType
<1>3. CASE Apart("ns_hostname")
  <2>1. /\ Of("ns_hostname")' = Of("ns_hostname") /\ LogOf("ns_hostname")' = LogOf("ns_hostname")
        /\ check' # "ns_hostname" /\ check # "ns_hostname"
    BY <1>3 DEF Apart
  <2> QED
    BY <1>1, <2>1, HostKept DEF Pending
<1>4. CASE Starts("ns_hostname")
  <2>1. /\ Of("ns_hostname")' = <<>> /\ LogOf("ns_hostname")' = {} /\ local' = Locals
    BY <1>4, NotRun DEF Starts, StartCheck, Of, LogOf
  <2> QED
    BY <2>1, NoHostname
<1>5. CASE Ends("ns_hostname")
  <2>1. /\ Of("ns_hostname")' = Of("ns_hostname") /\ LogOf("ns_hostname")' = LogOf("ns_hostname")
        /\ check' # "ns_hostname" /\ query = Nil
    BY <1>2, <1>5, ChecksAssumption DEF Ends, EndCheck, Of, LogOf, Checks
  <2>2. \A h : ~Pending(h)
    BY <1>2, <2>1 DEF Pending, CheckType, ExchangeType
  <2> QED
    BY <1>1, <2>1, <2>2, HostKept
<1>6. CASE Steady("ns_hostname")
  <2>1. /\ Of("ns_hostname")' = Of("ns_hostname") /\ LogOf("ns_hostname")' = LogOf("ns_hostname")
        /\ UNCHANGED <<check, local, reply>> /\ check = "ns_hostname"
        /\ reply # Nil => query' = query
    BY <1>2, <1>6 DEF Steady, Of, LogOf, CheckType, ExchangeType
  <2> QED
    BY <1>1, <2>1, HostKept DEF Pending
<1>7. CASE Hears("ns_hostname")
  <2>1. PICK r \in Answers[query.type] \cup Silences : Returns(r)
    BY <1>7 DEF Hears
  <2>2. /\ check = "ns_hostname" /\ query # Nil /\ reply = Nil /\ reply' = r
        /\ UNCHANGED <<check, query, local, results>>
        /\ log' = IF r.status = "ok" THEN log \cup {[query |-> query, reply |-> r]} ELSE log
    BY <1>7, <2>1 DEF Hears, Returns
  <2>3. query.type = "CNAME" /\ query.check = "ns_hostname"
    BY <1>2, <2>2, AliasAsked, AskedByCheck
  <2>4. r # Nil
    BY <2>1, <2>3, OnlyAnswersAreOk DEF QueryTypes
  <2>5. \A h : ~Pending(h)
    BY <2>2 DEF Pending
  <2>6. ASSUME NEW h PROVE (Found(h) => Found(h)') /\ (Found(h)' => Found(h) \/ Pending(h)')
    <3>1. /\ LogOf("ns_hostname") \subseteq LogOf("ns_hostname")'
          /\ LogOf("ns_hostname")' \subseteq
                LogOf("ns_hostname") \cup {[query |-> query, reply |-> r]}
      BY <2>2 DEF LogOf
    <3> QED
      BY <2>2, <2>4, <3>1 DEF Found, Pending
  <2>7. Of("ns_hostname")' = Of("ns_hostname")
    BY <2>2 DEF Of
  <2>8. HostAgrees(v)'
    BY <1>1, <2>2, <2>5, <2>6, <2>7 DEF HostAgrees, HostSays
  <2> QED
    BY <2>8 DEF HostInv
<1>8. CASE Acts("ns_hostname")
  BY <1>1, <1>8, HostActs
<1> QED
  BY <1>2, <1>3, <1>4, <1>5, <1>6, <1>7, <1>8, Moves

\* What the shared lookups say is the same in every result.
LEMMA MineIsThere ==
    ASSUME CheckType, NEW k \in DOMAIN results
    PROVE  \E j \in 1..Len(Of(results[k].check)) : Of(results[k].check)[j] = results[k]
<1> DEFINE c == results[k].check
           K == {r \in ToSet(results) : r.check = c}
<1>1. results \in Seq(ProbeResult)
  BY DEF CheckType
<1>2. Filter(results, K) \in Seq(ProbeResult) /\ ToSet(Filter(results, K)) = ToSet(results) \cap K
  BY <1>1, FilterKeeps
<1>3. results[k] \in ToSet(results) \cap K
  BY <1>1 DEF ToSet
<1>4. Of(c) = Filter(results, K)
  BY DEF Of
<1> HIDE DEF K, c
<1>5. results[k] \in ToSet(Of(c)) /\ Of(c) \in Seq(ProbeResult)
  BY <1>2, <1>3, <1>4
<1> QED
  BY <1>5 DEF ToSet, c

LEMMA SameNames ==
    ASSUME CheckType, SOAInv, HostInv
    PROVE  SameNameSameVerdict
<1>1. PICK v : SOAAgrees(v)
  BY DEF SOAInv
<1>2. PICK w : HostAgrees(w)
  BY DEF HostInv
<1>3. ASSUME NEW k \in DOMAIN results
      PROVE  /\ results[k].check = "soa" /\ results[k].ok => SOASays(results[k], v)
             /\ results[k].check = "ns_hostname" => HostSays(results[k], w)
  BY <1>1, <1>2, MineIsThere DEF SOAAgrees, HostAgrees
<1>4. ASSUME NEW q, NEW r, SOASays(q, v), SOASays(r, v), q.labels = r.labels
      PROVE  q.metrics = r.metrics
  <2>1. PICK m : q.labels = [mname |-> m] /\ q.metrics = SOAMetrics(m, v[m])
    BY <1>4 DEF SOASays
  <2>2. PICK n : r.labels = [mname |-> n] /\ r.metrics = SOAMetrics(n, v[n])
    BY <1>4 DEF SOASays
  <2>3. m = n
    <3>1. [mname |-> m].mname = [mname |-> n].mname
      BY <1>4, <2>1, <2>2
    <3> QED
      BY <3>1
  <2> QED
    BY <2>1, <2>2, <2>3
<1>5. ASSUME NEW j \in DOMAIN results, NEW k \in DOMAIN results,
             results[j].check = results[k].check
      PROVE  /\ (results[j].check = "soa" /\ results[j].ok /\ results[k].ok
                   /\ results[j].labels = results[k].labels) =>
                     results[j].metrics = results[k].metrics
             /\ (results[j].check = "ns_hostname" /\ results[j].host = results[k].host) =>
                     results[j].metrics = results[k].metrics
  BY <1>3, <1>4, <1>5 DEF HostSays
<1> QED
  BY <1>5 DEF SameNameSameVerdict

LEMMA Aliases ==
    ASSUME ZoneType, LogInv, HostInv
    PROVE  AliasesAreFound
<1>1. PICK v : HostAgrees(v)
  BY DEF HostInv
<1> SUFFICES ASSUME NEW k \in DOMAIN results, results[k].check = "ns_hostname"
             PROVE  results[k].metrics.ns_hostname_is_cname = 1 <=>
                       \E e \in log : /\ e.query.type = "CNAME"
                                      /\ e.query.name = results[k].host
                                      /\ Contains(e.reply.rrs, "CNAME")
  BY DEF AliasesAreFound
<1> DEFINE h == results[k].host
<1>2. HostSays(results[k], v) /\ CheckType /\ DiscoveryInv
  BY <1>1, MineIsThere DEF HostAgrees, ZoneType
<1>3. results[k].metrics.ns_hostname_is_cname = 1 <=> v[h] = "yes"
  BY <1>2 DEF HostSays, HostMetrics, OneIf
<1>4. v[h] # "unknown" /\ h \in Hosts
  BY <1>2 DEF HostSays
<1> HIDE DEF h
<1>5. Found(h) <=> v[h] = "yes"
  <2>1. Pending(h) => v[h] = "unknown"
    <3>1. Pending(h) => check = "ns_hostname" /\ query # Nil /\ query.name = h
      BY <1>2 DEF Pending, CheckType, ExchangeType
    <3> QED
      BY <1>1, <1>2, <3>1, AliasAsked DEF HostAgrees
  <2> QED
    BY <1>1, <1>4, <2>1 DEF HostAgrees
<1>6. Found(h) <=> \E e \in log : /\ e.query.type = "CNAME" /\ e.query.name = h
                                  /\ Contains(e.reply.rrs, "CNAME")
  <2>1. \A e \in log : e.query.type = "CNAME" <=> e.query.check = "ns_hostname"
    BY DEF LogInv, TypesOf, Questions, Checks
  <2> QED
    BY <2>1 DEF Found, LogOf
<1> QED
  BY <1>3, <1>5, <1>6 DEF h
-----------------------------------------------------------------------------
(* The cycle.                                                              *)

\* The types of the cycle, and what Publication has to know of the results.
CycleType == ZoneType /\ PubType /\ ResultsFit
-----------------------------------------------------------------------------
(* The cycle does what Publication says.                                   *)

\* A list that a goroutine appends.
Fits(list, zone) ==
    /\ list \in Seq(ProbeResult)
    /\ \A k \in 1..Len(list) :
          /\ list[k].zone = zone
          /\ HasInfo(list[k]) => {"target", "priority"} \subseteq DOMAIN list[k].labels

LEMMA JoinFits ==
    ASSUME PubType, NEW g \in DOMAIN CfgZones, NEW list, Fits(list, CfgZones[g]), Join(g, list)
    PROVE  Joins(g)
<1> DEFINE m == Len(all)
           n == Len(list)
<1>1. /\ phase = "probe" /\ g \in DOMAIN CfgZones \ joined
      /\ joined' = joined \cup {g} /\ all' = all \o list
      /\ UNCHANGED <<phase, taken, gauge, counter, mxRRs, registry>>
  BY DEF Join
<1>2. all \in Seq(ProbeResult) /\ list \in Seq(ProbeResult)
  BY DEF PubType, Fits
<1>3. /\ all' \in Seq(ProbeResult) /\ m \in Nat /\ n \in Nat /\ Len(all') = m + n
      /\ \A k \in 1..m : all'[k] = all[k]
      /\ \A k \in (m + 1)..(m + n) : all'[k] = list[k - m]
  BY <1>1, <1>2
<1>4. SubSeq(all', 1, Len(all)) = all
  BY <1>2, <1>3
<1>5. ASSUME NEW k \in (Len(all) + 1)..Len(all')
      PROVE  /\ all'[k].zone = CfgZones[g]
             /\ HasInfo(all'[k]) => {"target", "priority"} \subseteq DOMAIN all'[k].labels
  <2>1. all'[k] = list[k - m] /\ k - m \in 1..n
    BY <1>3
  <2> QED
    BY <2>1 DEF Fits
<1> QED
  BY <1>1, <1>3, <1>4, <1>5 DEF Joins

\* What the goroutine of the zone returns,
LEMMA ZoneListFits ==
    ASSUME ZoneType
    PROVE  1 \in DOMAIN CfgZones /\ Fits(results, CfgZones[1])
<1>1. 1 \in DOMAIN CfgZones /\ Zone = CfgZones[1]
  BY OthersAssumption, PublicationAssumption
<1>2. results \in Seq(ProbeResult) /\ \A k \in 1..Len(results) : ResultFits(results[k])
  BY DEF ZoneType, CheckType
<1> QED
  BY <1>1, <1>2 DEF Fits, ResultFits, HasInfo

\* and what another returns.
LEMMA OtherListFits ==
    ASSUME NEW g \in DOMAIN CfgZones, g # 1, NEW list \in Others[CfgZones[g]]
    PROVE  Fits(list, CfgZones[g])
<1> DEFINE z == CfgZones[g]
<1>1. z \in DOMAIN Others /\ list \in Others[z]
  BY OthersAssumption
<1> HIDE DEF z
<1>2. list \in Seq(ProbeResult)
  BY <1>1, OthersAssumption
<1>3. ASSUME NEW k \in 1..Len(list)
      PROVE  /\ list[k].zone = z
             /\ HasInfo(list[k]) => {"target", "priority"} \subseteq DOMAIN list[k].labels
  <2> DEFINE r == list[k]
  <2>1. r \in ToSet(list)
    BY <1>2 DEF ToSet
  <2> HIDE DEF r
  <2>2. \A q \in ToSet(list) :
            /\ q.zone = z
            /\ HasInfo(q) => {"target", "priority"} \subseteq DOMAIN q.labels
    <3>1. \A y \in DOMAIN Others : \A l \in Others[y] : \A q \in ToSet(l) :
            /\ q.zone = y
            /\ HasInfo(q) => {"target", "priority"} \subseteq DOMAIN q.labels
      BY OthersAssumption
    <3> QED
      BY <1>1, <3>1, Zenon
  <2>3. r.zone = z /\ (HasInfo(r) => {"target", "priority"} \subseteq DOMAIN r.labels)
    BY <2>1, <2>2
  <2> QED
    BY <2>3 DEF r
<1> QED
  BY <1>2, <1>3 DEF Fits, z

\* Every step of the cycle is one of Publication, or leaves its variables alone.
LEMMA PublishesStep ==
    ASSUME CycleType, [Next]_vars
    PROVE  [PubNext]_pubVars
<1>1. CASE GoroutineStep \/ DeadlinePasses \/ UNCHANGED vars
  BY <1>1 DEF GoroutineStep, DeadlinePasses, vars
<1>2. CASE ZoneReturns
  <2>1. Join(1, results)
    BY <1>2 DEF ZoneReturns
  <2>2. 1 \in DOMAIN CfgZones /\ Joins(1)
    BY <2>1, ZoneListFits, JoinFits DEF CycleType
  <2> QED
    BY <2>2 DEF PubNext
<1>3. ASSUME NEW g \in DOMAIN CfgZones, OtherReturns(g) PROVE PubNext
  <2>1. g # 1
    BY <1>3 DEF OtherReturns
  <2>2. PICK list \in Others[CfgZones[g]] : Join(g, list)
    BY <1>3 DEF OtherReturns
  <2>3. Joins(g)
    BY <2>1, <2>2, OtherListFits, JoinFits DEF CycleType
  <2> QED
    BY <2>3 DEF PubNext
<1>4. CASE Publishing
  BY <1>4 DEF Publishing, PubNext
<1> QED
  BY <1>1, <1>2, <1>3, <1>4 DEF Next
-----------------------------------------------------------------------------
(* The goroutine keeps its invariant.                                      *)

LEMMA Undisturbed == ASSUME ZoneType, UNCHANGED probeVars PROVE ZoneType'
<1>1. UNCHANGED walkVars /\ UNCHANGED discoveryVars /\ UNCHANGED checkVars
  BY DEF probeVars
<1>2. WalkInv' /\ DiscoveryInv'
  BY <1>1, UndisturbedWalk, UndisturbedDiscovery DEF ZoneType
<1>3. UNCHANGED <<probers, ran, check, at, query, firstErr, reply, local, results,
                  expired, silent, nameservers>>
  BY <1>1 DEF checkVars, discoveryVars
<1>4. ExchangeType'
  BY <1>3 DEF ZoneType, CheckType, ExchangeType, QueryFits, ReplyFits, Question, QueryType,
              Name, Current
<1>5. CheckType'
  BY <1>1, <1>3, <1>4, SteadyType DEF ZoneType, CheckType
<1> QED
  BY <1>1, <1>2, <1>5 DEF ZoneType, walkVars, discoveryVars

\* When it returns, no check is running; its variables start anew.
LEMMA ReturnsToType == ASSUME ZoneType, ZoneReturns PROVE ZoneType'
<1>1. check = Nil /\ query = Nil /\ firstErr = Nil /\ reply = Nil /\ at = 1 /\ local = Locals
  <2>1. Finished
    BY DEF ZoneReturns
  <2>2. check = Nil
    BY <2>1 DEF Finished, ZoneType, CheckType
  <2> QED
    BY <2>2 DEF ZoneType, CheckType, ExchangeType
<1>2. /\ walk' = "returned" /\ referral' = NoReply /\ delegation' = NoDelegation
      /\ UNCHANGED <<server, hops>>
      /\ discovery' = "idle" /\ nameservers' = <<>> /\ position' = 0
      /\ unresolved' = {} /\ resolved' = <<>> /\ sought' = {} /\ found' = {}
      /\ results' = <<>> /\ ran' = {} /\ expired' = FALSE
      /\ UNCHANGED <<probers, check, at, query, firstErr, reply, local, silent>>
  BY DEF ZoneReturns
<1>3. WalkInv'
  BY <1>2 DEF ZoneType, WalkInv, WalkType, DelegationIsTheReply, PrefersIPv4, NoReply,
              WalkReplyType, NoDelegation, Delegations, ToSet
<1>4. DiscoveryInv'
  <2>1. delegation' \in Delegations
    BY <1>3 DEF WalkInv, WalkType
  <2>2. Len(delegation'.nsRecords) \in Nat
    BY <2>1 DEF Delegations
  <2>3. DiscoveryType'
    BY <1>2, <2>1, <2>2 DEF DiscoveryType
  <2>4. (ToSet(nameservers) = {} /\ GlueUpTo(0) = {})'
    BY <1>2, ElementsOfNone DEF GlueUpTo, ToSet
  <2>5. Discovered'
    BY <1>2, <2>4 DEF Discovered
  <2> QED
    BY <1>2, <2>3, <2>5 DEF DiscoveryInv, NameserversAreDistinct
<1>5. CheckType'
  <2>1. results' \in Seq(ProbeResult) /\ \A k \in 1..Len(results') : ResultFits(results[k])'
    BY <1>2
  <2>2. ExchangeType'
    BY <1>1, <1>2 DEF ExchangeType
  <2> QED
    BY <1>1, <1>2, <2>1, <2>2 DEF ZoneType, CheckType
<1> QED
  BY <1>2, <1>3, <1>4, <1>5 DEF ZoneType

LEMMA CycleStep == ASSUME CycleType, [Next]_vars PROVE CycleType'
<1>1. PubType' /\ ResultsFit'
  BY PublishesStep, TypeStep DEF CycleType
<1>2. ZoneType'
  <2>1. CASE GoroutineStep \/ DeadlinePasses
    BY <2>1, ZoneStep DEF GoroutineStep, DeadlinePasses, CycleType
  <2>2. CASE ZoneReturns
    BY <2>2, ReturnsToType DEF CycleType
  <2>3. CASE (\E g \in DOMAIN CfgZones : OtherReturns(g)) \/ Publishing \/ UNCHANGED vars
    <3>1. UNCHANGED probeVars
      BY <2>3 DEF OtherReturns, Publishing, vars
    <3> QED
      BY <3>1, Undisturbed DEF CycleType
  <2> QED
    BY <2>1, <2>2, <2>3 DEF Next
<1> QED
  BY <1>1, <1>2 DEF CycleType

LEMMA CycleInit == ASSUME Init PROVE CycleType
<1>1. ZoneType
  BY ZoneInit DEF Init
<1>2. PubType /\ ResultsFit
  BY InitHolds DEF Init, IInv
<1> QED
  BY <1>1, <1>2 DEF CycleType

\* Whatever the servers reply and whenever the deadline passes, each variable
\* holds what the code gives it room for: the turn of a check stays within the
\* nameservers, and what comes out are results of checks that ran.
THEOREM CycleTypeInvariant == Spec => []CycleType
<1>1. Init => CycleType
  BY CycleInit
<1>2. CycleType /\ [Next]_vars => CycleType'
  BY CycleStep
<1> QED
  BY <1>1, <1>2, PTL DEF Spec

\* Whatever is asked, answered or lost, each variable holds what the code has
\* room for (runner.go:188-432, 454-507).
THEOREM TypeTheorem == Spec => []TypeOK
<1>1. CycleType => TypeOK
  <2> SUFFICES ASSUME CycleType PROVE TypeOK
    OBVIOUS
  <2>1. WalkType /\ DiscoveryType /\ CheckType /\ PubType
    BY DEF CycleType, ZoneType, WalkInv, DiscoveryInv
  <2>2. hops \in 0..WalkHops
    BY <2>1, WalkAssumption DEF WalkType
  <2>3. delegation.nsRecords \in Seq(Nameserver) /\ delegation.glue \in Seq(Nameserver)
    BY <2>1 DEF WalkType, Delegations
  <2>4. at \in 1..(Len(nameservers) + 1) /\ check \in Checks \cup {Nil}
    <3>1. CASE check = Nil
      BY <2>1, <3>1 DEF CheckType, DiscoveryType
    <3>2. CASE check # Nil
      BY <2>1, <3>2 DEF CheckType, LocalFits
    <3> QED
      BY <3>1, <3>2
  <2> QED
    BY <2>1, <2>2, <2>3, <2>4 DEF TypeOK, WalkType, DiscoveryType, CheckType, PubType, Phases
<1> QED
  BY <1>1, CycleTypeInvariant, PTL

\* The cycle implements Publication: between the reset of the gauges and the
\* registry nothing happens to the collected results but what the theorems
\* about them suppose (runner.go:188-432, registry.go:9-66).
THEOREM PublicationTheorem == Spec => PublishesItsResults
<1>1. Init => PubInit
  BY DEF Init
<1>2. CycleType /\ [Next]_vars => [PubNext]_pubVars
  BY PublishesStep
<1> QED
  BY <1>1, <1>2, CycleTypeInvariant, PTL DEF Spec, PublishesItsResults, PubSpec

\* Hence the gauges and the registry of a whole cycle are right, whatever the
\* servers of its zones reply (runner.go:193-222, 284-428, registry.go:24-64).
THEOREM PublishedTheorem ==
    Spec => [](/\ GaugesAreOfThisCycle /\ NullMXTellsTheRecords
               /\ PrimaryIsLowest /\ FirstResultIsServed)
<1>1. Spec => PubSpec
  BY PublicationTheorem DEF PublishesItsResults
<1> QED
  BY <1>1, CountsTheorem, NullMXTheorem, PrimaryTheorem, RegistryTheorem, PTL

\* The parent's nameservers are those of the reply that delegated the zone,
\* and the referrals on the way are followed over IPv4 where there is any
\* (prober.go:103-107, 180-239).
THEOREM DelegationTheorem == Spec => [](DelegationIsTheReply /\ PrefersIPv4)
<1>1. CycleType => DelegationIsTheReply /\ PrefersIPv4
  BY DEF CycleType, ZoneType, WalkInv
<1> QED
  BY <1>1, CycleTypeInvariant, PTL

\* The nameservers that the checks ask are all that the parent and the resolver
\* have named, each once (runner.go:469-500, 517-575).
THEOREM NameserversTheorem == Spec => [](NameserversAreDistinct /\ NoAddressIsLost)
<1>1. CycleType => NameserversAreDistinct /\ NoAddressIsLost
  BY NothingIsLost DEF CycleType, ZoneType, DiscoveryInv
<1> QED
  BY <1>1, CycleTypeInvariant, PTL

-----------------------------------------------------------------------------
(* The timeouts.                                                           *)

\* Each result that says so has been let down by its address.
TimeoutsInv ==
    /\ \A k \in 1..Len(all) : all[k].timedOut => all[k].ip \in silent
    /\ TimeoutsAreReal

LEMMA OthersNeverTimeOut ==
    ASSUME NEW g \in DOMAIN CfgZones, g # 1, NEW list \in Others[CfgZones[g]],
           NEW k \in 1..Len(list)
    PROVE  ~list[k].timedOut
<1> DEFINE z == CfgZones[g]
           r == list[k]
<1>1. z \in DOMAIN Others /\ list \in Others[z] /\ r \in ToSet(list)
  BY OthersAssumption DEF ToSet
<1>2. \A y \in DOMAIN Others : \A l \in Others[y] : \A q \in ToSet(l) : ~q.timedOut
  BY OthersAssumption
<1> QED
  BY <1>1, <1>2

LEMMA JoinedTimeouts ==
    ASSUME PubType, TimeoutsInv, UNCHANGED silent,
           NEW g \in DOMAIN CfgZones, NEW list \in Seq(ProbeResult), Join(g, list),
           \A k \in 1..Len(list) : list[k].timedOut => list[k].ip \in silent
    PROVE  TimeoutsInv'
<1> DEFINE m == Len(all)
           n == Len(list)
<1>1. all \in Seq(ProbeResult) /\ all' = all \o list /\ UNCHANGED counter
  BY DEF PubType, Join
<1>2. /\ m \in Nat /\ n \in Nat /\ Len(all') = m + n
      /\ \A k \in 1..m : all'[k] = all[k]
      /\ \A k \in (m + 1)..(m + n) : all'[k] = list[k - m]
  BY <1>1
<1>3. ASSUME NEW k \in 1..Len(all'), all'[k].timedOut PROVE all'[k].ip \in silent
  <2>1. CASE k \in 1..m
    BY <1>2, <1>3, <2>1 DEF TimeoutsInv
  <2>2. CASE k \notin 1..m
    <3>1. all'[k] = list[k - m] /\ k - m \in 1..n
      BY <1>2, <2>2
    <3> QED
      BY <1>3, <3>1
  <2> QED
    BY <2>1, <2>2
<1> QED
  BY <1>1, <1>3 DEF TimeoutsInv, TimeoutsAreReal

LEMMA TimeoutsStep ==
    ASSUME CycleType, TimeoutsInv, [Next]_vars
    PROVE  TimeoutsInv'
<1>1. CASE GoroutineStep \/ DeadlinePasses
  <2>1. silent \subseteq silent' /\ UNCHANGED <<all, counter>>
    BY <1>1, SilentGrows DEF GoroutineStep, DeadlinePasses, CycleType, pubVars
  <2> QED
    BY <2>1 DEF TimeoutsInv, TimeoutsAreReal
<1>2. CASE ZoneReturns
  <2>1. /\ results \in Seq(ProbeResult)
        /\ \A k \in 1..Len(results) : results[k].timedOut => results[k].ip \in silent
    BY DEF CycleType, ZoneType, CheckType, ResultFits
  <2>2. Join(1, results) /\ UNCHANGED silent
    BY <1>2 DEF ZoneReturns
  <2> QED
    BY <2>1, <2>2, ZoneListFits, JoinedTimeouts DEF CycleType
<1>3. ASSUME NEW g \in DOMAIN CfgZones, OtherReturns(g) PROVE TimeoutsInv'
  <2>1. g # 1 /\ UNCHANGED silent
    BY <1>3 DEF OtherReturns, probeVars, checkVars
  <2>2. PICK list \in Others[CfgZones[g]] : Join(g, list)
    BY <1>3 DEF OtherReturns
  <2>3. list \in Seq(ProbeResult) /\ \A k \in 1..Len(list) : ~list[k].timedOut
    BY <2>1, OtherListFits, OthersNeverTimeOut DEF Fits
  <2> QED
    BY <2>1, <2>2, <2>3, JoinedTimeouts DEF CycleType
<1>4. CASE Publishing
  <2>1. PublicationStep /\ UNCHANGED silent
    BY <1>4 DEF Publishing, probeVars, checkVars
  <2>2. CASE Aggregate
    <3>1. /\ taken < Len(all) /\ taken \in Nat /\ UNCHANGED all
          /\ counter' = Inc(counter, CountersOf(all[taken + 1]))
      BY <2>2 DEF Aggregate, CycleType, PubType
    <3>2. DOMAIN counter' = DOMAIN counter \cup CountersOf(all[taken + 1])
      BY <3>1 DEF Inc
    <3>3. ASSUME NEW s \in CountersOf(all[taken + 1]), s.metric = "dns_timeouts"
          PROVE  s.of \in silent
      <4>1. all[taken + 1].timedOut /\ s.of = all[taken + 1].ip
        BY <3>3 DEF CountersOf, Series
      <4>2. taken + 1 \in 1..Len(all)
        BY <3>1 DEF CycleType, PubType
      <4> QED
        BY <4>1, <4>2 DEF TimeoutsInv
    <3> QED
      BY <2>1, <3>1, <3>2, <3>3 DEF TimeoutsInv, TimeoutsAreReal
  <2>3. CASE UNCHANGED <<all, counter>>
    BY <2>1, <2>3 DEF TimeoutsInv, TimeoutsAreReal
  <2> QED
    BY <2>1, <2>2, <2>3 DEF PublicationStep, Reset, Collect, Derive, BuildRegistry, Publish
<1>5. CASE UNCHANGED vars
  BY <1>5 DEF TimeoutsInv, TimeoutsAreReal, vars, probeVars, checkVars, pubVars
<1> QED
  BY <1>1, <1>2, <1>3, <1>4, <1>5 DEF Next

\* Every timeout that the counters show is put down to an address that has let
\* an exchange of this cycle time out, through the retry, the results of the
\* checks and the loop over them (retry.go:26-51, runner.go:263-275).
THEOREM TimeoutsTheorem == Spec => []TimeoutsAreReal
<1>1. Init => TimeoutsInv
  BY DEF Init, PubInit, TimeoutsInv, TimeoutsAreReal
<1>2. CycleType /\ TimeoutsInv /\ [Next]_vars => TimeoutsInv'
  BY TimeoutsStep
<1>3. TimeoutsInv => TimeoutsAreReal
  BY DEF TimeoutsInv
<1> QED
  BY <1>1, <1>2, <1>3, CycleTypeInvariant, PTL DEF Spec

-----------------------------------------------------------------------------
(* The verdicts of the checks.                                             *)

\* When the goroutine returns, nothing is left that a check has asked or found.
LEMMA AllGone ==
    ASSUME ZoneType, ZoneReturns
    PROVE  /\ check' = Nil /\ reply' = Nil /\ results' = <<>> /\ log' = {} /\ ran' = {}
           /\ \A c : Of(c)' = <<>> /\ LogOf(c)' = {}
<1>1. check = Nil
  BY DEF ZoneReturns, Finished, ZoneType, CheckType
<1>2. /\ check' = check /\ reply' = reply /\ reply = Nil
      /\ results' = <<>> /\ log' = {} /\ ran' = {}
  BY <1>1 DEF ZoneReturns, ZoneType, CheckType, ExchangeType
<1>3. \A c : Of(c)' = <<>>
  BY <1>2, FilterNone DEF Of
<1> QED
  BY <1>1, <1>2, <1>3 DEF LogOf

\* What the verdicts rest on.
VerdictInv == LogInv /\ \A c \in Turned : TurnsInv(c)

LEMMA VerdictStep ==
    ASSUME CycleType, VerdictInv, [Next]_vars
    PROVE  VerdictInv'
<1>1. CASE GoroutineStep \/ DeadlinePasses
  <2>1. ZoneType /\ LogInv /\ (ProbeZone \/ Deadline)
    BY <1>1 DEF GoroutineStep, DeadlinePasses, CycleType, VerdictInv
  <2>2. LogInv'
    BY <2>1, LogStep
  <2>3. \A c \in Turned : TurnsInv(c)'
    BY <2>1, TurnsStep DEF VerdictInv
  <2> QED
    BY <2>2, <2>3 DEF VerdictInv
<1>2. CASE ZoneReturns
  <2>1. /\ check' = Nil /\ reply' = Nil /\ log' = {} /\ ran' = {}
        /\ \A c : Of(c)' = <<>>
    BY <1>2, AllGone DEF CycleType
  <2>2. ASSUME NEW c \in Turned PROVE TurnsInv(c)'
    BY <2>1, NoTurns, ChecksAssumption DEF Turned, Checks
  <2> QED
    BY <2>1, <2>2 DEF VerdictInv, LogInv
<1>3. CASE (\E g \in DOMAIN CfgZones : OtherReturns(g)) \/ Publishing \/ UNCHANGED vars
  <2>1. UNCHANGED probeVars
    BY <1>3 DEF OtherReturns, Publishing, vars
  <2>2. UNCHANGED <<nameservers, check, at, reply, query, ran, log, results>>
    BY <2>1 DEF probeVars, checkVars, discoveryVars
  <2>3. LogInv'
    BY <2>2 DEF VerdictInv, LogInv, Answered
  <2>4. ASSUME NEW c \in Turned PROVE TurnsInv(c)'
    BY <2>2, TurnsKept DEF VerdictInv, Of, LogOf, Through
  <2> QED
    BY <2>3, <2>4 DEF VerdictInv
<1> QED
  BY <1>1, <1>2, <1>3 DEF Next

LEMMA VerdictInit == ASSUME Init PROVE VerdictInv
<1>1. results = <<>> /\ log = {} /\ reply = Nil /\ check = Nil /\ ran = {}
  BY DEF Init, ProbeInit, ChecksIdle
<1>2. \A c : Of(c) = <<>>
  BY <1>1, FilterNone DEF Of
<1>3. ASSUME NEW c \in Turned PROVE TurnsInv(c)
  BY <1>1, <1>2, ChecksAssumption DEF Turned, Checks, TurnsInv, Through
<1> QED
  BY <1>1, <1>3 DEF VerdictInv, LogInv

\* However many nameservers are dead, slow or odd, and whenever the deadline
\* passes, soa, recursion and ns_hostname give one result for each nameserver,
\* and it says success exactly when that one has answered (soa.go:37-60,
\* recursion.go:16-44, ns_hostname.go:31-56).
THEOREM VerdictTheorem == Spec => []EveryNameserverHasItsVerdict
<1>1. Init => VerdictInv
  BY VerdictInit
<1>2. CycleType /\ VerdictInv /\ [Next]_vars => VerdictInv'
  BY VerdictStep
<1>3. CycleType /\ VerdictInv => EveryNameserverHasItsVerdict
  BY VerdictsOfTurns DEF CycleType, VerdictInv
<1> QED
  BY <1>1, <1>2, <1>3, CycleTypeInvariant, PTL DEF Spec

\* What the lookups of soa and of ns_hostname rest on.
LookupInv == SOAInv /\ HostInv

LEMMA LookupStep ==
    ASSUME CycleType, VerdictInv, LookupInv, [Next]_vars
    PROVE  LookupInv'
<1>1. CASE GoroutineStep \/ DeadlinePasses
  BY <1>1, SOAStep, HostStep DEF GoroutineStep, DeadlinePasses, CycleType, VerdictInv, LookupInv
<1>2. CASE ZoneReturns
  BY <1>2, AllGone, NoSOA, NoHostname, ChecksAssumption DEF CycleType, LookupInv, Checks
<1>3. CASE (\E g \in DOMAIN CfgZones : OtherReturns(g)) \/ Publishing \/ UNCHANGED vars
  <2>1. UNCHANGED probeVars
    BY <1>3 DEF OtherReturns, Publishing, vars
  <2>2. UNCHANGED <<delegation, check, local, reply, query, log, results>>
    BY <2>1 DEF probeVars, checkVars, walkVars
  <2>3. PICK v : SOAAgrees(v)
    BY DEF LookupInv, SOAInv
  <2>4. PICK w : HostAgrees(w)
    BY DEF LookupInv, HostInv
  <2>5. SOAInv'
    BY <2>2, <2>3, SOAKept DEF Of
  <2>6. HostInv'
    BY <2>2, <2>4, HostKept DEF Of, LogOf, Pending
  <2> QED
    BY <2>5, <2>6 DEF LookupInv
<1> QED
  BY <1>1, <1>2, <1>3 DEF Next

LEMMA LookupInit == ASSUME Init PROVE LookupInv
<1> DEFINE v == [h \in Hosts |-> "unknown"]
<1>1. results = <<>> /\ log = {} /\ check = Nil
  BY DEF Init, ProbeInit, ChecksIdle
<1>2. \A c : Of(c) = <<>> /\ LogOf(c) = {} /\ 1..Len(Of(c)) = {}
  BY <1>1, FilterNone DEF Of, LogOf
<1>3. v \in Caches /\ check \notin {"soa", "ns_hostname"} /\ \A h \in Hosts : v[h] # "yes"
  BY <1>1, ChecksAssumption DEF Caches, Checks
<1> HIDE DEF v
<1>4. SOAAgrees(v) /\ HostAgrees(v)
  BY <1>2, <1>3 DEF SOAAgrees, HostAgrees, Found
<1> QED
  BY <1>4 DEF LookupInv, SOAInv, HostInv

\* What several results of a cycle say of one name is the same, even when the
\* deadline passes in between, and a nameserver name is reported as an alias
\* exactly when a server has answered its lookup with a CNAME (soa.go:37-60,
\* ns_hostname.go:31-56, 136-164).
THEOREM LookupTheorem == Spec => [](SameNameSameVerdict /\ AliasesAreFound)
<1>1. Init => VerdictInv /\ LookupInv
  BY VerdictInit, LookupInit
<1>2. CycleType /\ VerdictInv /\ LookupInv /\ [Next]_vars => VerdictInv' /\ LookupInv'
  BY VerdictStep, LookupStep
<1>3. CycleType /\ VerdictInv /\ LookupInv => SameNameSameVerdict /\ AliasesAreFound
  BY SameNames, Aliases DEF CycleType, ZoneType, VerdictInv, LookupInv
<1> QED
  BY <1>1, <1>2, <1>3, CycleTypeInvariant, PTL DEF Spec

-----------------------------------------------------------------------------
(* mx: the first nameserver that answers settles it.                       *)

\* The results that have a metric.
Having(metric) == {r \in ProbeResult : metric \in DOMAIN r.metrics}

LEMMA WithIs ==
    ASSUME CheckType, NEW c, NEW metric
    PROVE  With(c, metric) = Filter(Of(c), Having(metric))
<1> DEFINE K == {r \in ToSet(results) : r.check = c}
           W == {r \in ToSet(results) : r.check = c /\ metric \in DOMAIN r.metrics}
           H == Having(metric)
<1>1. results \in Seq(ProbeResult)
  BY DEF CheckType
<1>2. ToSet(results) \subseteq ProbeResult
  BY <1>1 DEF ToSet
<1>3. W = K \cap H
  BY <1>2 DEF Having
<1>4. Of(c) = Filter(results, K) /\ With(c, metric) = Filter(results, W)
  BY DEF Of, With
<1> HIDE DEF K, W, H
<1>5. Filter(Filter(results, K), H) = Filter(results, K \cap H)
  BY <1>1, FilterTwice
<1>6. With(c, metric) = Filter(Of(c), H)
  BY <1>3, <1>4, <1>5, Zenon
<1> QED
  BY <1>6 DEF H

\* The records and the valid targets that the results of mx tell.
RecordOf == [r \in ProbeResult |->
                [target |-> r.labels.target, preference |-> r.labels.priority]]
TargetOf == [r \in ProbeResult |-> r.labels.target]
Listed(list) == Image(Filter(list, Having("mx_info")), RecordOf)
Validated(list) == Image(Filter(list, Having("mx_syntax_valid")), TargetOf)

\* It is asking,
MXAsks ==
    /\ check = "mx" /\ local.stage = "servers" /\ at <= Len(nameservers)
    /\ Of("mx") = <<>> /\ local.emitted = {}
    /\ LogOf("mx") = IF reply # Nil /\ Answered THEN {[query |-> query, reply |-> reply]}
                     ELSE {}

\* none has answered,
MXFailed ==
    /\ LogOf("mx") = {}
    /\ Len(Of("mx")) = 1 /\ ~Of("mx")[1].ok /\ Of("mx")[1].ip = Last(nameservers).ip
    /\ check = "mx" => local.stage = "servers" /\ at > Len(nameservers)

\* or one has, with the records told and those left.
MXLeft == IF check = "mx" THEN local.left ELSE <<>>

MXTold(e) ==
    /\ LogOf("mx") = {e}
    /\ Len(Of("mx")) > 0 /\ Of("mx")[1].ip = e.query.ns.ip
    /\ \A k \in 1..Len(Of("mx")) : Of("mx")[k].ok
    /\ Listed(Of("mx")) \in Seq(MXRecords) /\ MXLeft \in Seq(MXRecords)
    /\ Listed(Of("mx")) \o MXLeft = e.reply.rrs
    /\ ToSet(Validated(Of("mx"))) = {mx.target : mx \in ToSet(Listed(Of("mx")))}
    /\ IsInjective(Validated(Of("mx")))
    /\ check = "mx" => local.stage = "targets" /\ local.emitted = ToSet(Validated(Of("mx")))

MXInv == "mx" \in ran => MXAsks \/ MXFailed \/ \E e : MXTold(e)

\* A step that leaves what the invariant mentions.
LEMMA MXKept ==
    ASSUME MXInv, Of("mx")' = Of("mx"), LogOf("mx")' = LogOf("mx"),
           "mx" \in ran' => "mx" \in ran /\ UNCHANGED nameservers,
           check' = "mx" => UNCHANGED <<check, at, reply, local>> /\ (reply # Nil => query' = query),
           check' # "mx" /\ "mx" \in ran => MXLeft = <<>> /\ ~MXAsks
    PROVE  MXInv'
<1> SUFFICES ASSUME "mx" \in ran' PROVE (MXAsks \/ MXFailed \/ \E e : MXTold(e))'
  BY DEF MXInv
<1>1. CASE MXAsks
  BY <1>1 DEF MXAsks, Answered
<1>2. CASE MXFailed
  BY <1>2 DEF MXFailed
<1>3. ASSUME NEW e, MXTold(e) PROVE MXTold(e)'
  <2>1. MXLeft' = MXLeft
    BY DEF MXLeft
  <2> QED
    BY <1>3, <2>1 DEF MXTold
<1> QED
  BY <1>1, <1>2, <1>3 DEF MXInv

\* What one more result adds.
LEMMA ListedAppend ==
    ASSUME NEW l \in Seq(ProbeResult), NEW r \in ProbeResult
    PROVE  /\ Listed(Append(l, r)) = IF "mx_info" \in DOMAIN r.metrics
                                     THEN Append(Listed(l), RecordOf[r]) ELSE Listed(l)
           /\ Validated(Append(l, r)) = IF "mx_syntax_valid" \in DOMAIN r.metrics
                                      THEN Append(Validated(l), TargetOf[r]) ELSE Validated(l)
<1> DEFINE V == {RecordOf[q] : q \in ProbeResult}
           W == {TargetOf[q] : q \in ProbeResult}
           f == RecordOf
           g == TargetOf
<1>1. f \in [ProbeResult -> V] /\ g \in [ProbeResult -> W]
  BY DEF RecordOf, TargetOf
<1> HIDE DEF V, W, f, g
<1>2. ASSUME NEW m
      PROVE  /\ Filter(l, Having(m)) \in Seq(ProbeResult)
             /\ m \in DOMAIN r.metrics =>
                   Filter(Append(l, r), Having(m)) = Append(Filter(l, Having(m)), r)
             /\ m \notin DOMAIN r.metrics =>
                   Filter(Append(l, r), Having(m)) = Filter(l, Having(m))
  <2> DEFINE H == Having(m)
  <2>1. r \in H <=> m \in DOMAIN r.metrics
    BY DEF Having
  <2> HIDE DEF H
  <2>2. Filter(l, H) \in Seq(ProbeResult)
    BY FilterKeeps
  <2>3. r \in H => Filter(Append(l, r), H) = Append(Filter(l, H), r)
    BY FilterAppend
  <2>4. r \notin H => Filter(Append(l, r), H) = Filter(l, H)
    BY FilterAppend
  <2> QED
    BY <2>1, <2>2, <2>3, <2>4 DEF H
<1> DEFINE Appends(h) ==
             \A s \in Seq(ProbeResult) : Image(Append(s, r), h) = Append(Image(s, h), h[r])
<1>3. ASSUME NEW X, NEW h \in [ProbeResult -> X] PROVE Appends(h)
  <2>1. ASSUME NEW s \in Seq(ProbeResult)
        PROVE  Image(Append(s, r), h) = Append(Image(s, h), h[r])
    BY ImageAppend
  <2> QED
    BY <2>1
<1> HIDE DEF Appends
<1>4. Appends(f) /\ Appends(g)
  BY <1>1, <1>3
<1>5. "mx_info" \in DOMAIN r.metrics => Listed(Append(l, r)) = Append(Listed(l), f[r])
  BY <1>2, <1>4 DEF Appends, Listed, f
<1>6. "mx_info" \notin DOMAIN r.metrics => Listed(Append(l, r)) = Listed(l)
  BY <1>2, Zenon DEF Listed
<1>7. "mx_syntax_valid" \in DOMAIN r.metrics => Validated(Append(l, r)) = Append(Validated(l), g[r])
  BY <1>2, <1>4 DEF Appends, Validated, g
<1>8. "mx_syntax_valid" \notin DOMAIN r.metrics => Validated(Append(l, r)) = Validated(l)
  BY <1>2, Zenon DEF Validated
<1> QED
  BY <1>5, <1>6, <1>7, <1>8 DEF f, g

LEMMA NothingListed == Listed(<<>>) = <<>> /\ Validated(<<>>) = <<>>
BY FilterNone, ImageNone DEF Listed, Validated

\* A record is handled, with its target if that is new.
LEMMA MXOneMore ==
    ASSUME NEW e, MXTold(e), check = "mx", local.left # <<>>, NEW mx, mx = Head(local.left),
           LogOf("mx")' = LogOf("mx"), check' = check,
           local'.stage = "targets", local'.left = Tail(local.left),
           local'.emitted = local.emitted \cup {mx.target},
           Len(Of("mx")') > 0, Of("mx")'[1] = Of("mx")[1],
           \A k \in 1..Len(Of("mx")') : Of("mx")'[k].ok,
           Listed(Of("mx")') = Append(Listed(Of("mx")), mx),
           Validated(Of("mx")) \in Seq(Hosts),
           Validated(Of("mx")') = IF mx.target \in local.emitted THEN Validated(Of("mx"))
                                ELSE Append(Validated(Of("mx")), mx.target)
    PROVE  MXTold(e)'
<1> DEFINE done == Listed(Of("mx"))
           told == Validated(Of("mx"))
           left == local.left
           more == Append(done, mx)
<1>1. /\ done \in Seq(MXRecords) /\ left \in Seq(MXRecords) /\ done \o left = e.reply.rrs
      /\ ToSet(told) = {m.target : m \in ToSet(done)} /\ IsInjective(told)
      /\ local.emitted = ToSet(told) /\ told \in Seq(Hosts)
  BY DEF MXTold, MXLeft
<1>2. mx \in MXRecords /\ Tail(left) \in Seq(MXRecords)
  BY <1>1
<1>3. mx.target \in Hosts
  BY <1>2 DEF MXRecords
<1>4. more \in Seq(MXRecords) /\ more \o Tail(left) = done \o left
  <2>1. \A s, t \in Seq(MXRecords) : t # <<>> => Append(s, Head(t)) \o Tail(t) = s \o t
    BY HeadMoves
  <2>2. more \in Seq(MXRecords)
    BY <1>1, <1>2
  <2>3. Append(done, Head(left)) \o Tail(left) = done \o left
    BY <1>1, <2>1
  <2> QED
    BY <2>2, <2>3
<1>5. ToSet(more) = ToSet(done) \cup {mx}
  BY <1>1, <1>2, ElementsOfAppend
<1> DEFINE after == Validated(Of("mx")')
           NowTold == /\ ToSet(after) = {m.target : m \in ToSet(more)} /\ IsInjective(after)
                      /\ local'.emitted = ToSet(after)
<1>6. ASSUME mx.target \in local.emitted PROVE NowTold
  <2>1. ToSet(told) = {m.target : m \in ToSet(more)} /\ after = told
    BY <1>1, <1>5, <1>6
  <2>2. local.emitted \cup {mx.target} = local.emitted
    BY <1>6
  <2> HIDE DEF more, done, told, after
  <2> QED
    BY <1>1, <2>1, <2>2
<1>7. ASSUME mx.target \notin local.emitted PROVE NowTold
  <2> DEFINE both == Append(told, mx.target)
  <2>1. ToSet(both) = ToSet(told) \cup {mx.target}
    BY <1>1, <1>3, ElementsOfAppend
  <2>2. IsInjective(both)
    BY <1>1, <1>3, <1>7, InjectiveAppend
  <2>3. after = both
    BY <1>7
  <2> HIDE DEF more, done, both, after
  <2>4. ToSet(both) = {m.target : m \in ToSet(more)}
    BY <1>1, <1>5, <2>1
  <2> HIDE DEF told
  <2> QED
    BY <1>1, <2>1, <2>2, <2>3, <2>4
<1>8. NowTold
  BY <1>6, <1>7
<1>9. /\ Listed(Of("mx")') = more /\ MXLeft' = Tail(left) /\ Of("mx")'[1] = Of("mx")[1]
      /\ Len(Of("mx")') > 0 /\ LogOf("mx")' = LogOf("mx") /\ local'.stage = "targets"
  BY DEF MXLeft
<1> HIDE DEF more
<1> QED
  BY <1>1, <1>2, <1>4, <1>8, <1>9 DEF MXTold

\* The nameserver fails: the next one is asked, or the last failure reported.
LEMMA MXFailsKeeps ==
    ASSUME ZoneType, MXInv, Acts("mx"), MXFails
    PROVE  MXInv'
<1> DEFINE r == [FailedResult(Current) EXCEPT !.host = NoHost]
           new == IF at < Len(nameservers) THEN <<>> ELSE <<r>>
<1>1. /\ check = "mx" /\ reply # Nil /\ query.type = "MX" /\ ~Answered
      /\ Handled(new, at + 1, local)
  BY DEF MXFails, Replied
<1>2. /\ CheckType /\ DiscoveryInv /\ check # Nil /\ check \in Checks /\ Len(nameservers) \in Nat
      /\ LocalFits(local, at) /\ local.stage \in {"servers", "targets"} /\ "mx" \in ran
  BY <1>1, CheckIsFit, ChecksAssumption DEF ZoneType, Checks, StagesOf
<1>3. local.stage = "servers"
  BY <1>1, <1>2, StageOfReply
<1>4. at \in 1..Len(nameservers) /\ Current \in Server
  BY <1>1, <1>2, <1>3, TurnFits
<1>5. MXAsks /\ LogOf("mx") = {}
  <2>1. MXAsks
    BY <1>1, <1>2, <1>3, <1>4 DEF MXInv, MXFailed, MXTold
  <2> QED
    BY <1>1, <2>1 DEF MXAsks
<1>6. r.ok = FALSE /\ r.ip = Current.ip
  BY DEF FailedResult, Result
<1> HIDE DEF r
<1>7. CASE at < Len(nameservers)
  <2>1. Handled(<<>>, at + 1, local)
    BY <1>1, <1>7
  <2>2. /\ Of("mx")' = Of("mx") /\ at' = at + 1 /\ local' = local /\ reply' = Nil
        /\ UNCHANGED <<check, log, nameservers>>
    BY <2>1, ActsAppendNone
  <2>3. MXAsks'
    BY <1>2, <1>3, <1>4, <1>5, <1>7, <2>2 DEF MXAsks, LogOf
  <2> QED
    BY <2>3 DEF MXInv
<1>8. CASE ~(at < Len(nameservers))
  <2>1. Handled(<<r>>, at + 1, local) /\ at = Len(nameservers)
    BY <1>1, <1>2, <1>4, <1>8
  <2>2. /\ Of("mx")' = Append(Of("mx"), r) /\ at' = at + 1 /\ local' = local
        /\ UNCHANGED <<check, log, nameservers>>
    BY <2>1, ActsAppendOne
  <2>3. Of("mx")' = <<r>>
    <3>1. Of("mx") = <<>> /\ Append(<<>>, r) = <<r>>
      BY <1>5 DEF MXAsks
    <3> QED
      BY <2>2, <3>1
  <2>4. Last(nameservers) = Current
    BY <2>1 DEF Last, Current
  <2>5. Len(<<r>>) = 1 /\ <<r>>[1] = r
    OBVIOUS
  <2>6. MXFailed'
    BY <1>2, <1>3, <1>4, <1>5, <1>6, <2>1, <2>2, <2>3, <2>4, <2>5 DEF MXFailed, LogOf
  <2> QED
    BY <2>6 DEF MXInv
<1> QED
  BY <1>7, <1>8

\* It answers: the records of its reply are all left.
LEMMA MXAnswerKeeps ==
    ASSUME ZoneType, LogInv, MXInv, Acts("mx"), MXAnswer
    PROVE  MXInv'
<1> DEFINE r == Result(NoHost, Current.ip, TRUE, FALSE)
           l == [local EXCEPT !.stage = "targets", !.left = reply.rrs]
           e == [query |-> query, reply |-> reply]
<1>1. /\ check = "mx" /\ reply # Nil /\ query.type = "MX" /\ Answered
      /\ Handled(<<r>>, Len(nameservers) + 1, l)
  BY DEF MXAnswer, Replied
<1>2. /\ CheckType /\ DiscoveryInv /\ check # Nil /\ check \in Checks /\ Len(nameservers) \in Nat
      /\ LocalFits(local, at) /\ local \in LocalsType /\ local.stage \in {"servers", "targets"}
      /\ "mx" \in ran
  BY <1>1, CheckIsFit, ChecksAssumption DEF ZoneType, Checks, StagesOf
<1>3. local.stage = "servers"
  BY <1>1, <1>2, StageOfReply
<1>4. /\ at \in 1..Len(nameservers) /\ Current \in Server
      /\ query = Question(QueryType, Name, Current)
  BY <1>1, <1>2, <1>3, TurnFits
<1>5. MXAsks
  BY <1>1, <1>2, <1>3, <1>4 DEF MXInv, MXFailed, MXTold
<1>6. LogOf("mx") = {e} /\ Of("mx") = <<>> /\ local.emitted = {}
  BY <1>1, <1>5 DEF MXAsks
<1>7. /\ r.ok = TRUE /\ r.ip = e.query.ns.ip /\ DOMAIN r.metrics = {}
  BY <1>4 DEF Result, Question
<1>8. reply.rrs \in Seq(MXRecords)
  BY <1>1, <1>2, ReplyRead DEF Records, MXRecords
<1>9. l.stage = "targets" /\ l.left = reply.rrs /\ l.emitted = {}
  BY <1>2, <1>6 DEF LocalsType
<1> HIDE DEF r, l, e
<1>10. /\ Of("mx")' = Append(Of("mx"), r) /\ local' = l /\ NewFit(<<r>>)
       /\ UNCHANGED <<check, log, nameservers>>
  BY <1>1, ActsAppendOne
<1>11. Of("mx")' = Append(<<>>, r) /\ Of("mx")' = <<r>> /\ r \in ProbeResult
  <2>1. \A k \in 1..Len(<<r>>) : <<r>>[k] \in ProbeResult
    BY <1>10 DEF NewFit
  <2>2. r \in ProbeResult
    BY <2>1
  <2> QED
    BY <1>6, <1>10, <2>2
<1>12. Listed(Of("mx")') = <<>> /\ Validated(Of("mx")') = <<>>
  <2>1. <<>> \in Seq(ProbeResult)
    OBVIOUS
  <2> QED
    BY <1>7, <1>11, <2>1, ListedAppend, NothingListed
<1>13. Len(<<r>>) > 0 /\ <<r>>[1] = r /\ \A k \in 1..Len(<<r>>) : <<r>>[k] = r
  OBVIOUS
<1>14. IsInjective(<<>>)
  BY DEF IsInjective
<1>15. <<>> \o reply.rrs = reply.rrs /\ <<>> \in Seq(MXRecords) /\ e.reply.rrs = reply.rrs
  BY <1>8 DEF e
<1>16. PICK f : f = e
  OBVIOUS
<1>17. MXTold(f)'
  <2>1. MXLeft' = reply.rrs /\ LogOf("mx")' = {f} /\ ToSet(<<>>) = {}
    BY <1>1, <1>6, <1>9, <1>10, <1>16, ElementsOfNone DEF MXLeft, LogOf
  <2>2. local'.stage = "targets" /\ local'.emitted = {}
    BY <1>9, <1>10
  <2>3. /\ Of("mx")'[1] = r /\ Len(Of("mx")') > 0
        /\ \A k \in 1..Len(Of("mx")') : Of("mx")'[k].ok
    BY <1>7, <1>11, <1>13
  <2> QED
    BY <1>7, <1>8, <1>12, <1>14, <1>15, <1>16, <2>1, <2>2, <2>3 DEF MXTold
<1> QED
  BY <1>17 DEF MXInv

\* The metrics that the results of a record have.
ValidMetrics ==
    {[mx_syntax_valid |-> 1]}
    \cup [mx_resolves : {0, 1}, mx_is_cname : {0, 1}, mx_syntax_valid : {0, 1}]

LEMMA MXTargetSays ==
    ASSUME MXTarget
    PROVE  LET mx == Head(local.left)
               info == MXResult([target |-> mx.target, priority |-> mx.preference],
                                [mx_info |-> 1])
               l == [local EXCEPT !.left = Tail(@), !.emitted = @ \cup {mx.target}]
           IN  \/ mx.target \in local.emitted /\ Handled(<<info>>, at, l)
               \/ /\ mx.target \notin local.emitted
                  /\ \E m \in ValidMetrics :
                        Handled(<<info, MXResult([target |-> mx.target], m)>>, at, l)
<1> DEFINE mx == Head(local.left)
           info == MXResult([target |-> mx.target, priority |-> mx.preference],
                            [mx_info |-> 1])
           l == [local EXCEPT !.left = Tail(@), !.emitted = @ \cup {mx.target}]
           next(new) == Handled(new, at, l)
           looked(a, b) == [mx_resolves |-> a, mx_is_cname |-> b,
                            mx_syntax_valid |-> OneIf(mx.target \in ValidNames)]
           null == [mx_syntax_valid |-> 1]
           valid(m) == MXResult([target |-> mx.target], m)
<1>1. \/ mx.target \in local.emitted /\ next(<<info>>)
      \/ mx.target \notin local.emitted /\ next(<<info, valid(null)>>)
      \/ /\ mx.target \notin local.emitted
         /\ \E a, b \in {0, 1} : next(<<info, valid(looked(a, b))>>)
  BY DEF MXTarget
<1>2. null \in ValidMetrics /\ \A a, b \in {0, 1} : looked(a, b) \in ValidMetrics
  BY DEF ValidMetrics, OneIf
<1> HIDE DEF info, l, null, looked, valid, next
<1>3. \/ mx.target \in local.emitted /\ next(<<info>>)
      \/ mx.target \notin local.emitted /\ \E m \in ValidMetrics : next(<<info, valid(m)>>)
  BY <1>1, <1>2
<1> QED
  BY <1>3 DEF next, info, l, valid

\* It handles a record.
LEMMA MXTargetKeeps ==
    ASSUME ZoneType, MXInv, Acts("mx"), MXTarget
    PROVE  MXInv'
<1> DEFINE mx == Head(local.left)
           both == [target |-> mx.target, priority |-> mx.preference]
           info == MXResult(both, [mx_info |-> 1])
           l == [local EXCEPT !.left = Tail(@), !.emitted = @ \cup {mx.target}]
           valid(m) == MXResult([target |-> mx.target], m)
           mine == Of("mx")
<1>1. /\ check = "mx" /\ local.left # <<>> /\ CheckType /\ DiscoveryInv
      /\ check # Nil /\ check \in Checks
  BY ChecksAssumption DEF MXTarget, ZoneType, Checks
<1>2. LocalFits(local, at) /\ local \in LocalsType /\ local.stage \in {"servers", "targets"} /\ "mx" \in ran
  BY <1>1, CheckIsFit DEF StagesOf
<1>3. local.stage = "targets" /\ local.left \in Seq(MXRecords)
  BY <1>1, <1>2 DEF LocalFits
<1>4. PICK e : MXTold(e)
  BY <1>1, <1>2, <1>3 DEF MXInv, MXAsks, MXFailed
<1>5. mx \in MXRecords /\ mx.target \in Hosts /\ mx.preference \in Nat
      /\ mx = [target |-> mx.target, preference |-> mx.preference]
  <2>1. mx \in MXRecords
    BY <1>1, <1>3
  <2> QED
    BY <2>1 DEF MXRecords
<1>6. /\ l.stage = "targets" /\ l.left = Tail(local.left)
      /\ l.emitted = local.emitted \cup {mx.target}
  BY <1>2, <1>3 DEF LocalsType
<1>7. mine \in Seq(ProbeResult) /\ Len(mine) > 0 /\ \A k \in 1..Len(mine) : mine[k].ok
  BY <1>1, <1>4, OfCheck DEF MXTold
<1>8. /\ info.labels = both /\ info.metrics = [mx_info |-> 1]
      /\ \A m : valid(m).labels = [target |-> mx.target] /\ valid(m).metrics = m
      /\ info.ok /\ \A m : valid(m).ok
  BY DEF MXResult, Result
<1>9. /\ both.target = mx.target /\ both.priority = mx.preference
      /\ DOMAIN [mx_info |-> 1] = {"mx_info"}
      /\ \A m \in ValidMetrics : "mx_syntax_valid" \in DOMAIN m /\ "mx_info" \notin DOMAIN m
  BY DEF ValidMetrics
<1>10. Validated(mine) \in Seq(Hosts)
  <2>1. Validated(mine) \in Seq({TargetOf[q] : q \in ProbeResult})
    <3> DEFINE V == {TargetOf[q] : q \in ProbeResult}
               f == TargetOf
               s == Filter(mine, Having("mx_syntax_valid"))
    <3>1. f \in [ProbeResult -> V] /\ s \in Seq(ProbeResult)
      BY <1>7, FilterKeeps DEF TargetOf
    <3> HIDE DEF V, f, s
    <3>2. Image(s, f) \in Seq(V)
      BY <3>1, ImageKeeps
    <3> QED
      BY <3>2 DEF Validated, V, f, s
  <2>2. ToSet(Validated(mine)) \subseteq Hosts
    <3>1. ToSet(Validated(mine)) = {m.target : m \in ToSet(Listed(mine))}
      BY <1>4 DEF MXTold
    <3>2. Listed(mine) \in Seq(MXRecords)
      BY <1>4 DEF MXTold
    <3>3. ToSet(Listed(mine)) \subseteq MXRecords
      BY <3>2 DEF ToSet
    <3> QED
      BY <3>1, <3>3 DEF MXRecords
  <2>3. \A k \in 1..Len(Validated(mine)) : Validated(mine)[k] \in Hosts
    BY <2>1, <2>2 DEF ToSet
  <2> QED
    BY <2>1, <2>3
<1> HIDE DEF mx, both, info, l, valid, mine
<1>11. ASSUME info \in ProbeResult
       PROVE  /\ Listed(Append(mine, info)) = Append(Listed(mine), mx)
              /\ Validated(Append(mine, info)) = Validated(mine)
  <2>1. RecordOf[info] = mx
    BY <1>5, <1>8, <1>9, <1>11 DEF RecordOf
  <2>2. "mx_info" \in DOMAIN info.metrics /\ "mx_syntax_valid" \notin DOMAIN info.metrics
    BY <1>8, <1>9
  <2> QED
    BY <1>7, <1>11, <2>1, <2>2, ListedAppend
<1>12. CASE mx.target \in local.emitted /\ Handled(<<info>>, at, l)
  <2>1. /\ Of("mx")' = Append(mine, info) /\ local' = l /\ NewFit(<<info>>)
        /\ UNCHANGED <<check, log>>
    BY <1>12, ActsAppendOne DEF mine
  <2>2. info \in ProbeResult
    <3>1. \A k \in 1..Len(<<info>>) : <<info>>[k] \in ProbeResult
      BY <2>1 DEF NewFit
    <3> QED
      BY <3>1
  <2>3. LogOf("mx")' = LogOf("mx")
    BY <2>1 DEF LogOf
  <2>4. /\ Len(Append(mine, info)) > 0 /\ Append(mine, info)[1] = mine[1]
        /\ \A k \in 1..Len(Append(mine, info)) : Append(mine, info)[k].ok
    BY <1>7, <1>8, <2>2
  <2>5. MXTold(e)'
    BY <1>1, <1>4, <1>6, <1>10, <1>11, <1>12, <2>1, <2>2, <2>3, <2>4, MXOneMore DEF mine, mx
  <2> QED
    BY <2>5 DEF MXInv
<1>13. ASSUME mx.target \notin local.emitted, NEW m \in ValidMetrics,
              Handled(<<info, valid(m)>>, at, l)
       PROVE  MXInv'
  <2> DEFINE v == valid(m)
             new == <<info, v>>
             one == Append(mine, info)
             two == Append(one, v)
  <2>1. new \in Seq({info, v}) /\ Handled(new, at, l)
    BY <1>13
  <2> HIDE DEF v, new
  <2>2. /\ Of("mx")' = mine \o new /\ local' = l /\ NewFit(new)
        /\ UNCHANGED <<check, log>>
    BY <2>1, ActsAppend DEF mine
  <2>3. info \in ProbeResult /\ v \in ProbeResult
    <3>1. \A k \in 1..Len(<<info, v>>) : <<info, v>>[k] \in ProbeResult
      BY <2>2 DEF NewFit, new
    <3> QED
      BY <3>1
  <2>4. mine \o new = two
    BY <1>7, <2>3 DEF new
  <2>5. /\ one \in Seq(ProbeResult) /\ Len(two) > 0 /\ two[1] = mine[1]
        /\ \A k \in 1..Len(two) : two[k].ok
    BY <1>7, <1>8, <2>3 DEF v
  <2>6. /\ v.labels = [target |-> mx.target] /\ "mx_info" \notin DOMAIN v.metrics
        /\ "mx_syntax_valid" \in DOMAIN v.metrics
    BY <1>8, <1>9 DEF v
  <2>7. TargetOf[v] = mx.target
    BY <2>3, <2>6 DEF TargetOf
  <2>8. Listed(one) = Append(Listed(mine), mx) /\ Validated(one) = Validated(mine)
    BY <1>11, <2>3
  <2> HIDE DEF one
  <2>9. Listed(two) = Append(Listed(mine), mx) /\ Validated(two) = Append(Validated(mine), mx.target)
    BY <2>3, <2>5, <2>6, <2>7, <2>8, ListedAppend
  <2> HIDE DEF two
  <2>10. LogOf("mx")' = LogOf("mx") /\ Of("mx")' = two
    BY <2>2, <2>4 DEF LogOf
  <2>11. MXTold(e)'
    BY <1>1, <1>4, <1>6, <1>10, <1>13, <2>2, <2>5, <2>9, <2>10, MXOneMore DEF mine, mx
  <2> QED
    BY <2>11 DEF MXInv
<1> QED
  BY <1>12, <1>13, MXTargetSays DEF mx, both, info, l, valid

LEMMA MXStep ==
    ASSUME ZoneType, LogInv, MXInv, ProbeZone \/ Deadline
    PROVE  MXInv'
<1>1. "mx" \in Checks /\ "mx" # Nil /\ CheckType /\ DiscoveryInv
  BY ChecksAssumption DEF Checks, ZoneType
<1>2. check = "mx" => LocalFits(local, at) /\ local.stage \in {"servers", "targets"}
                      /\ "mx" \in ran /\ Len(nameservers) \in Nat
  BY <1>1, CheckIsFit DEF StagesOf, CheckType
<1>3. CASE Apart("mx")
  <2>1. /\ check # "mx" /\ check' # "mx" /\ ("mx" \in ran' <=> "mx" \in ran)
        /\ Of("mx")' = Of("mx") /\ LogOf("mx")' = LogOf("mx")
        /\ "mx" \in ran => UNCHANGED nameservers
    BY <1>3 DEF Apart
  <2> QED
    BY <2>1, MXKept DEF MXLeft, MXAsks
<1>4. CASE Starts("mx")
  <2>1. /\ "mx" \notin ran /\ check' = "mx" /\ at' = 1 /\ local' = Locals
        /\ Of("mx")' = Of("mx") /\ LogOf("mx")' = LogOf("mx") /\ nameservers # <<>>
        /\ reply' = reply /\ UNCHANGED nameservers /\ check = Nil
    BY <1>4 DEF Starts, StartCheck, Of, LogOf, discoveryVars
  <2>2. Of("mx") = <<>> /\ LogOf("mx") = {}
    BY <2>1, NotRun
  <2>3. reply = Nil
    BY <1>1, <2>1 DEF CheckType, ExchangeType
  <2>4. 1 <= Len(nameservers)
    BY <1>1, <2>1 DEF DiscoveryInv, DiscoveryType
  <2>5. MXAsks'
    BY <2>1, <2>2, <2>3, <2>4 DEF MXAsks, Locals
  <2> QED
    BY <2>5 DEF MXInv
<1>5. CASE Ends("mx")
  <2>1. /\ Of("mx")' = Of("mx") /\ LogOf("mx")' = LogOf("mx") /\ check' = Nil /\ check = "mx"
        /\ UNCHANGED <<ran, nameservers>> /\ at > Len(nameservers) /\ local.left = <<>>
    BY <1>5 DEF Ends, EndCheck, Of, LogOf, discoveryVars
  <2>2. at \in Nat /\ Len(nameservers) \in Nat
    BY <1>2, <2>1 DEF LocalFits
  <2>3. ~MXAsks /\ MXLeft = <<>>
    BY <2>1, <2>2 DEF MXAsks, MXLeft
  <2> QED
    BY <1>1, <2>1, <2>3, MXKept
<1>6. CASE Steady("mx")
  <2>1. /\ Of("mx")' = Of("mx") /\ LogOf("mx")' = LogOf("mx") /\ check = "mx"
        /\ UNCHANGED <<ran, check, at, reply, local, nameservers>>
        /\ reply # Nil => query' = query
    BY <1>1, <1>6 DEF Steady, Of, LogOf, CheckType, ExchangeType
  <2> QED
    BY <2>1, MXKept
<1>7. CASE Hears("mx")
  <2>1. PICK r \in Answers[query.type] \cup Silences : Returns(r)
    BY <1>7 DEF Hears
  <2>2. /\ check = "mx" /\ query # Nil /\ reply = Nil /\ reply' = r
        /\ UNCHANGED <<ran, check, at, query, local, results, nameservers>>
        /\ log' = IF r.status = "ok" THEN log \cup {[query |-> query, reply |-> r]} ELSE log
    BY <1>7, <2>1 DEF Hears, Returns, discoveryVars
  <2>3. query.check = "mx" /\ query.type = "MX"
    BY <1>1, <2>2, AskedByCheck DEF TypesOf
  <2>4. r # Nil
    BY <2>1, <2>3, OnlyAnswersAreOk DEF QueryTypes
  <2>5. local.stage = "servers" /\ at <= Len(nameservers)
    BY <1>1, <1>2, <2>2 DEF CheckType, ExchangeType, QueryFits
  <2>6. MXAsks /\ LogOf("mx") = {}
    <3>1. at \in Nat /\ Len(nameservers) \in Nat
      BY <1>2, <2>2 DEF LocalFits
    <3>2. MXAsks
      BY <1>2, <2>2, <2>5, <3>1 DEF MXInv, MXFailed, MXTold
    <3> QED
      BY <2>2, <3>2 DEF MXAsks
  <2>7. LogOf("mx")' = IF r.status = "ok" THEN {[query |-> query, reply |-> r]} ELSE {}
    BY <2>2, <2>3, <2>6 DEF LogOf
  <2>8. Of("mx")' = Of("mx")
    BY <2>2 DEF Of
  <2>9. MXAsks'
    BY <2>2, <2>4, <2>6, <2>7, <2>8 DEF MXAsks, Answered
  <2> QED
    BY <2>9 DEF MXInv
<1>8. CASE Acts("mx")
  <2>1. MXFails \/ MXAnswer \/ MXTarget
    BY <1>1, <1>8, OwnSteps DEF Acts
  <2> QED
    BY <1>8, <2>1, MXFailsKeeps, MXAnswerKeeps, MXTargetKeeps
<1> QED
  BY <1>1, <1>3, <1>4, <1>5, <1>6, <1>7, <1>8, Moves

\* What it comes to when mx has run.
LEMMA MXTells ==
    ASSUME ZoneType, LogInv, MXInv
    PROVE  MXFailoverIsExhaustive
<1> DEFINE heard == LogOf("mx")
           settling == {e \in heard : e.reply.rcode \in {"NOERROR", "NXDOMAIN"}}
           infos == With("mx", "mx_info")
           valid == With("mx", "mx_syntax_valid")
           mine == Of("mx")
           first == Head(mine)
           pairs == [k \in DOMAIN infos |-> [target |-> infos[k].labels.target,
                                             preference |-> infos[k].labels.priority]]
           targets == [k \in DOMAIN valid |-> valid[k].labels.target]
<1> DEFINE Reported(e) ==
              /\ first.ip = e.query.ns.ip
              /\ pairs = e.reply.rrs
              /\ {r.labels.target : r \in ToSet(valid)} =
                    {mx.target : mx \in ToSet(e.reply.rrs)}
              /\ IsInjective(targets)
<1> SUFFICES ASSUME Ran("mx")
             PROVE  /\ first.ok => heard # {}
                    /\ ~first.ok => settling = {} /\ Len(mine) = 1
                                    /\ first.ip = Last(nameservers).ip
                    /\ \A e \in settling : Reported(e)
  BY Zenon DEF MXFailoverIsExhaustive, LogOf
<1> SUFFICES /\ first.ok <=> heard # {}
             /\ ~first.ok => Len(mine) = 1 /\ first.ip = Last(nameservers).ip
             /\ \A e \in heard : Reported(e)
  <2> HIDE DEF heard, Reported, first, mine
  <2> QED
    OBVIOUS
<1>1. "mx" \in ran /\ check # "mx" /\ CheckType
  BY RanToTheEnd, ChecksAssumption DEF Checks, ZoneType
<1>2. MXFailed \/ \E e : MXTold(e)
  BY <1>1 DEF MXInv, MXAsks
<1>3. /\ infos = Filter(mine, Having("mx_info")) /\ valid = Filter(mine, Having("mx_syntax_valid"))
      /\ mine \in Seq(ProbeResult)
  BY <1>1, WithIs, OfCheck
<1>4. infos \in Seq(ProbeResult) /\ valid \in Seq(ProbeResult)
  BY <1>3, FilterKeeps
<1>5. pairs = Listed(mine)
  <2>1. \A k \in DOMAIN infos : RecordOf[infos[k]] =
           [target |-> infos[k].labels.target, preference |-> infos[k].labels.priority]
    BY <1>4 DEF RecordOf
  <2> HIDE DEF infos
  <2> QED
    BY <1>3, <2>1 DEF Listed, Image
<1>6. targets = Validated(mine)
  <2>1. \A k \in DOMAIN valid : TargetOf[valid[k]] = valid[k].labels.target
    BY <1>4 DEF TargetOf
  <2> HIDE DEF valid
  <2> QED
    BY <1>3, <2>1 DEF Validated, Image
<1>7. {r.labels.target : r \in ToSet(valid)} = ToSet(targets)
  BY <1>4 DEF ToSet
<1>8. Head(mine) = mine[1]
  BY <1>3
<1> HIDE DEF heard, infos, valid, mine, pairs, targets
<1>9. CASE MXFailed
  BY <1>8, <1>9 DEF MXFailed, heard, mine
<1>10. ASSUME NEW e, MXTold(e) PROVE heard = {e} /\ first.ok /\ first.ip = e.query.ns.ip
                                   /\ pairs = e.reply.rrs
                                   /\ ToSet(targets) = {mx.target : mx \in ToSet(e.reply.rrs)}
                                   /\ IsInjective(targets)
  <2>1. Listed(Of("mx")) \o <<>> = e.reply.rrs /\ Listed(Of("mx")) \in Seq(MXRecords)
    BY <1>1, <1>10 DEF MXTold, MXLeft
  <2>2. Listed(Of("mx")) = e.reply.rrs
    BY <2>1
  <2> QED
    BY <1>5, <1>6, <1>8, <1>10, <2>2 DEF MXTold, heard, mine
<1>11. CASE \E e : MXTold(e)
  <2>1. PICK e : MXTold(e)
    BY <1>11
  <2>2. /\ heard = {e} /\ first.ok /\ first.ip = e.query.ns.ip /\ pairs = e.reply.rrs
        /\ ToSet(targets) = {mx.target : mx \in ToSet(e.reply.rrs)} /\ IsInjective(targets)
    BY <1>10, <2>1
  <2> HIDE DEF first
  <2> QED
    BY <1>7, <2>2
<1> QED
  BY <1>2, <1>9, <1>11

LEMMA MXCycleStep ==
    ASSUME CycleType, VerdictInv, MXInv, [Next]_vars
    PROVE  MXInv'
<1>1. CASE GoroutineStep \/ DeadlinePasses
  BY <1>1, MXStep DEF GoroutineStep, DeadlinePasses, CycleType, VerdictInv
<1>2. CASE ZoneReturns
  BY <1>2, AllGone, ChecksAssumption DEF CycleType, MXInv, Checks
<1>3. CASE (\E g \in DOMAIN CfgZones : OtherReturns(g)) \/ Publishing \/ UNCHANGED vars
  <2>1. UNCHANGED probeVars
    BY <1>3 DEF OtherReturns, Publishing, vars
  <2>2. UNCHANGED <<nameservers, check, at, local, reply, query, ran, log, results>>
    BY <2>1 DEF probeVars, checkVars, discoveryVars
  <2>3. "mx" \in ran /\ check # "mx" => MXLeft = <<>> /\ ~MXAsks
    BY DEF MXLeft, MXAsks
  <2> QED
    BY <2>2, <2>3, MXKept DEF Of, LogOf
<1> QED
  BY <1>1, <1>2, <1>3 DEF Next

\* mx fails only when no nameserver has given an answer that settles whether
\* the zone has MX records, with the failure of the last. The answer that
\* settles it becomes the results: its records, every one of them and in order,
\* with one verdict for each target (mx.go:35-115).
THEOREM FailoverTheorem == Spec => []MXFailoverIsExhaustive
<1>1. Init => VerdictInv /\ MXInv
  BY VerdictInit DEF Init, ProbeInit, ChecksIdle, MXInv
<1>2. CycleType /\ VerdictInv /\ MXInv /\ [Next]_vars => VerdictInv' /\ MXInv'
  BY VerdictStep, MXCycleStep
<1>3. CycleType /\ VerdictInv /\ MXInv => MXFailoverIsExhaustive
  BY MXTells DEF CycleType, VerdictInv
<1> QED
  BY <1>1, <1>2, <1>3, CycleTypeInvariant, PTL DEF Spec

-----------------------------------------------------------------------------
(* email_auth: what it says of SPF and of DMARC is read off one answer.    *)

PresenceOf(name) == IF name = "zone" THEN "spf_present" ELSE "dmarc_present"
Version(name) == IF name = "zone" THEN "spf1" ELSE "dmarc1"

\* The result that says whether there is a record.
Base(name) == Filter(Of("email_auth"), Having(PresenceOf(name)))

\* The exchanges that settle it.
Settling(name) ==
    {e \in LogOf("email_auth") : e.query.name = name
                                 /\ e.reply.rcode \in {"NOERROR", "NXDOMAIN"}}

HasRecord(rrs, name) == \E txt \in ToSet(rrs) : txt.version = Version(name)

Quiet(name) == Base(name) = <<>> /\ Settling(name) = {}

Asks(name) ==
    /\ Base(name) = <<>>
    /\ Settling(name) = IF reply # Nil /\ Authoritative
                        THEN {[query |-> query, reply |-> reply]} ELSE {}

Says(name, e) ==
    /\ Settling(name) = {e} /\ Len(Base(name)) = 1
    /\ Base(name)[1].metrics[PresenceOf(name)] = OneIf(HasRecord(e.reply.rrs, name))

Settled(name) == Quiet(name) \/ \E e : Says(name, e)

\* It asks for SPF, then for DMARC, then is through.
EmailSPF ==
    check = "email_auth" /\ local.stage = "servers" /\ Asks("zone") /\ Quiet("_dmarc")
EmailDMARC ==
    /\ check = "email_auth" /\ local.stage = "dmarc" /\ at <= Len(nameservers)
    /\ Settled("zone") /\ Asks("_dmarc")
EmailDone ==
    /\ check = "email_auth" => local.stage = "dmarc" /\ at > Len(nameservers)
    /\ Settled("zone") /\ Settled("_dmarc")

EmailInv == "email_auth" \in ran => EmailSPF \/ EmailDMARC \/ EmailDone

\* A result about the zone, and what is in one of its metrics.
LEMMA MetricsOf ==
    ASSUME NEW labels, NEW metrics, NEW m
    PROVE  /\ MXResult(labels, metrics).metrics = metrics
           /\ m \notin DOMAIN metrics => MXResult(labels, metrics) \notin Having(m)
<1>1. MXResult(labels, metrics).metrics = metrics
  BY DEF MXResult, Result
<1> QED
  BY <1>1 DEF Having

LEMMA Present ==
    ASSUME NEW rrs \in Seq(TXTRecord), NEW version
    PROVE  Versions(rrs, version) # <<>> <=> \E txt \in ToSet(rrs) : txt.version = version
<1> DEFINE K == {txt \in ToSet(rrs) : txt.version = version}
<1>1. /\ Filter(rrs, K) \in Seq(TXTRecord)
      /\ ToSet(Filter(rrs, K)) = ToSet(rrs) \cap K
  BY FilterKeeps
<1>2. Versions(rrs, version) = Filter(rrs, K)
  BY DEF Versions
<1>3. K = ToSet(rrs) \cap K
  OBVIOUS
<1>4. K # {} <=> \E txt \in ToSet(rrs) : txt.version = version
  OBVIOUS
<1> DEFINE v == Versions(rrs, version)
<1> HIDE DEF K, v
<1>5. v \in Seq(TXTRecord) /\ ToSet(v) = K
  BY <1>1, <1>2, <1>3 DEF v
<1>6. v # <<>> <=> ToSet(v) # {}
  <2>1. v = <<>> => ToSet(v) = {}
    BY ElementsOfNone
  <2>2. v # <<>> => v[1] \in ToSet(v)
    <3>1. v # <<>> => 1 \in DOMAIN v
      BY <1>5
    <3> QED
      BY <3>1 DEF ToSet
  <2> QED
    BY <2>1, <2>2
<1> QED
  BY <1>4, <1>5, <1>6 DEF v

\* What is appended for SPF says whether there is a record, and nothing of
\* DMARC,
LEMMA SPFSays ==
    ASSUME check \in Checks, check \in ran, NEW rrs \in Seq(TXTRecord),
           NEW lookups \in LookupCounts
    PROVE  \E r : /\ r.metrics["spf_present"] = OneIf(HasRecord(rrs, "zone"))
                  /\ Filter(SPFResults(rrs, lookups), Having("spf_present")) = <<r>>
                  /\ Filter(SPFResults(rrs, lookups), Having("dmarc_present")) = <<>>
<1> DEFINE spf == Versions(rrs, "spf1")
           single == Len(spf) = 1
           valid == single /\ ~Malformed(spf[1])
           counts == [spf_present |-> OneIf(spf # <<>>), spf_record_count |-> Len(spf),
                      spf_valid |-> OneIf(valid)]
           listed == [spf_record |-> 1]
           terminal == [spf_terminal_all |-> 1]
           m1 == MXResult(<<>>, counts)
           m2 == MXResult([record |-> spf], listed)
           m3 == MXResult([qualifier |-> TerminalAll(spf[1])], terminal)
           m4 == MXResult(<<>>, lookups)
           r2 == IF spf = <<>> THEN <<>> ELSE <<m2>>
           r3 == IF single THEN <<m3>> ELSE <<>>
           r4 == IF valid THEN <<m4>> ELSE <<>>
           new == SPFResults(rrs, lookups)
           U == {m1, m2, m3, m4}
           M == {"spf_present", "dmarc_present"}
<1>1. new = <<m1>> \o r2 \o r3 \o r4
  BY DEF SPFResults, EmailResult
<1>2. NewFit(new)
  BY SPFResultsFit
<1>3. counts["spf_present"] = OneIf(HasRecord(rrs, "zone"))
  <2>1. spf # <<>> <=> HasRecord(rrs, "zone")
    BY Present DEF HasRecord, Version
  <2> QED
    BY <2>1 DEF OneIf
<1>4. "spf_present" \in DOMAIN counts /\ "dmarc_present" \notin DOMAIN counts
  OBVIOUS
<1>5. \A m \in M : m \notin DOMAIN listed /\ m \notin DOMAIN terminal /\ m \notin DOMAIN lookups
  BY DEF LookupCounts
<1> HIDE DEF counts, listed, terminal, single, valid
<1>6. /\ m1.metrics = counts /\ m1 \notin Having("dmarc_present")
      /\ \A m \in M : m2 \notin Having(m) /\ m3 \notin Having(m) /\ m4 \notin Having(m)
  BY <1>4, <1>5, MetricsOf
<1>7. /\ m1 \in U /\ m2 \in U /\ m3 \in U /\ m4 \in U
      /\ (r2 = <<>> \/ r2 = <<m2>>) /\ (r3 = <<>> \/ r3 = <<m3>>) /\ (r4 = <<>> \/ r4 = <<m4>>)
  OBVIOUS
<1> HIDE DEF m1, m2, m3, m4, r2, r3, r4, U, new
<1>8. ASSUME NEW m \in M
      PROVE  /\ r2 \in Seq(U) /\ ToSet(r2) \cap Having(m) = {}
             /\ r3 \in Seq(U) /\ ToSet(r3) \cap Having(m) = {}
             /\ r4 \in Seq(U) /\ ToSet(r4) \cap Having(m) = {}
  <2> DEFINE H == Having(m)
  <2>1. m2 \notin H /\ m3 \notin H /\ m4 \notin H
    BY <1>6
  <2> HIDE DEF H
  <2>2. r2 \in Seq(U) /\ ToSet(r2) \cap H = {}
    BY <1>7, <2>1, Maybe
  <2>3. r3 \in Seq(U) /\ ToSet(r3) \cap H = {}
    BY <1>7, <2>1, Maybe
  <2>4. r4 \in Seq(U) /\ ToSet(r4) \cap H = {}
    BY <1>7, <2>1, Maybe
  <2> QED
    BY <2>2, <2>3, <2>4 DEF H
<1>9. ASSUME NEW m \in M
      PROVE  Filter(new, Having(m)) = IF m1 \in Having(m) THEN <<m1>> ELSE <<>>
  BY <1>1, <1>7, <1>8, FirstHas
<1>10. m1 \in Having("spf_present")
  <2>1. m1 \in ProbeResult
    <3>1. new[1] = m1 /\ 1 \in 1..Len(new)
      BY <1>1, <1>8
    <3> QED
      BY <1>2, <3>1 DEF NewFit
  <2> QED
    BY <1>4, <1>6, <2>1 DEF Having
<1> QED
  BY <1>3, <1>6, <1>9, <1>10 DEF new
\* and so is what is appended for DMARC.
LEMMA DMARCSays ==
    ASSUME check \in Checks, check \in ran, NEW rrs \in Seq(TXTRecord)
    PROVE  \E r : /\ r.metrics["dmarc_present"] = OneIf(HasRecord(rrs, "_dmarc"))
                  /\ Filter(DMARCResults(rrs), Having("dmarc_present")) = <<r>>
                  /\ Filter(DMARCResults(rrs), Having("spf_present")) = <<>>
<1> DEFINE records == Versions(rrs, "dmarc1")
           txt == Head(records)
           present == records # <<>>
           p == IF present THEN Policy(txt, "p") ELSE <<>>
           sp == IF present THEN Policy(txt, "sp") ELSE <<>>
           has(tag) == OneIf(present /\ Values(txt, tag) # <<>>)
           flags == [dmarc_present |-> OneIf(present), dmarc_valid |-> OneIf(p # <<>>),
                     dmarc_rua_present |-> has("rua"), dmarc_ruf_present |-> has("ruf")]
           policy == [dmarc_policy |-> 1]
           listed == [dmarc_record |-> 1]
           sub == [dmarc_sp_policy |-> 1]
           m1 == MXResult(<<>>, flags)
           m2 == MXResult([policy |-> Head(p)], policy)
           m3 == MXResult([record |-> <<txt>>], listed)
           m4 == MXResult([policy |-> Head(sp)], sub)
           r2 == [k \in DOMAIN p |-> EmailResult([policy |-> p[k]], policy)]
           r3 == IF present THEN <<m3>> ELSE <<>>
           r4 == [k \in DOMAIN sp |-> EmailResult([policy |-> sp[k]], sub)]
           new == DMARCResults(rrs)
           U == {m1, m2, m3, m4}
           M == {"spf_present", "dmarc_present"}
<1>1. new = <<m1>> \o r2 \o r3 \o r4
  BY DEF DMARCResults, EmailResult
<1>2. NewFit(new)
  BY DMARCResultsFit
<1>3. flags["dmarc_present"] = OneIf(HasRecord(rrs, "_dmarc"))
  <2>1. records # <<>> <=> HasRecord(rrs, "_dmarc")
    BY Present DEF HasRecord, Version
  <2> QED
    BY <2>1 DEF OneIf
<1>4. "dmarc_present" \in DOMAIN flags /\ "spf_present" \notin DOMAIN flags
  OBVIOUS
<1>5. \A m \in M : m \notin DOMAIN listed /\ m \notin DOMAIN policy /\ m \notin DOMAIN sub
  OBVIOUS
<1>6. (r2 = <<>> \/ r2 = <<m2>>) /\ (r4 = <<>> \/ r4 = <<m4>>)
  <2>1. ASSUME NEW tag PROVE \/ Policy(txt, tag) = <<>>
                             \/ Policy(txt, tag) = <<Head(Policy(txt, tag))>>
    BY DEF Policy
  <2>2. (p = <<>> \/ p = <<Head(p)>>) /\ (sp = <<>> \/ sp = <<Head(sp)>>)
    BY <2>1
  <2> HIDE DEF p, sp
  <2>3. ASSUME NEW q, NEW metrics, q = <<>> \/ q = <<Head(q)>>,
               NEW r, r = [k \in DOMAIN q |-> EmailResult([policy |-> q[k]], metrics)]
        PROVE  r = <<>> \/ r = <<MXResult([policy |-> Head(q)], metrics)>>
    <3> DEFINE x == MXResult([policy |-> Head(q)], metrics)
    <3>1. CASE q = <<>>
      BY <2>3, <3>1
    <3>2. CASE q = <<Head(q)>>
      <4>1. DOMAIN q = 1..1 /\ q[1] = Head(q)
        BY <3>2
      <4>2. \A k \in 1..1 : EmailResult([policy |-> q[k]], metrics) = x
        BY <4>1 DEF EmailResult
      <4> HIDE DEF x
      <4>3. r = [k \in 1..1 |-> x]
        BY <2>3, <4>1, <4>2
      <4> QED
        BY <4>3 DEF x
    <3> QED
      BY <2>3, <3>1, <3>2
  <2>4. r2 = <<>> \/ r2 = <<m2>>
    BY <2>2, <2>3
  <2>5. r4 = <<>> \/ r4 = <<m4>>
    BY <2>2, <2>3
  <2> QED
    BY <2>4, <2>5
<1> HIDE DEF flags, policy, listed, sub, present, p, sp, txt
<1>7. /\ m1.metrics = flags /\ m1 \notin Having("spf_present")
      /\ \A m \in M : m2 \notin Having(m) /\ m3 \notin Having(m) /\ m4 \notin Having(m)
  BY <1>4, <1>5, MetricsOf
<1>8. /\ m1 \in U /\ m2 \in U /\ m3 \in U /\ m4 \in U
      /\ (r2 = <<>> \/ r2 = <<m2>>) /\ (r3 = <<>> \/ r3 = <<m3>>) /\ (r4 = <<>> \/ r4 = <<m4>>)
  BY <1>6
<1> HIDE DEF m1, m2, m3, m4, r2, r3, r4, U, new
<1>9. ASSUME NEW m \in M
      PROVE  /\ r2 \in Seq(U) /\ ToSet(r2) \cap Having(m) = {}
             /\ r3 \in Seq(U) /\ ToSet(r3) \cap Having(m) = {}
             /\ r4 \in Seq(U) /\ ToSet(r4) \cap Having(m) = {}
  <2> DEFINE H == Having(m)
  <2>1. m2 \notin H /\ m3 \notin H /\ m4 \notin H
    BY <1>7
  <2> HIDE DEF H
  <2>2. r2 \in Seq(U) /\ ToSet(r2) \cap H = {}
    BY <1>8, <2>1, Maybe
  <2>3. r3 \in Seq(U) /\ ToSet(r3) \cap H = {}
    BY <1>8, <2>1, Maybe
  <2>4. r4 \in Seq(U) /\ ToSet(r4) \cap H = {}
    BY <1>8, <2>1, Maybe
  <2> QED
    BY <2>2, <2>3, <2>4 DEF H
<1>10. ASSUME NEW m \in M
       PROVE  Filter(new, Having(m)) = IF m1 \in Having(m) THEN <<m1>> ELSE <<>>
  BY <1>1, <1>8, <1>9, FirstHas
<1>11. m1 \in Having("dmarc_present")
  <2>1. m1 \in ProbeResult
    <3>1. new[1] = m1 /\ 1 \in 1..Len(new)
      BY <1>1, <1>9
    <3> QED
      BY <1>2, <3>1 DEF NewFit
  <2> QED
    BY <1>4, <1>7, <2>1 DEF Having
<1> QED
  BY <1>3, <1>7, <1>10, <1>11 DEF new
\* What is appended for one name leaves what is said of the other.
LEMMA BaseGrows ==
    ASSUME ZoneType, NEW new, NewFit(new), Of("email_auth")' = Of("email_auth") \o new,
           NEW name \in {"zone", "_dmarc"}
    PROVE  Base(name)' = Base(name) \o Filter(new, Having(PresenceOf(name)))
<1> DEFINE mine == Of("email_auth")
           H == Having(PresenceOf(name))
<1>1. mine \in Seq(ProbeResult) /\ new \in Seq(ProbeResult)
  BY OfCheck DEF ZoneType, NewFit
<1> HIDE DEF mine, H
<1>2. Filter(mine \o new, H) = Filter(mine, H) \o Filter(new, H)
  BY <1>1, FilterConcat
<1> QED
  BY <1>2 DEF Base, mine, H

\* A step that leaves what the invariant mentions.
LEMMA EmailKept ==
    ASSUME EmailInv, Of("email_auth")' = Of("email_auth"), LogOf("email_auth")' = LogOf("email_auth"),
           "email_auth" \in ran' => "email_auth" \in ran /\ UNCHANGED nameservers,
           check' = "email_auth" =>
              UNCHANGED <<check, at, reply, local>> /\ (reply # Nil => query' = query),
           check' # "email_auth" /\ "email_auth" \in ran => ~EmailSPF /\ ~EmailDMARC
    PROVE  EmailInv'
<1> SUFFICES ASSUME "email_auth" \in ran' PROVE (EmailSPF \/ EmailDMARC \/ EmailDone)'
  BY DEF EmailInv
<1>1. ASSUME NEW name PROVE Base(name)' = Base(name) /\ Settling(name)' = Settling(name)
  BY DEF Base, Settling
<1>2. ASSUME NEW name
      PROVE  /\ Quiet(name) => Quiet(name)'
             /\ Settled(name) => Settled(name)'
             /\ check' = "email_auth" => (Asks(name) => Asks(name)')
  BY <1>1 DEF Quiet, Says, Settled, Asks, Authoritative, Answered
<1> QED
  BY <1>2 DEF EmailInv, EmailSPF, EmailDMARC, EmailDone

\* No nameserver has been of use, or the next one is asked.
LEMMA TXTFailsKeeps ==
    ASSUME ZoneType, EmailInv, Acts("email_auth"), TXTFails
    PROVE  EmailInv'
<1>1. /\ check = "email_auth" /\ reply # Nil /\ ~Authoritative
      /\ Replied("email_auth", "TXT") /\ Handled(<<>>, at + 1, local)
  BY DEF TXTFails, Replied
<1>2. /\ "email_auth" \in ran /\ local.stage \in {"servers", "dmarc"}
      /\ at \in 1..Len(nameservers) /\ Len(nameservers) \in Nat
  BY <1>1, RecordsFit DEF ZoneType
<1>3. /\ Of("email_auth")' = Of("email_auth") /\ at' = at + 1 /\ local' = local /\ reply' = Nil
      /\ UNCHANGED <<ran, check, log, nameservers>>
  BY <1>1, ActsAppendNone
<1>4. ASSUME NEW name
      PROVE  /\ Base(name)' = Base(name) /\ Settling(name)' = Settling(name)
             /\ Quiet(name) => Quiet(name)'
             /\ Settled(name) => Settled(name)'
             /\ Asks(name) => Asks(name)' /\ Settled(name)'
  <2>1. Base(name)' = Base(name) /\ Settling(name)' = Settling(name)
    BY <1>3 DEF Base, Settling, LogOf
  <2> QED
    BY <1>1, <1>3, <2>1 DEF Quiet, Says, Settled, Asks
<1>5. CASE EmailSPF
  BY <1>3, <1>4, <1>5 DEF EmailInv, EmailSPF
<1>6. CASE EmailDMARC
  <2>1. Settled("zone")' /\ Asks("_dmarc")' /\ Settled("_dmarc")'
    BY <1>4, <1>6 DEF EmailDMARC
  <2>2. CASE at' <= Len(nameservers)
    <3>1. EmailDMARC'
      BY <1>3, <1>6, <2>1, <2>2 DEF EmailDMARC
    <3> QED
      BY <3>1 DEF EmailInv
  <2>3. CASE at' > Len(nameservers)
    <3>1. EmailDone'
      BY <1>3, <1>6, <2>1, <2>3 DEF EmailDMARC, EmailDone
    <3> QED
      BY <3>1 DEF EmailInv
  <2> QED
    BY <1>2, <1>3, <2>2, <2>3
<1> QED
  BY <1>1, <1>2, <1>5, <1>6 DEF EmailInv, EmailDone

\* One gives the SPF records.
LEMMA SPFKeeps ==
    ASSUME ZoneType, EmailInv, Acts("email_auth"), SPFRecords
    PROVE  EmailInv'
<1> DEFINE l == [local EXCEPT !.stage = "dmarc"]
           e == [query |-> query, reply |-> reply]
<1>1. /\ check = "email_auth" /\ reply # Nil /\ Authoritative /\ local.stage = "servers"
      /\ Replied("email_auth", "TXT")
  BY DEF SPFRecords, Replied
<1>2. PICK lookups \in LookupCounts : Handled(SPFResults(reply.rrs, lookups), 1, l)
  BY DEF SPFRecords
<1>3. /\ "email_auth" \in ran /\ check \in Checks /\ check \in ran /\ reply.rrs \in Seq(TXTRecord)
      /\ at \in 1..Len(nameservers) /\ Len(nameservers) \in Nat /\ local \in LocalsType
  BY <1>1, RecordsFit DEF ZoneType
<1>4. l.stage = "dmarc"
  BY <1>3 DEF LocalsType
<1> DEFINE new == SPFResults(reply.rrs, lookups)
<1>5. NewFit(new)
  BY <1>3, SPFResultsFit
<1>6. PICK r : /\ r.metrics["spf_present"] = OneIf(HasRecord(reply.rrs, "zone"))
               /\ Filter(new, Having("spf_present")) = <<r>>
               /\ Filter(new, Having("dmarc_present")) = <<>>
  BY <1>3, SPFSays
<1> HIDE DEF new, l, e
<1>7. /\ Of("email_auth")' = Of("email_auth") \o new /\ at' = 1 /\ local' = l /\ reply' = Nil
      /\ UNCHANGED <<ran, check, log, nameservers>>
  <2>1. Handled(new, 1, l) /\ new \in Seq(ProbeResult)
    BY <1>2, <1>5 DEF new, NewFit
  <2> QED
    BY <2>1, ActsAppend
<1>8. EmailSPF
  BY <1>1, <1>3 DEF EmailInv, EmailDMARC, EmailDone
<1>9. Base("zone") = <<>> /\ Settling("zone") = {e} /\ Quiet("_dmarc")
  BY <1>1, <1>8 DEF EmailSPF, Asks, e
<1>10. Base("zone")' = <<>> \o <<r>> /\ Base("_dmarc")' = <<>> \o <<>>
  <2>1. \A name \in {"zone", "_dmarc"} :
           Base(name)' = Base(name) \o Filter(new, Having(PresenceOf(name)))
    BY <1>5, <1>7, BaseGrows
  <2> QED
    BY <1>6, <1>9, <2>1 DEF PresenceOf, Quiet
<1>11. \A name : Settling(name)' = Settling(name)
  BY <1>7 DEF Settling, LogOf
<1>12. PICK f : f = e
  OBVIOUS
<1>13. Says("zone", f)'
  <2>1. Base("zone")' = <<r>> /\ Len(<<r>>) = 1 /\ <<r>>[1] = r
    BY <1>10
  <2>2. f.reply.rrs = reply.rrs /\ PresenceOf("zone") = "spf_present"
    BY <1>12 DEF e, PresenceOf
  <2> QED
    BY <1>6, <1>9, <1>11, <1>12, <2>1, <2>2 DEF Says
<1>14. Asks("_dmarc")'
  BY <1>7, <1>9, <1>10, <1>11 DEF Asks, Quiet
<1>15. EmailDMARC'
  BY <1>1, <1>3, <1>4, <1>7, <1>13, <1>14 DEF EmailDMARC, Settled
<1> QED
  BY <1>15 DEF EmailInv

\* None does.
LEMMA NoSPFKeeps ==
    ASSUME ZoneType, EmailInv, Acts("email_auth"), NoSPF
    PROVE  EmailInv'
<1> DEFINE l == [local EXCEPT !.stage = "dmarc"]
<1>1. /\ check = "email_auth" /\ local.stage = "servers" /\ at > Len(nameservers)
      /\ Handled(<<>>, 1, l)
  BY DEF NoSPF
<1>2. /\ CheckType /\ DiscoveryInv /\ check # Nil /\ check \in Checks /\ Len(nameservers) \in Nat
      /\ LocalFits(local, at) /\ local \in LocalsType /\ "email_auth" \in ran
  BY <1>1, CheckIsFit, ChecksAssumption DEF ZoneType, Checks
<1>3. reply = Nil
  <2>1. reply # Nil => at \in 1..Len(nameservers)
    BY <1>1, <1>2, TurnFits
  <2> QED
    BY <1>1, <1>2, <2>1
<1>4. l.stage = "dmarc" /\ 1 <= Len(nameservers)
  <2>1. nameservers \in Seq(Server) /\ nameservers # <<>>
    BY <1>2 DEF CheckType, DiscoveryInv, DiscoveryType
  <2> QED
    BY <1>2, <2>1 DEF LocalsType
<1> HIDE DEF l
<1>5. /\ Of("email_auth")' = Of("email_auth") /\ at' = 1 /\ local' = l /\ reply' = Nil
      /\ UNCHANGED <<ran, check, log, nameservers>>
  BY <1>1, ActsAppendNone
<1>6. EmailSPF
  BY <1>1, <1>2 DEF EmailInv, EmailDMARC, EmailDone
<1>7. Quiet("zone") /\ Quiet("_dmarc")
  BY <1>3, <1>6 DEF EmailSPF, Asks, Quiet
<1>8. \A name : Base(name)' = Base(name) /\ Settling(name)' = Settling(name)
  BY <1>5 DEF Base, Settling, LogOf
<1>9. Quiet("zone")' /\ Asks("_dmarc")'
  BY <1>5, <1>7, <1>8 DEF Quiet, Asks
<1>10. EmailDMARC'
  BY <1>1, <1>4, <1>5, <1>9 DEF EmailDMARC, Settled
<1> QED
  BY <1>10 DEF EmailInv

\* One gives the DMARC records.
LEMMA DMARCKeeps ==
    ASSUME ZoneType, EmailInv, Acts("email_auth"), DMARCRecords
    PROVE  EmailInv'
<1> DEFINE e == [query |-> query, reply |-> reply]
           new == DMARCResults(reply.rrs)
<1>1. /\ check = "email_auth" /\ reply # Nil /\ Authoritative /\ local.stage = "dmarc"
      /\ Replied("email_auth", "TXT") /\ Handled(new, Len(nameservers) + 1, local)
  BY DEF DMARCRecords, Replied
<1>2. /\ "email_auth" \in ran /\ check \in Checks /\ check \in ran /\ reply.rrs \in Seq(TXTRecord)
      /\ at \in 1..Len(nameservers) /\ Len(nameservers) \in Nat
  BY <1>1, RecordsFit DEF ZoneType
<1>3. NewFit(new)
  BY <1>2, DMARCResultsFit
<1>4. PICK r : /\ r.metrics["dmarc_present"] = OneIf(HasRecord(reply.rrs, "_dmarc"))
               /\ Filter(new, Having("dmarc_present")) = <<r>>
               /\ Filter(new, Having("spf_present")) = <<>>
  BY <1>2, DMARCSays
<1> HIDE DEF new, e
<1>5. /\ Of("email_auth")' = Of("email_auth") \o new /\ at' = Len(nameservers) + 1 /\ local' = local
      /\ UNCHANGED <<ran, check, log, nameservers>>
  <2>1. new \in Seq(ProbeResult)
    BY <1>3 DEF NewFit
  <2> QED
    BY <1>1, <2>1, ActsAppend
<1>6. EmailDMARC
  BY <1>1, <1>2 DEF EmailInv, EmailSPF, EmailDone
<1>7. Base("_dmarc") = <<>> /\ Settling("_dmarc") = {e} /\ Settled("zone")
  BY <1>1, <1>6 DEF EmailDMARC, Asks, e
<1>8. Base("_dmarc")' = <<>> \o <<r>> /\ Base("zone")' = Base("zone") \o <<>>
  <2>1. \A name \in {"zone", "_dmarc"} :
           Base(name)' = Base(name) \o Filter(new, Having(PresenceOf(name)))
    BY <1>3, <1>5, BaseGrows
  <2> QED
    BY <1>4, <1>7, <2>1 DEF PresenceOf
<1>9. Base("zone")' = Base("zone")
  <2>1. Base("zone") \in Seq(ProbeResult)
    <3>1. Of("email_auth") \in Seq(ProbeResult)
      BY OfCheck DEF ZoneType
    <3> QED
      BY <3>1, FilterKeeps DEF Base
  <2> QED
    BY <1>8, <2>1
<1>10. \A name : Settling(name)' = Settling(name)
  BY <1>5 DEF Settling, LogOf
<1>11. Settled("zone")'
  BY <1>7, <1>9, <1>10 DEF Settled, Quiet, Says
<1>12. PICK f : f = e
  OBVIOUS
<1>13. Says("_dmarc", f)'
  <2>1. Base("_dmarc")' = <<r>> /\ Len(<<r>>) = 1 /\ <<r>>[1] = r
    BY <1>8
  <2>2. f.reply.rrs = reply.rrs /\ PresenceOf("_dmarc") = "dmarc_present"
    BY <1>12 DEF e, PresenceOf
  <2> QED
    BY <1>4, <1>7, <1>10, <1>12, <2>1, <2>2 DEF Says
<1>14. EmailDone'
  BY <1>1, <1>2, <1>5, <1>11, <1>13 DEF EmailDone, Settled
<1> QED
  BY <1>14 DEF EmailInv
LEMMA EmailStep ==
    ASSUME ZoneType, LogInv, EmailInv, ProbeZone \/ Deadline
    PROVE  EmailInv'
<1>1. /\ "email_auth" \in Checks /\ "email_auth" # Nil /\ CheckType /\ DiscoveryInv
  BY ChecksAssumption DEF Checks, ZoneType
<1>2. check = "email_auth" =>
         /\ LocalFits(local, at) /\ local.stage \in {"servers", "dmarc"}
         /\ "email_auth" \in ran /\ Len(nameservers) \in Nat
  BY <1>1, CheckIsFit DEF StagesOf, CheckType
<1>3. CASE Apart("email_auth")
  <2>1. /\ check # "email_auth" /\ check' # "email_auth"
        /\ "email_auth" \in ran' <=> "email_auth" \in ran
        /\ Of("email_auth")' = Of("email_auth") /\ LogOf("email_auth")' = LogOf("email_auth")
        /\ "email_auth" \in ran => UNCHANGED nameservers
    BY <1>3 DEF Apart
  <2> QED
    BY <2>1, EmailKept DEF EmailSPF, EmailDMARC
<1>4. CASE Starts("email_auth")
  <2>1. /\ "email_auth" \notin ran /\ check' = "email_auth" /\ at' = 1 /\ local' = Locals
        /\ Of("email_auth")' = Of("email_auth") /\ LogOf("email_auth")' = LogOf("email_auth")
        /\ reply' = reply /\ check = Nil
    BY <1>4 DEF Starts, StartCheck, Of, LogOf
  <2>2. Of("email_auth") = <<>> /\ LogOf("email_auth") = {}
    BY <2>1, NotRun
  <2>3. reply = Nil
    BY <1>1, <2>1 DEF CheckType, ExchangeType
  <2>4. ASSUME NEW name PROVE Base(name)' = <<>> /\ Settling(name)' = {}
    BY <2>1, <2>2, FilterNone DEF Base, Settling
  <2>5. Asks("zone")' /\ Quiet("_dmarc")'
    BY <2>1, <2>3, <2>4 DEF Asks, Quiet
  <2>6. EmailSPF'
    BY <2>1, <2>5 DEF EmailSPF, Locals
  <2> QED
    BY <2>6 DEF EmailInv
<1>5. CASE Ends("email_auth")
  <2>1. /\ Of("email_auth")' = Of("email_auth") /\ LogOf("email_auth")' = LogOf("email_auth")
        /\ check' = Nil /\ check = "email_auth" /\ UNCHANGED <<ran, nameservers>>
        /\ at > Len(nameservers) /\ local.stage = "dmarc"
    BY <1>5 DEF Ends, EndCheck, Of, LogOf, discoveryVars
  <2>2. at \in Nat /\ Len(nameservers) \in Nat
    BY <1>2, <2>1 DEF LocalFits
  <2>3. ~EmailSPF /\ ~EmailDMARC
    BY <2>1, <2>2 DEF EmailSPF, EmailDMARC
  <2> QED
    BY <1>1, <2>1, <2>3, EmailKept
<1>6. CASE Steady("email_auth")
  <2>1. /\ Of("email_auth")' = Of("email_auth") /\ LogOf("email_auth")' = LogOf("email_auth")
        /\ check = "email_auth" /\ UNCHANGED <<ran, check, at, reply, local, nameservers>>
        /\ reply # Nil => query' = query
    BY <1>1, <1>6 DEF Steady, Of, LogOf, CheckType, ExchangeType
  <2> QED
    BY <2>1, EmailKept
<1>7. CASE Hears("email_auth")
  <2>1. PICK r \in Answers[query.type] \cup Silences : Returns(r)
    BY <1>7 DEF Hears
  <2>2. /\ check = "email_auth" /\ query # Nil /\ reply = Nil /\ reply' = r
        /\ UNCHANGED <<ran, check, at, query, local, results, nameservers>>
        /\ log' = IF r.status = "ok" THEN log \cup {[query |-> query, reply |-> r]} ELSE log
    BY <1>7, <2>1 DEF Hears, Returns, discoveryVars
  <2>3. query.check = "email_auth" /\ query.type = "TXT"
    BY <1>1, <2>2, AskedByCheck DEF TypesOf
  <2>4. r # Nil
    BY <2>1, <2>3, OnlyAnswersAreOk DEF QueryTypes
  <2>5. query = Question(QueryType, Name, Current) /\ at <= Len(nameservers)
    BY <1>1, <1>2, <2>2 DEF CheckType, ExchangeType, QueryFits
  <2>6. query.name = Name
    BY <2>5 DEF Question
  <2>7. ~EmailDone
    <3>1. at \in Nat /\ Len(nameservers) \in Nat
      BY <1>2, <2>2 DEF LocalFits
    <3> QED
      BY <2>2, <2>5, <3>1 DEF EmailDone
  <2> DEFINE e == [query |-> query, reply |-> r]
             Useful == r.status = "ok" /\ r.rcode \in {"NOERROR", "NXDOMAIN"}
  <2>8. ASSUME NEW name
        PROVE  /\ Base(name)' = Base(name)
               /\ Settling(name)' = Settling(name) \cup (IF Useful /\ Name = name THEN {e} ELSE {})
    BY <2>2, <2>3, <2>6 DEF Base, Of, Settling, LogOf
  <2>9. ASSUME NEW name, Name # name
        PROVE  /\ Quiet(name) => Quiet(name)'
               /\ Settled(name) => Settled(name)'
    BY <2>8, <2>9 DEF Quiet, Says, Settled
  <2>10. ASSUME NEW name, Name = name, Asks(name)
         PROVE  Asks(name)'
    <3>1. Settling(name) = {} /\ Base(name) = <<>>
      BY <2>2, <2>10 DEF Asks
    <3>2. Authoritative' <=> Useful
      BY <2>2 DEF Authoritative, Answered
    <3> QED
      BY <2>2, <2>4, <2>8, <2>10, <3>1, <3>2 DEF Asks
  <2>11. CASE EmailSPF
    <3>1. Name = "zone" /\ Name # "_dmarc"
      BY <2>11 DEF EmailSPF, Name
    <3>2. EmailSPF'
      BY <2>2, <2>9, <2>10, <2>11, <3>1 DEF EmailSPF
    <3> QED
      BY <3>2 DEF EmailInv
  <2>12. CASE EmailDMARC
    <3>1. Name = "_dmarc" /\ Name # "zone"
      BY <2>12 DEF EmailDMARC, Name
    <3>2. EmailDMARC'
      BY <2>2, <2>9, <2>10, <2>12, <3>1 DEF EmailDMARC
    <3> QED
      BY <3>2 DEF EmailInv
  <2> QED
    BY <1>2, <2>2, <2>7, <2>11, <2>12 DEF EmailInv
<1>8. CASE Acts("email_auth")
  <2>1. TXTFails \/ SPFRecords \/ NoSPF \/ DMARCRecords
    BY <1>1, <1>8, OwnSteps DEF Acts
  <2> QED
    BY <1>8, <2>1, TXTFailsKeeps, SPFKeeps, NoSPFKeeps, DMARCKeeps
<1> QED
  BY <1>1, <1>3, <1>4, <1>5, <1>6, <1>7, <1>8, Moves

\* What it comes to when email_auth has run.
LEMMA EmailTells ==
    ASSUME ZoneType, EmailInv
    PROVE  EmailAuthIsHonest
<1> SUFFICES ASSUME Ran("email_auth"), NEW name \in {"zone", "_dmarc"}
             PROVE  LET metric == IF name = "zone" THEN "spf_present" ELSE "dmarc_present"
                        base == With("email_auth", metric)
                        version == IF name = "zone" THEN "spf1" ELSE "dmarc1"
                        heard == {e \in log : e.query.check = "email_auth"
                                                /\ e.query.name = name
                                                /\ e.reply.rcode \in {"NOERROR", "NXDOMAIN"}}
                    IN  /\ Len(base) = Cardinality(heard)
                        /\ \A e \in heard :
                              base[1].metrics[metric] =
                                OneIf(\E txt \in ToSet(e.reply.rrs) : txt.version = version)
  BY DEF EmailAuthIsHonest
<1>1. "email_auth" \in ran /\ check # "email_auth" /\ CheckType
  BY RanToTheEnd, ChecksAssumption DEF Checks, ZoneType
<1>2. Settled(name)
  BY <1>1 DEF EmailInv, EmailSPF, EmailDMARC, EmailDone
<1> DEFINE heard == {e \in log : e.query.check = "email_auth" /\ e.query.name = name
                                   /\ e.reply.rcode \in {"NOERROR", "NXDOMAIN"}}
           said == With("email_auth", PresenceOf(name))
<1>3. heard = Settling(name) /\ said = Base(name)
  BY <1>1, WithIs DEF Settling, LogOf, Base
<1> DEFINE ReadOff(e) == said[1].metrics[PresenceOf(name)] =
                            OneIf(\E txt \in ToSet(e.reply.rrs) : txt.version = Version(name))
<1>4. ASSUME Quiet(name) PROVE Len(said) = Cardinality(heard) /\ heard = {}
  <2>1. said = <<>> /\ heard = {}
    BY <1>3, <1>4 DEF Quiet
  <2> HIDE DEF said, heard
  <2> QED
    BY <2>1, FS_EmptySet
<1>5. ASSUME NEW e, Says(name, e)
      PROVE  Len(said) = Cardinality(heard) /\ heard = {e} /\ ReadOff(e)
  <2> HIDE DEF said, heard
  <2>1. heard = {e} /\ Len(said) = 1
    BY <1>3, <1>5 DEF Says
  <2>2. Cardinality({e}) = 1
    BY FS_Singleton
  <2> QED
    BY <1>3, <1>5, <2>1, <2>2 DEF Says, HasRecord
<1>6. Len(said) = Cardinality(heard) /\ \A e \in heard : ReadOff(e)
  <2> HIDE DEF said, heard, ReadOff
  <2> QED
    BY <1>2, <1>4, <1>5 DEF Settled
<1> QED
  BY <1>6 DEF PresenceOf, Version

LEMMA EmailCycleStep ==
    ASSUME CycleType, VerdictInv, EmailInv, [Next]_vars
    PROVE  EmailInv'
<1>1. CASE GoroutineStep \/ DeadlinePasses
  BY <1>1, EmailStep DEF GoroutineStep, DeadlinePasses, CycleType, VerdictInv
<1>2. CASE ZoneReturns
  BY <1>2, AllGone, ChecksAssumption DEF CycleType, EmailInv, Checks
<1>3. CASE (\E g \in DOMAIN CfgZones : OtherReturns(g)) \/ Publishing \/ UNCHANGED vars
  <2>1. UNCHANGED probeVars
    BY <1>3 DEF OtherReturns, Publishing, vars
  <2>2. UNCHANGED <<nameservers, check, at, local, reply, query, ran, log, results>>
    BY <2>1 DEF probeVars, checkVars, discoveryVars
  <2>3. check # "email_auth" => ~EmailSPF /\ ~EmailDMARC
    BY DEF EmailSPF, EmailDMARC
  <2> QED
    BY <2>2, <2>3, EmailKept DEF Of, LogOf
<1> QED
  BY <1>1, <1>2, <1>3 DEF Next

\* email_auth says something of SPF, or of DMARC, exactly when one nameserver
\* has answered for that name, or said that there is none, and what it says is
\* read off that answer: neither a nameserver that fails, nor the deadline, nor
\* what becomes of the other name makes a record absent (email_auth.go:163-201).
THEOREM EmailTheorem == Spec => []EmailAuthIsHonest
<1>1. Init => VerdictInv /\ EmailInv
  BY VerdictInit DEF Init, ProbeInit, ChecksIdle, EmailInv
<1>2. CycleType /\ VerdictInv /\ EmailInv /\ [Next]_vars => VerdictInv' /\ EmailInv'
  BY VerdictStep, EmailCycleStep
<1>3. CycleType /\ EmailInv => EmailAuthIsHonest
  BY EmailTells DEF CycleType
<1> QED
  BY <1>1, <1>2, <1>3, CycleTypeInvariant, PTL DEF Spec

-----------------------------------------------------------------------------
(* No verdict is hidden.                                                   *)

\* Two results with the same success series say the same.
SamePlace(q, r) ==
    /\ q.zone = r.zone /\ q.check = r.check /\ q.check # "glue"
    /\ q.host = r.host /\ q.ip = r.ip

Agree(list) ==
    \A j, k \in 1..Len(list) : SamePlace(list[j], list[k]) => list[j].ok = list[k].ok

\* Those of the zone do: a nameserver has its turn once in a check, and mx and
\* email_auth do not report both a failure and a success.
LEMMA OneVerdictEach ==
    ASSUME ZoneType, MXInv, \A c \in Turned : TurnsInv(c), Finished, NEW c,
           NEW j \in 1..Len(Of(c)), NEW k \in 1..Len(Of(c)),
           SamePlace(Of(c)[j], Of(c)[k])
    PROVE  Of(c)[j].ok = Of(c)[k].ok
<1>1. /\ Of(c) \in Seq(ProbeResult) /\ c \in ran
      /\ ResultFits(Of(c)[j]) /\ Of(c)[j].check = c
      /\ ResultFits(Of(c)[k]) /\ Of(c)[k].check = c
  BY OfCheck DEF ZoneType
<1>2. c \in Checks /\ c # "glue" /\ Of(c)[j].ok \in BOOLEAN /\ Of(c)[k].ok \in BOOLEAN
      /\ check # c
  <2>1. check = Nil /\ c \in Checks
    BY <1>1, RanToTheEnd DEF Ran, ZoneType, CheckType
  <2> QED
    BY <1>1, <2>1, ChecksAssumption DEF SamePlace, ResultFits, ProbeResult
<1>3. CASE c \in Turned
  <2>1. /\ Len(Of(c)) = Len(nameservers) /\ nameservers \in Seq(Server)
        /\ NameserversAreDistinct
    BY <1>1, <1>2, <1>3 DEF TurnsInv, Through, ZoneType, DiscoveryInv, DiscoveryType
  <2>2. /\ nameservers[j].host = nameservers[k].host
        /\ nameservers[j].ip = nameservers[k].ip
    BY <1>1, <1>2, <1>3, <2>1 DEF TurnsInv, Through, SamePlace
  <2>3. nameservers[j] \in Server /\ nameservers[k] \in Server
    BY <2>1
  <2>4. nameservers[j] = nameservers[k]
    BY <2>2, <2>3 DEF Server
  <2>5. j = k
    BY <2>1, <2>4 DEF NameserversAreDistinct
  <2> QED
    BY <2>5
<1>4. CASE c = "mx"
  <2>1. MXFailed \/ \E e : MXTold(e)
    BY <1>1, <1>2, <1>4 DEF MXInv, MXAsks
  <2>2. CASE MXFailed
    BY <1>4, <2>2 DEF MXFailed
  <2>3. ASSUME NEW e, MXTold(e) PROVE Of(c)[j].ok = TRUE /\ Of(c)[k].ok = TRUE
    BY <1>2, <1>4, <2>3 DEF MXTold
  <2> QED
    BY <2>1, <2>2, <2>3
<1>5. CASE c \in Unfailing
  BY <1>1, <1>2, <1>5 DEF ResultFits
<1> QED
  BY <1>2, <1>3, <1>4, <1>5 DEF Checks, Turned, Unfailing

LEMMA ZoneAgrees ==
    ASSUME ZoneType, MXInv, \A c \in Turned : TurnsInv(c), Finished
    PROVE  Agree(results)
<1> SUFFICES ASSUME NEW j \in 1..Len(results), NEW k \in 1..Len(results),
                    SamePlace(results[j], results[k])
             PROVE  results[j].ok = results[k].ok
  BY DEF Agree
<1> DEFINE c == results[j].check
<1>1. CheckType /\ j \in DOMAIN results /\ k \in DOMAIN results /\ results[k].check = c
  BY DEF ZoneType, CheckType, SamePlace
<1>2. PICK i \in 1..Len(Of(c)) : Of(c)[i] = results[j]
  BY <1>1, MineIsThere
<1>3. PICK l \in 1..Len(Of(c)) : Of(c)[l] = results[k]
  BY <1>1, MineIsThere
<1> HIDE DEF c
<1> QED
  BY <1>2, <1>3, OneVerdictEach

LEMMA OtherAgrees ==
    ASSUME NEW g \in DOMAIN CfgZones, g # 1, NEW list \in Others[CfgZones[g]]
    PROVE  Agree(list)
<1> DEFINE z == CfgZones[g]
<1>1. z \in DOMAIN Others /\ list \in Others[z] /\ list \in Seq(ProbeResult)
  BY OtherListFits, OthersAssumption DEF Fits
<1> HIDE DEF z
<1>2. \A q, r \in ToSet(list) :
         (/\ q.check = r.check /\ q.check # "glue"
          /\ q.host = r.host /\ q.ip = r.ip) => q.ok = r.ok
  <2>1. \A y \in DOMAIN Others : \A l \in Others[y] : \A q, r \in ToSet(l) :
           (/\ q.check = r.check /\ q.check # "glue"
            /\ q.host = r.host /\ q.ip = r.ip) => q.ok = r.ok
    BY OthersAssumption
  <2> QED
    BY <1>1, <2>1, Zenon
<1>3. ASSUME NEW k \in 1..Len(list) PROVE list[k] \in ToSet(list)
  BY <1>1, <1>3 DEF ToSet
<1> QED
  BY <1>2, <1>3 DEF Agree, SamePlace

\* Every result comes from a goroutine that has returned, and those of a zone
\* that is configured once agree.
AgreeInv ==
    /\ \A k \in 1..Len(all) : \E g \in joined : all[k].zone = CfgZones[g]
    /\ \A j, k \in 1..Len(all) :
          Once(all[j].zone) /\ SamePlace(all[j], all[k]) => all[j].ok = all[k].ok

LEMMA OnceIsOne ==
    ASSUME NEW g \in DOMAIN CfgZones, NEW h \in DOMAIN CfgZones,
           CfgZones[g] = CfgZones[h], Once(CfgZones[g])
    PROVE  g = h
<1> DEFINE S == {i \in DOMAIN CfgZones : CfgZones[i] = CfgZones[g]}
<1>1. IsFiniteSet(S)
  <2>1. DOMAIN CfgZones = 1..Len(CfgZones) /\ Len(CfgZones) \in Nat
    BY PublicationAssumption
  <2>2. IsFiniteSet(1..Len(CfgZones))
    BY <2>1, FS_Interval
  <2> QED
    BY <2>1, <2>2, FS_Subset
<1>2. Cardinality(S) = 1 /\ g \in S /\ h \in S
  BY DEF Once
<1> HIDE DEF S
<1>3. \A T : IsFiniteSet(T) /\ Cardinality(T) = 1 => \E x : T = {x}
  BY FS_Singleton
<1> QED
  BY <1>1, <1>2, <1>3

LEMMA JoinedAgree ==
    ASSUME PubType, AgreeInv, NEW g \in DOMAIN CfgZones, NEW list, Join(g, list),
           Fits(list, CfgZones[g]), Agree(list)
    PROVE  AgreeInv'
<1> DEFINE m == Len(all)
           n == Len(list)
<1>1. /\ all \in Seq(ProbeResult) /\ list \in Seq(ProbeResult) /\ all' = all \o list
      /\ g \notin joined /\ joined' = joined \cup {g} /\ joined \subseteq DOMAIN CfgZones
      /\ \A k \in 1..n : list[k].zone = CfgZones[g]
  BY DEF PubType, Join, Fits
<1>2. /\ m \in Nat /\ n \in Nat /\ Len(all') = m + n
      /\ \A k \in 1..m : all'[k] = all[k]
      /\ \A k \in (m + 1)..(m + n) : all'[k] = list[k - m]
  BY <1>1
<1>3. ASSUME NEW k \in 1..Len(all')
      PROVE  \/ k \in 1..m /\ all'[k] = all[k]
             \/ k - m \in 1..n /\ all'[k] = list[k - m]
  BY <1>2, <1>3
<1>4. ASSUME NEW k \in 1..Len(all') PROVE \E h \in joined' : all'[k].zone = CfgZones[h]
  BY <1>1, <1>3, <1>4 DEF AgreeInv
<1>5. ASSUME NEW j \in 1..m, NEW k \in 1..n, all[j].zone = list[k].zone
      PROVE  ~Once(all[j].zone)
  <2>1. PICK h \in joined : all[j].zone = CfgZones[h]
    BY DEF AgreeInv
  <2>2. h \in DOMAIN CfgZones /\ h # g /\ CfgZones[h] = CfgZones[g]
    BY <1>1, <1>5, <2>1
  <2> QED
    BY <2>1, <2>2, OnceIsOne
<1>6. ASSUME NEW j \in 1..Len(all'), NEW k \in 1..Len(all'),
             Once(all'[j].zone), SamePlace(all'[j], all'[k])
      PROVE  all'[j].ok = all'[k].ok
  <2>1. all'[j].zone = all'[k].zone
    BY <1>6 DEF SamePlace
  <2>2. CASE j \in 1..m /\ k \in 1..m
    BY <1>2, <1>6, <2>2 DEF AgreeInv
  <2>3. CASE j - m \in 1..n /\ k - m \in 1..n
    <3>1. all'[j] = list[j - m] /\ all'[k] = list[k - m]
      BY <1>2, <2>3
    <3> QED
      BY <1>6, <2>3, <3>1 DEF Agree
  <2>4. CASE j \in 1..m /\ k - m \in 1..n
    BY <1>2, <1>3, <1>5, <1>6, <2>1, <2>4
  <2>5. CASE j - m \in 1..n /\ k \in 1..m
    BY <1>2, <1>3, <1>5, <1>6, <2>1, <2>5
  <2> QED
    BY <1>3, <2>2, <2>3, <2>4, <2>5
<1> QED
  BY <1>4, <1>6 DEF AgreeInv, Once

LEMMA AgreeStep ==
    ASSUME CycleType, VerdictInv, MXInv, AgreeInv, [Next]_vars
    PROVE  AgreeInv'
<1>1. CASE ZoneReturns
  <2>1. Finished /\ Join(1, results)
    BY <1>1 DEF ZoneReturns
  <2>2. Agree(results)
    BY <2>1, ZoneAgrees DEF CycleType, VerdictInv
  <2>3. 1 \in DOMAIN CfgZones /\ Fits(results, CfgZones[1])
    BY ZoneListFits DEF CycleType
  <2> QED
    BY <2>1, <2>2, <2>3, JoinedAgree DEF CycleType
<1>2. ASSUME NEW g \in DOMAIN CfgZones, OtherReturns(g) PROVE AgreeInv'
  <2>1. g # 1
    BY <1>2 DEF OtherReturns
  <2>2. PICK list \in Others[CfgZones[g]] : Join(g, list)
    BY <1>2 DEF OtherReturns
  <2>3. Fits(list, CfgZones[g]) /\ Agree(list)
    BY <2>1, OtherListFits, OtherAgrees
  <2> QED
    BY <2>2, <2>3, JoinedAgree DEF CycleType
<1>3. CASE GoroutineStep \/ DeadlinePasses \/ Publishing \/ UNCHANGED vars
  <2>1. UNCHANGED <<all, joined>>
    BY <1>3 DEF GoroutineStep, DeadlinePasses, Publishing, PublicationStep, Reset, Collect,
                Aggregate, Derive, BuildRegistry, Publish, vars, pubVars
  <2> QED
    BY <2>1 DEF AgreeInv, Once
<1> QED
  BY <1>1, <1>2, <1>3 DEF Next

\* The success series of a result tells its zone, check and nameserver, and no
\* other series of a result is of that metric.
LEMMA SuccessTells ==
    ASSUME NEW q \in ProbeResult, NEW r \in ProbeResult,
           SuccessSeries(q) \in DOMAIN Gauges(r)
    PROVE  /\ q.zone = r.zone /\ q.check = r.check /\ q.host = r.host /\ q.ip = r.ip
           /\ Gauges(r)[SuccessSeries(q)] = OneIf(r.ok)
<1> DEFINE s == SuccessSeries(q)
<1>1. s = SuccessSeries(r)
  <2>1. "query_success" \notin DOMAIN r.metrics
    BY DEF ProbeResult, Metrics
  <2>2. s.metric = "query_success"
    BY DEF SuccessSeries, Metric
  <2>3. \A m \in DOMAIN r.metrics : Metric(r, m, r.labels).metric = m
    BY DEF Metric
  <2>4. DOMAIN Gauges(r) =
           {SuccessSeries(r)} \cup {Metric(r, m, r.labels) : m \in DOMAIN r.metrics}
    BY DEF Gauges
  <2> HIDE DEF s
  <2>5. s \in DOMAIN Gauges(r)
    BY DEF s
  <2> QED
    BY <2>1, <2>2, <2>3, <2>4, <2>5
<1>2. /\ s.zone = q.zone /\ s.host = q.host /\ s.ip = q.ip /\ s.labels.check = q.check
      /\ SuccessSeries(r).zone = r.zone /\ SuccessSeries(r).host = r.host
      /\ SuccessSeries(r).ip = r.ip /\ SuccessSeries(r).labels.check = r.check
  BY DEF SuccessSeries, Metric
<1>3. Gauges(r)[SuccessSeries(r)] = OneIf(r.ok)
  BY DEF Gauges, OneIf
<1> QED
  BY <1>1, <1>2, <1>3

LEMMA NothingHidden ==
    ASSUME PubType, AgreeInv, FirstResultIsServed
    PROVE  NoVerdictIsHidden
<1> SUFFICES ASSUME phase = "published", NEW k \in DOMAIN all, Once(all[k].zone),
                    all[k].check # "glue"
             PROVE  registry[SuccessSeries(all[k])] = OneIf(all[k].ok)
  BY DEF NoVerdictIsHidden
<1> DEFINE s == SuccessSeries(all[k])
<1>1. all \in Seq(ProbeResult) /\ k \in 1..Len(all) /\ Len(all) \in Nat
  BY DEF PubType
<1>2. s \in DOMAIN Gauges(all[k])
  BY DEF Gauges
<1>3. PICK j \in 1..k : s \in DOMAIN Gauges(all[j]) /\ registry[s] = Gauges(all[j])[s]
  BY <1>2 DEF FirstResultIsServed
<1>4. j \in 1..Len(all) /\ all[j] \in ProbeResult /\ all[k] \in ProbeResult
  BY <1>1, <1>3
<1>5. /\ SamePlace(all[k], all[j]) /\ registry[s] = OneIf(all[j].ok)
  BY <1>3, <1>4, SuccessTells DEF SamePlace
<1>6. all[k].ok = all[j].ok
  BY <1>1, <1>4, <1>5 DEF AgreeInv
<1> QED
  BY <1>5, <1>6

\* What the metrics say of a check of a nameserver is what that check found
\* there: results that share a series agree, within the goroutine of a zone and
\* through the list that the goroutines share; only glue, and a zone listed
\* twice, have several verdicts for one place (registry.go:24-37, 60-64).
THEOREM HiddenTheorem == Spec => []NoVerdictIsHidden
<1>1. Init => VerdictInv /\ MXInv /\ AgreeInv
  <2>1. Init => all = <<>> /\ ran = {}
    BY DEF Init, PubInit, ProbeInit, ChecksIdle
  <2>2. Init => MXInv /\ AgreeInv
    BY <2>1 DEF MXInv, AgreeInv
  <2> QED
    BY <2>2, VerdictInit
<1>2. CycleType /\ VerdictInv /\ MXInv /\ AgreeInv /\ [Next]_vars
         => VerdictInv' /\ MXInv' /\ AgreeInv'
  BY VerdictStep, MXCycleStep, AgreeStep
<1>3. CycleType /\ AgreeInv /\ FirstResultIsServed => NoVerdictIsHidden
  BY NothingHidden DEF CycleType
<1> QED
  BY <1>1, <1>2, <1>3, CycleTypeInvariant, PublishedTheorem, PTL DEF Spec
-----------------------------------------------------------------------------
(* ns_classification: every name once, by who lists it.                    *)

\* The names that the nameservers have listed, and those of which an address
\* has answered with authority.
ListedNames ==
    UNION {ToSet(e.reply.rrs) : e \in {e \in LogOf("ns_classification") : e.query.type = "NS"}}
Working(h) ==
    \E e \in LogOf("ns_classification") :
        e.query.type = "SOA" /\ e.query.ns.host = h /\ e.reply.aa /\ e.reply.rrs # <<>>

\* Such an answer is there to be looked at.
Proving(h) ==
    /\ check = "ns_classification" /\ local.stage = "stealth" /\ h = Head(local.left)
    /\ reply # Nil /\ Answered /\ reply.aa /\ reply.rrs # <<>>

\* The names that have a result, and those that are left.
HostOf == [r \in ProbeResult |-> r.host]
NamesTold == Image(Of("ns_classification"), HostOf)
NamesLeft == IF check = "ns_classification" THEN local.left ELSE <<>>

\* It is asking the nameservers,
ListsNames ==
    /\ check = "ns_classification" /\ local.stage = "servers"
    /\ Of("ns_classification") = <<>>
    /\ \A e \in LogOf("ns_classification") : e.query.type = "NS"
    /\ ListedNames = local.self \cup (IF reply # Nil THEN ToSet(reply.rrs) ELSE {})

\* or has the names in their order, some of them classified.
Classified(r) ==
    /\ r.labels.classification =
          IF r.host \notin ListedNames THEN "parent-only"
          ELSE IF r.host \in ParentHosts THEN "both" ELSE "self-only"
    /\ r.labels.classification = "self-only" =>
          r.metrics.ns_stealth_reachable = OneIf(Working(r.host))

TellsNames ==
    /\ check = "ns_classification" =>
          local.stage \in {"classify", "stealth"} /\ local.self = ListedNames
    /\ NamesTold \o NamesLeft = Filter(Sorted, ParentHosts \cup ListedNames)
    /\ \A k \in 1..Len(Of("ns_classification")) : Classified(Of("ns_classification")[k])
    /\ \A h \in ToSet(NamesLeft) : Working(h) <=> Proving(h)

NamesInv == "ns_classification" \in ran => ListsNames \/ TellsNames

\* A step that leaves what the invariant mentions.
LEMMA NamesKept ==
    ASSUME NamesInv, Of("ns_classification")' = Of("ns_classification"),
           LogOf("ns_classification")' = LogOf("ns_classification"),
           "ns_classification" \in ran' =>
              "ns_classification" \in ran /\ UNCHANGED delegation,
           check' = "ns_classification" => UNCHANGED <<check, reply, local>>,
           check' # "ns_classification" /\ "ns_classification" \in ran =>
              NamesLeft = <<>> /\ ~ListsNames
    PROVE  NamesInv'
<1> SUFFICES ASSUME "ns_classification" \in ran' PROVE (ListsNames \/ TellsNames)'
  BY DEF NamesInv
<1>1. ListedNames' = ListedNames /\ ParentHosts' = ParentHosts /\ NamesTold' = NamesTold
      /\ \A h : Working(h)' = Working(h)
  BY DEF ListedNames, ParentHosts, NamesTold, Working
<1>2. CASE ListsNames
  BY <1>1, <1>2 DEF ListsNames
<1>3. CASE TellsNames
  <2>1. NamesLeft' = NamesLeft
    BY DEF NamesLeft
  <2>2. \A h : check' = "ns_classification" => Proving(h)' = Proving(h)
    BY DEF Proving, Answered
  <2>3. check' # "ns_classification" => ToSet(NamesLeft) = {}
    BY ElementsOfNone
  <2>4. \A h \in ToSet(NamesLeft)' : Working(h)' <=> Proving(h)'
    BY <1>1, <1>3, <2>1, <2>2, <2>3 DEF TellsNames
  <2>5. \A k \in 1..Len(Of("ns_classification")) :
           Classified(Of("ns_classification")[k])'
    BY <1>1, <1>3 DEF TellsNames, Classified
  <2>6. (NamesTold \o NamesLeft)' = Filter(Sorted, ParentHosts \cup ListedNames)'
    BY <1>1, <1>3, <2>1 DEF TellsNames
  <2>7. check' = "ns_classification" =>
          local'.stage \in {"classify", "stealth"} /\ local'.self = ListedNames'
    BY <1>1, <1>3 DEF TellsNames
  <2> QED
    BY <2>4, <2>5, <2>6, <2>7 DEF TellsNames
<1> QED
  BY <1>2, <1>3 DEF NamesInv

LEMMA NamesAreHosts ==
    ASSUME ZoneType, LogInv
    PROVE  /\ ParentHosts \subseteq Hosts /\ ListedNames \subseteq Hosts
           /\ HostOf \in [ProbeResult -> Hosts \cup {NoHost}]
           /\ NamesTold \in Seq(Hosts \cup {NoHost})
<1>1. ParentHosts \subseteq Hosts
  <2>1. delegation.nsRecords \in Seq(Nameserver)
    BY DEF ZoneType, WalkInv, WalkType, Delegations
  <2>2. ToSet(delegation.nsRecords) \subseteq Nameserver
    BY <2>1 DEF ToSet
  <2> QED
    BY <2>2 DEF ParentHosts, Nameserver
<1>2. ListedNames \subseteq Hosts
  <2>1. ASSUME NEW e \in LogOf("ns_classification"), e.query.type = "NS"
        PROVE  ToSet(e.reply.rrs) \subseteq Hosts
    <3>1. e.reply \in Answers["NS"]
      BY <2>1 DEF LogInv, LogOf
    <3>2. e.reply.rrs \in Seq(Hosts)
      BY <3>1, ChecksAssumption DEF QueryTypes, Replies, Records
    <3> QED
      BY <3>2 DEF ToSet
  <2> QED
    BY <2>1 DEF ListedNames
<1>3. HostOf \in [ProbeResult -> Hosts \cup {NoHost}]
  BY DEF HostOf, ProbeResult
<1>4. NamesTold \in Seq(Hosts \cup {NoHost})
  <2> DEFINE V == Hosts \cup {NoHost}
             mine == Of("ns_classification")
  <2>1. mine \in Seq(ProbeResult)
    BY OfCheck DEF ZoneType
  <2> HIDE DEF V, mine
  <2>2. HostOf \in [ProbeResult -> V]
    BY <1>3 DEF V
  <2>3. Image(mine, HostOf) \in Seq(V)
    BY <2>1, <2>2, ImageKeeps
  <2> QED
    BY <2>3 DEF NamesTold, V, mine
<1> QED
  BY <1>1, <1>2, <1>3, <1>4

\* A name has one place among those told and those left.
LEMMA NamesDiffer ==
    ASSUME ZoneType, LogInv, TellsNames, NamesLeft \in Seq(Hosts), NamesLeft # <<>>
    PROVE  /\ Head(NamesLeft) \in Hosts /\ Head(NamesLeft) \notin ToSet(NamesTold)
           /\ Head(NamesLeft) \notin ToSet(Tail(NamesLeft))
           /\ ToSet(NamesLeft) = {Head(NamesLeft)} \cup ToSet(Tail(NamesLeft))
           /\ Append(NamesTold, Head(NamesLeft)) \o Tail(NamesLeft) = NamesTold \o NamesLeft
<1> DEFINE V == Hosts \cup {NoHost}
           told == NamesTold
           left == NamesLeft
           all1 == Filter(Sorted, ParentHosts \cup ListedNames)
           h == Head(left)
<1>1. told \in Seq(V) /\ left \in Seq(V) /\ left # <<>>
  BY NamesAreHosts
<1>2. h \in Hosts
  OBVIOUS
<1>3. told \o left = all1
  BY DEF TellsNames
<1>4. IsInjective(all1)
  BY SortedAssumption, FilterInjective
<1> HIDE DEF V, told, left, all1
<1>5. /\ Head(left) \in V /\ Tail(left) \in Seq(V)
      /\ ToSet(left) = {Head(left)} \cup ToSet(Tail(left))
  BY <1>1, ElementsOfTail
<1>6. Append(told, h) \o Tail(left) = told \o left
  BY <1>1, HeadMoves
<1>7. ToSet(told) \cap ToSet(left) = {}
  BY <1>1, <1>3, <1>4, InjectiveParts
<1>8. ToSet(Append(told, h)) \cap ToSet(Tail(left)) = {}
  <2>1. Append(told, h) \in Seq(V)
    BY <1>1, <1>5
  <2>2. IsInjective(Append(told, h) \o Tail(left))
    BY <1>3, <1>4, <1>6
  <2> HIDE DEF h
  <2> QED
    BY <1>5, <2>1, <2>2, InjectiveParts
<1>9. ToSet(Append(told, h)) = ToSet(told) \cup {h}
  BY <1>1, <1>5, ElementsOfAppend
<1> QED
  BY <1>2, <1>5, <1>6, <1>7, <1>8, <1>9 DEF told, left, h

\* A name gets its result.
LEMMA NameClassified ==
    ASSUME ZoneType, LogInv, TellsNames, Acts("ns_classification"), local.left # <<>>,
           local.stage \in {"classify", "stealth"}, NEW metrics, Classifies(metrics),
           ClassOf(Head(local.left)) = "self-only" =>
              metrics.ns_stealth_reachable = OneIf(Working(Head(local.left)))
    PROVE  TellsNames'
<1> DEFINE h == Head(local.left)
           class == [classification |-> ClassOf(h)]
           r == [Result(h, ParentIP(h), TRUE, FALSE) EXCEPT !.labels = class,
                                                            !.metrics = metrics]
           l == [local EXCEPT !.stage = "classify", !.left = Tail(@), !.todo = <<>>]
           mine == Of("ns_classification")
<1>1. check = "ns_classification" /\ local \in LocalsType /\ local.left \in Seq(Hosts)
  BY ClassifyStart DEF ZoneType
<1>2. NamesLeft = local.left /\ local.self = ListedNames
  BY <1>1 DEF NamesLeft, TellsNames
<1>3. /\ h \in Hosts /\ h \notin ToSet(NamesTold) /\ h \notin ToSet(Tail(local.left))
      /\ ToSet(local.left) = {h} \cup ToSet(Tail(local.left))
      /\ Append(NamesTold, h) \o Tail(local.left) = NamesTold \o local.left
  BY <1>1, <1>2, NamesDiffer
<1>4. Handled(<<r>>, at, l)
  BY DEF Classifies
<1>5. /\ l.stage = "classify" /\ l.left = Tail(local.left) /\ l.self = ListedNames
  <2> DEFINE left == Tail(local.left)
  <2>1. l = [local EXCEPT !.stage = "classify", !.left = left, !.todo = <<>>]
    OBVIOUS
  <2> HIDE DEF left, l
  <2>2. l.stage = "classify" /\ l.left = left /\ l.self = local.self
    BY <1>1, <2>1 DEF LocalsType
  <2> QED
    BY <1>2, <2>2 DEF left
<1>6. /\ r.host = h /\ r.labels = class /\ r.metrics = metrics
  BY DEF Result
<1>7. class.classification = IF h \notin ListedNames THEN "parent-only"
                             ELSE IF h \in ParentHosts THEN "both" ELSE "self-only"
  BY <1>2 DEF ClassOf
<1> HIDE DEF h, class, r, l, mine
<1>8. /\ Of("ns_classification")' = Append(mine, r) /\ local' = l /\ NewFit(<<r>>)
      /\ reply' = Nil /\ UNCHANGED <<check, log, delegation>>
  BY <1>4, ActsAppendOne DEF mine
<1>9. r \in ProbeResult /\ mine \in Seq(ProbeResult)
  <2>1. \A k \in 1..Len(<<r>>) : <<r>>[k] \in ProbeResult
    BY <1>8 DEF NewFit
  <2> QED
    BY <2>1, OfCheck DEF ZoneType, mine
<1>10. NamesTold' = Append(NamesTold, h)
  <2> DEFINE V == Hosts \cup {NoHost}
             f == HostOf
  <2>1. f \in [ProbeResult -> V] /\ f[r] = h
    BY <1>6, <1>9, NamesAreHosts DEF HostOf
  <2> HIDE DEF V, f
  <2>2. Image(Append(mine, r), f) = Append(Image(mine, f), f[r])
    BY <1>9, <2>1, ImageAppend
  <2> QED
    BY <1>8, <2>1, <2>2 DEF NamesTold, f, mine
<1>11. /\ ListedNames' = ListedNames /\ ParentHosts' = ParentHosts
       /\ \A g : Working(g)' = Working(g)
  BY <1>8 DEF ListedNames, ParentHosts, Working, LogOf
<1>12. NamesLeft' = Tail(local.left)
  BY <1>1, <1>5, <1>8 DEF NamesLeft
<1>13. (NamesTold \o NamesLeft)' = Filter(Sorted, ParentHosts \cup ListedNames)'
  BY <1>2, <1>3, <1>10, <1>11, <1>12 DEF TellsNames
<1>14. ASSUME NEW k \in 1..Len(Append(mine, r)) 
       PROVE  Classified(Of("ns_classification")[k])'
  <2>1. CASE k \in 1..Len(mine)
    <3>1. Of("ns_classification")'[k] = mine[k] /\ Classified(mine[k])
      BY <1>8, <1>9, <2>1 DEF TellsNames, mine
    <3> QED
      BY <1>11, <3>1 DEF Classified
  <2>2. CASE k \notin 1..Len(mine)
    <3>1. Of("ns_classification")'[k] = r
      BY <1>8, <1>9, <2>2
    <3>2. class.classification = ClassOf(h) /\ (ClassOf(h) = "self-only" =>
             metrics.ns_stealth_reachable = OneIf(Working(h)))
      BY DEF class, h
    <3> QED
      BY <1>6, <1>7, <1>11, <3>1, <3>2 DEF Classified
  <2> QED
    BY <2>1, <2>2
<1>15. ASSUME NEW g \in ToSet(Tail(local.left)) PROVE ~Working(g)' /\ ~Proving(g)'
  <2>1. g # h /\ g \in ToSet(local.left)
    BY <1>3, <1>15
  <2>2. ~Working(g)
    BY <1>2, <2>1 DEF TellsNames, Proving, h
  <2> QED
    BY <1>8, <1>11, <2>2 DEF Proving
<1> QED
  BY <1>5, <1>8, <1>11, <1>12, <1>13, <1>14, <1>15 DEF TellsNames

\* A nameserver is passed over, or what it lists is taken.
LEMMA NamesTaken ==
    ASSUME ZoneType, LogInv, NamesInv, Acts("ns_classification"), SkipAskedBefore \/ SelfSet
    PROVE  NamesInv'
<1> DEFINE more == local.self \cup ToSet(reply.rrs)
           l == [local EXCEPT !.self = more]
<1>1. /\ check = "ns_classification" /\ check # Nil /\ CheckType /\ DiscoveryInv
  BY ChecksAssumption DEF SkipAskedBefore, SelfSet, Replied, Checks, ZoneType
<1>2. local \in LocalsType /\ LocalFits(local, at) /\ check \in ran
  BY <1>1, CheckIsFit DEF ZoneType
<1>3. local.stage = "servers"
  <2>1. SelfSet => reply # Nil /\ query.type = "NS"
    BY DEF SelfSet, Replied
  <2>2. SelfSet => local.stage = "servers"
    BY <1>1, <1>2, <2>1, StageOfReply DEF LocalFits, StagesOf
  <2> QED
    BY <2>2 DEF SkipAskedBefore
<1>4. ListsNames
  BY <1>1, <1>2, <1>3 DEF NamesInv, TellsNames
<1>5. CASE SkipAskedBefore
  <2>1. Handled(<<>>, at + 1, local) /\ query = Nil
    BY <1>5 DEF SkipAskedBefore
  <2>2. /\ Of("ns_classification")' = Of("ns_classification") /\ local' = local
        /\ reply' = Nil /\ UNCHANGED <<check, log>>
    BY <2>1, ActsAppendNone
  <2>3. reply = Nil
    BY <1>1, <2>1 DEF CheckType, ExchangeType
  <2>4. ListsNames'
    BY <1>4, <2>2, <2>3 DEF ListsNames, ListedNames, LogOf
  <2> QED
    BY <2>4 DEF NamesInv
<1>6. CASE SelfSet
  <2>1. Handled(<<>>, at + 1, l) /\ reply # Nil
    BY <1>6 DEF SelfSet, Replied
  <2>2. ListedNames = more
    BY <1>4, <2>1 DEF ListsNames
  <2> HIDE DEF more
  <2>3. l.stage = "servers" /\ l.self = more
    BY <1>2, <1>3 DEF LocalsType
  <2> HIDE DEF l
  <2>4. /\ Of("ns_classification")' = Of("ns_classification") /\ local' = l
        /\ reply' = Nil /\ UNCHANGED <<check, log>>
    BY <2>1, ActsAppendNone
  <2>5. ListedNames' = ListedNames /\ LogOf("ns_classification")' = LogOf("ns_classification")
    BY <2>4 DEF ListedNames, LogOf
  <2>6. ListsNames'
    BY <1>4, <2>2, <2>3, <2>4, <2>5 DEF ListsNames
  <2> QED
    BY <2>6 DEF NamesInv
<1> QED
  BY <1>5, <1>6

\* All of them are to be classified.
LEMMA NamesSorted ==
    ASSUME ZoneType, LogInv, NamesInv, Acts("ns_classification"), UnionSorted
    PROVE  NamesInv'
<1> DEFINE left == Filter(Sorted, ParentHosts \cup local.self)
           l == [local EXCEPT !.stage = "classify", !.left = left]
<1>1. /\ check = "ns_classification" /\ check # Nil /\ CheckType /\ local.stage = "servers"
      /\ at > Len(nameservers) /\ Handled(<<>>, at, l)
  BY ChecksAssumption DEF UnionSorted, Checks, ZoneType
<1>2. local \in LocalsType /\ LocalFits(local, at) /\ check \in ran
      /\ Len(nameservers) \in Nat
  BY <1>1, CheckIsFit DEF ZoneType
<1>3. reply = Nil
  <2>1. at = Len(nameservers) + 1
    BY <1>1, <1>2 DEF LocalFits
  <2> QED
    BY <1>1, <1>2, <2>1 DEF CheckType, ExchangeType, QueryFits
<1>4. ListsNames /\ ListedNames = local.self
  BY <1>1, <1>2, <1>3 DEF NamesInv, TellsNames, ListsNames
<1>5. left \in Seq(Hosts)
  <2> DEFINE S == ParentHosts \cup local.self
  <2> HIDE DEF S
  <2>1. Filter(Sorted, S) \in Seq(Hosts)
    BY SortedAssumption, FilterKeeps
  <2> QED
    BY <2>1 DEF S
<1>6. left = Filter(Sorted, ParentHosts \cup ListedNames)
  BY <1>4
<1> HIDE DEF left
<1>7. l.stage = "classify" /\ l.left = left /\ l.self = local.self
  BY <1>2 DEF LocalsType
<1> HIDE DEF l
<1>8. /\ Of("ns_classification")' = Of("ns_classification") /\ local' = l
      /\ reply' = Nil /\ UNCHANGED <<check, log, delegation>>
  BY <1>1, ActsAppendNone
<1>9. /\ ListedNames' = ListedNames /\ ParentHosts' = ParentHosts
      /\ \A g : Working(g)' = Working(g)
  BY <1>8 DEF ListedNames, ParentHosts, Working, LogOf
<1>10. Of("ns_classification")' = <<>> /\ NamesTold' = <<>>
  BY <1>4, <1>8, ImageNone DEF ListsNames, NamesTold
<1>11. NamesLeft' = left
  BY <1>1, <1>7, <1>8 DEF NamesLeft
<1>12. (NamesTold \o NamesLeft)' = Filter(Sorted, ParentHosts \cup ListedNames)'
  BY <1>5, <1>6, <1>9, <1>10, <1>11
<1>13. \A g : ~Working(g)' /\ ~Proving(g)'
  BY <1>4, <1>8, <1>9 DEF ListsNames, Working, Proving
<1>14. TellsNames'
  BY <1>4, <1>7, <1>8, <1>9, <1>10, <1>12, <1>13 DEF TellsNames
<1> QED
  BY <1>14 DEF NamesInv

\* The hosts of a list's results are those that it tells.
LEMMA HostsTold ==
    ASSUME NEW list \in Seq(ProbeResult), NEW k \in 1..Len(list)
    PROVE  list[k].host \in ToSet(Image(list, HostOf))
<1> DEFINE V == {HostOf[r] : r \in ProbeResult}
           f == HostOf
<1>1. f \in [ProbeResult -> V] /\ list[k] \in ProbeResult
  BY DEF HostOf
<1>2. f[list[k]] = list[k].host
  BY <1>1 DEF HostOf
<1> HIDE DEF V, f
<1>3. f[list[k]] \in ToSet(Image(list, f))
  BY <1>1, ImageTells
<1> QED
  BY <1>2, <1>3 DEF f

\* The addresses of a name are asked, or the next of them.
LEMMA NameAsked ==
    ASSUME ZoneType, LogInv, TellsNames, Acts("ns_classification"),
           local.stage \in {"classify", "stealth"}, NEW l, Handled(<<>>, at, l),
           l.stage = "stealth", l.left = local.left, l.self = local.self,
           \A h : ~Proving(h)
    PROVE  TellsNames'
<1>1. check = "ns_classification"
  BY DEF Acts
<1>2. /\ Of("ns_classification")' = Of("ns_classification") /\ local' = l
      /\ reply' = Nil /\ UNCHANGED <<check, log, delegation>>
  BY ActsAppendNone
<1>3. /\ ListedNames' = ListedNames /\ ParentHosts' = ParentHosts /\ NamesTold' = NamesTold
      /\ NamesLeft' = NamesLeft /\ \A g : Working(g)' = Working(g)
  BY <1>1, <1>2 DEF ListedNames, ParentHosts, Working, LogOf, NamesTold, NamesLeft
<1>4. \A g : ~Proving(g)'
  BY <1>2 DEF Proving
<1>5. \A k \in 1..Len(Of("ns_classification")) : Classified(Of("ns_classification")[k])'
  BY <1>2, <1>3 DEF TellsNames, Classified
<1>6. (NamesTold \o NamesLeft)' = Filter(Sorted, ParentHosts \cup ListedNames)'
  BY <1>3 DEF TellsNames
<1> QED
  BY <1>1, <1>2, <1>3, <1>4, <1>5, <1>6 DEF TellsNames

\* It classifies a name at once, or asks its addresses, or hears of one.
LEMMA NamesActs ==
    ASSUME ZoneType, LogInv, NamesInv, Acts("ns_classification"),
           Classify \/ ResolveStealth \/ StealthReply
    PROVE  NamesInv'
<1> DEFINE h == Head(local.left)
           works == Answered /\ reply.aa /\ reply.rrs # <<>>
<1>1. /\ check = "ns_classification" /\ check # Nil /\ CheckType /\ DiscoveryInv
  BY ChecksAssumption DEF Acts, Checks, ZoneType
<1>2. local.stage \in {"classify", "stealth"}
  <2>1. StealthReply => reply # Nil /\ query.type = "SOA"
    BY DEF StealthReply, Replied
  <2>2. StealthReply => local.stage = "stealth"
    BY <1>1, <2>1, StageOfReply DEF QueryType
  <2> QED
    BY <2>2 DEF Classify, ResolveStealth
<1>3. /\ "ns_classification" \in ran /\ local \in LocalsType /\ LocalFits(local, at)
      /\ local.left \in Seq(Hosts)
  BY <1>1, <1>2, ClassifyStart
<1>4. TellsNames /\ NamesLeft = local.left
  BY <1>1, <1>2, <1>3 DEF NamesInv, ListsNames, NamesLeft
<1>5. local.left # <<>> => (Working(h) <=> Proving(h))
  <2>1. local.left # <<>> => h \in ToSet(local.left)
    <3>1. \A s \in Seq(Hosts) : s # <<>> => Head(s) \in ToSet(s)
      BY ElementsOfTail
    <3> QED
      BY <1>3, <3>1
  <2> QED
    BY <1>4, <2>1 DEF TellsNames
<1>6. CASE Classify
  <2> DEFINE metrics == [ns_classification |-> 1]
  <2>1. local.left # <<>> /\ ClassOf(h) # "self-only" /\ Classifies(metrics)
    BY <1>6 DEF Classify
  <2> HIDE DEF metrics
  <2>2. TellsNames'
    BY <1>2, <1>4, <2>1, NameClassified
  <2> QED
    BY <2>2 DEF NamesInv
<1>7. ASSUME NEW b \in BOOLEAN, Classifies(Stealth(b)), local.left # <<>>, b <=> Working(h)
      PROVE  NamesInv'
  <2> DEFINE metrics == Stealth(b)
  <2>1. metrics.ns_stealth_reachable = OneIf(Working(h))
    BY <1>7 DEF Stealth, OneIf
  <2>2. Classifies(metrics)
    BY <1>7
  <2> HIDE DEF metrics
  <2>3. TellsNames'
    BY <1>2, <1>4, <1>7, <2>1, <2>2, NameClassified
  <2> QED
    BY <2>3 DEF NamesInv
<1>8. CASE ResolveStealth
  <2>1. local.left # <<>> /\ local.stage = "classify"
    BY <1>8 DEF ResolveStealth
  <2>2. \A g : ~Proving(g)
    BY <2>1 DEF Proving
  <2> DEFINE l(todo) == [local EXCEPT !.stage = "stealth", !.todo = todo]
  <2>3. Classifies(Stealth(FALSE)) \/ \E todo : Handled(<<>>, at, l(todo))
    <3> DEFINE todoOf(ips) == [k \in DOMAIN ips |->
                                 Question("SOA", "zone", [host |-> h, ip |-> ips[k]])]
    <3>1. PICK ips \in (IF expired THEN {} ELSE Lookups[h]) \cup {<<>>} :
             IF ips = <<>> THEN Classifies(Stealth(FALSE))
             ELSE Handled(<<>>, at, l(todoOf(ips)))
      BY <1>8 DEF ResolveStealth
    <3> HIDE DEF l, todoOf
    <3> QED
      BY <3>1
  <2>4. ASSUME NEW todo, Handled(<<>>, at, l(todo)) PROVE NamesInv'
    <3>1. l(todo).stage = "stealth" /\ l(todo).left = local.left /\ l(todo).self = local.self
      BY <1>3 DEF LocalsType
    <3> HIDE DEF l
    <3>2. TellsNames'
      BY <1>2, <1>4, <2>2, <2>4, <3>1, NameAsked
    <3> QED
      BY <3>2 DEF NamesInv
  <2>5. ~Working(h)
    BY <1>5, <2>1, <2>2
  <2> QED
    BY <1>7, <2>1, <2>3, <2>4, <2>5
<1>9. CASE StealthReply
  <2>1. /\ reply # Nil
        /\ IF works \/ Len(local.todo) = 1 THEN Classifies(Stealth(works))
           ELSE Handled(<<>>, at, [local EXCEPT !.todo = Tail(@)])
    BY <1>9 DEF StealthReply, Replied
  <2>2. local.stage = "stealth" /\ local.left # <<>>
    <3>1. reply # Nil /\ query.type = "SOA"
      BY <1>9 DEF StealthReply, Replied
    <3>2. local.stage = "stealth"
      BY <1>1, <3>1, StageOfReply DEF QueryType
    <3> QED
      BY <1>3, <3>2 DEF LocalFits
  <2>3. Working(h) <=> works
    BY <1>1, <1>5, <2>1, <2>2 DEF Proving
  <2>4. CASE works \/ Len(local.todo) = 1
    <3>1. works \in BOOLEAN
      BY <2>3 DEF Working
    <3>2. Classifies(Stealth(works))
      BY <2>1, <2>4
    <3> HIDE DEF works, h
    <3> QED
      BY <1>7, <2>2, <2>3, <3>1, <3>2
  <2>5. CASE ~(works \/ Len(local.todo) = 1)
    <3> DEFINE todo == Tail(local.todo)
               l == [local EXCEPT !.todo = todo]
    <3>1. Handled(<<>>, at, l)
      BY <2>1, <2>5
    <3> HIDE DEF todo
    <3>2. l.stage = "stealth" /\ l.left = local.left /\ l.self = local.self
      BY <1>3, <2>2 DEF LocalsType
    <3>3. \A g : ~Proving(g)
      BY <2>5 DEF Proving
    <3> HIDE DEF l
    <3>4. TellsNames'
      BY <1>2, <1>4, <3>1, <3>2, <3>3, NameAsked
    <3> QED
      BY <3>4 DEF NamesInv
  <2> QED
    BY <2>4, <2>5
<1> QED
  BY <1>6, <1>8, <1>9

\* It hears of a nameserver, or of an address of the name at hand.
LEMMA NamesHear ==
    ASSUME ZoneType, LogInv, NamesInv, Hears("ns_classification")
    PROVE  NamesInv'
<1>1. PICK r \in Answers[query.type] \cup Silences : Returns(r)
  BY DEF Hears
<1>2. /\ check = "ns_classification" /\ query # Nil /\ reply = Nil /\ reply' = r
      /\ UNCHANGED <<ran, check, at, query, local, results, delegation>>
      /\ log' = IF r.status = "ok" THEN log \cup {[query |-> query, reply |-> r]} ELSE log
  BY <1>1 DEF Hears, Returns, walkVars
<1>3. CheckType /\ DiscoveryInv /\ check # Nil /\ QueryFits
      /\ query.check = "ns_classification" /\ query.type \in {"NS", "SOA"}
  BY <1>2, AskedByCheck, ChecksAssumption DEF ZoneType, CheckType, ExchangeType, TypesOf, Checks
<1>4. r # Nil /\ (r.status # "ok" => r.rrs = <<>>) /\ (r.status = "ok" <=> r \notin Silences)
  <2>1. r \in Answers[query.type] => r.status = "ok" /\ r # Nil
    BY <1>3, OnlyAnswersAreOk DEF QueryTypes
  <2>2. r \in Silences => r.status # "ok" /\ r.rrs = <<>> /\ r # Nil
    BY OnlyAnswersAreOk
  <2> QED
    BY <1>1, <2>1, <2>2
<1>5. "ns_classification" \in ran /\ LocalFits(local, at) /\ local.stage \in StagesOf(check)
  BY <1>2, <1>3, CheckIsFit
<1>6. LogOf("ns_classification")' =
         IF r.status = "ok" THEN LogOf("ns_classification") \cup {[query |-> query, reply |-> r]}
         ELSE LogOf("ns_classification")
  BY <1>2, <1>3 DEF LogOf
<1>7. Of("ns_classification")' = Of("ns_classification") /\ ParentHosts' = ParentHosts
      /\ NamesTold' = NamesTold /\ NamesLeft' = NamesLeft
  BY <1>2 DEF Of, ParentHosts, NamesTold, NamesLeft
<1>8. CASE local.stage = "servers"
  <2>1. query.type = "NS"
    BY <1>2, <1>3, <1>8 DEF QueryFits, Question, QueryType
  <2>2. ListsNames
    BY <1>2, <1>5, <1>8 DEF NamesInv, TellsNames
  <2>3. ListedNames' = ListedNames \cup ToSet(r.rrs)
    <3>1. CASE r.status = "ok"
      <4> DEFINE e == [query |-> query, reply |-> r]
                 old == {x \in LogOf("ns_classification") : x.query.type = "NS"}
      <4>1. {x \in LogOf("ns_classification")' : x.query.type = "NS"} = old \cup {e}
        BY <1>6, <2>1, <3>1
      <4>2. e.reply = r
        OBVIOUS
      <4>3. ListedNames = UNION {ToSet(x.reply.rrs) : x \in old}
        BY DEF ListedNames
      <4>4. ListedNames' = UNION {ToSet(x.reply.rrs) : x \in old \cup {e}}
        BY <4>1 DEF ListedNames
      <4> HIDE DEF e, old
      <4> QED
        BY <4>2, <4>3, <4>4
    <3>2. CASE r.status # "ok"
      BY <1>4, <1>6, <3>2, ElementsOfNone DEF ListedNames
    <3> QED
      BY <3>1, <3>2
  <2>4. ListsNames'
    <3>1. \A e \in LogOf("ns_classification")' : e.query.type = "NS"
      BY <1>6, <2>1, <2>2 DEF ListsNames
    <3>2. ListedNames' = local.self \cup ToSet(r.rrs)
      BY <1>2, <2>2, <2>3 DEF ListsNames
    <3> QED
      BY <1>2, <1>4, <1>7, <2>2, <3>1, <3>2 DEF ListsNames
  <2> QED
    BY <2>4 DEF NamesInv
<1>9. CASE local.stage # "servers"
  <2> DEFINE h == Head(local.left)
  <2>1. local.stage = "stealth" /\ local.todo # <<>> /\ query = Head(local.todo)
    BY <1>2, <1>3, <1>5, <1>9 DEF QueryFits, StagesOf
  <2>2. query.type = "SOA" /\ query.ns.host = h
    <3>1. local.todo \in Seq(Questions)
      BY <1>5 DEF LocalFits, LocalsType, ToDo
    <3>2. 1 \in 1..Len(local.todo) /\ query = local.todo[1]
      BY <2>1, <3>1
    <3>3. IsStealth(query, h)
      BY <1>5, <2>1, <3>2 DEF LocalFits
    <3> QED
      BY <3>3 DEF IsStealth, Question
  <2>3. TellsNames /\ NamesLeft = local.left
    BY <1>2, <1>5, <1>9 DEF NamesInv, ListsNames, NamesLeft
  <2>4. local.left \in Seq(Hosts) /\ local.left # <<>>
    BY <1>5, <2>1 DEF LocalFits
  <2>5. ListedNames' = ListedNames
    <3>1. {x \in LogOf("ns_classification")' : x.query.type = "NS"}
             = {x \in LogOf("ns_classification") : x.query.type = "NS"}
      BY <1>6, <2>2
    <3> QED
      BY <3>1 DEF ListedNames
  <2> DEFINE proves == r.status = "ok" /\ r.aa /\ r.rrs # <<>>
  <2>6. \A g : Working(g)' <=> Working(g) \/ (g = h /\ proves)
    <3> DEFINE works(e, g) ==
                 e.query.type = "SOA" /\ e.query.ns.host = g /\ e.reply.aa /\ e.reply.rrs # <<>>
               new == [query |-> query, reply |-> r]
    <3>1. \A g : Working(g) <=> \E e \in LogOf("ns_classification") : works(e, g)
      BY DEF Working
    <3>2. \A g : Working(g)' <=> \E e \in LogOf("ns_classification")' : works(e, g)
      BY DEF Working
    <3>3. \A g : works(new, g) <=> g = h /\ r.aa /\ r.rrs # <<>>
      BY <2>2
    <3> HIDE DEF works, new
    <3>4. LogOf("ns_classification")' = IF r.status = "ok" THEN LogOf("ns_classification") \cup {new}
                                        ELSE LogOf("ns_classification")
      BY <1>6 DEF new
    <3> QED
      BY <3>1, <3>2, <3>3, <3>4
  <2>7. \A g : ~Proving(g) /\ (Proving(g)' <=> g = h /\ proves)
    BY <1>2, <1>4, <2>1 DEF Proving, Answered
  <2> HIDE DEF proves
  <2>8. ASSUME NEW k \in 1..Len(Of("ns_classification"))
        PROVE  Classified(Of("ns_classification")[k])'
    <3> DEFINE mine == Of("ns_classification")
    <3>0. PICK told : told = mine[k].host
      OBVIOUS
    <3>1. told \in ToSet(NamesTold)
      <4>1. mine \in Seq(ProbeResult)
        BY <1>3, OfCheck
      <4>2. \A list \in Seq(ProbeResult) : \A j \in 1..Len(list) :
               list[j].host \in ToSet(Image(list, HostOf))
        BY HostsTold
      <4> QED
        BY <2>8, <3>0, <4>1, <4>2 DEF NamesTold
    <3>2. told # h
      BY <2>3, <2>4, <3>1, NamesDiffer
    <3>3. Working(told)' <=> Working(told)
      BY <2>6, <3>2
    <3>4. Classified(mine[k])
      BY <2>3, <2>8 DEF TellsNames
    <3>5. Of("ns_classification")'[k].host = told
      BY <1>7, <3>0
    <3> QED
      BY <1>7, <2>5, <3>0, <3>3, <3>4, <3>5 DEF Classified, OneIf
  <2>9. \A g \in ToSet(NamesLeft)' : Working(g)' <=> Proving(g)'
    BY <1>7, <2>3, <2>6, <2>7 DEF TellsNames
  <2>10. (NamesTold \o NamesLeft)' = Filter(Sorted, ParentHosts \cup ListedNames)'
    BY <1>7, <2>3, <2>5 DEF TellsNames
  <2>11. TellsNames'
    BY <1>2, <1>7, <2>3, <2>5, <2>8, <2>9, <2>10 DEF TellsNames
  <2> QED
    BY <2>11 DEF NamesInv
<1> QED
  BY <1>8, <1>9

LEMMA NamesStep ==
    ASSUME ZoneType, LogInv, NamesInv, ProbeZone \/ Deadline
    PROVE  NamesInv'
<1>1. "ns_classification" \in Checks /\ "ns_classification" # Nil /\ CheckType /\ DiscoveryInv
  BY ChecksAssumption DEF Checks, ZoneType
<1>2. CASE Apart("ns_classification")
  <2>1. /\ check # "ns_classification" /\ check' # "ns_classification"
        /\ "ns_classification" \in ran' <=> "ns_classification" \in ran
        /\ Of("ns_classification")' = Of("ns_classification")
        /\ LogOf("ns_classification")' = LogOf("ns_classification")
        /\ "ns_classification" \in ran => UNCHANGED delegation
    BY <1>2 DEF Apart
  <2>2. NamesLeft = <<>> /\ ~ListsNames
    BY <2>1 DEF NamesLeft, ListsNames
  <2> QED
    BY <2>1, <2>2, NamesKept
<1>3. CASE Starts("ns_classification")
  <2>1. /\ "ns_classification" \notin ran /\ check' = "ns_classification" /\ local' = Locals
        /\ Of("ns_classification")' = Of("ns_classification")
        /\ LogOf("ns_classification")' = LogOf("ns_classification")
        /\ reply' = reply /\ check = Nil
    BY <1>3 DEF Starts, StartCheck, Of, LogOf
  <2>2. Of("ns_classification") = <<>> /\ LogOf("ns_classification") = {}
    BY <2>1, NotRun
  <2>3. reply = Nil
    BY <1>1, <2>1 DEF CheckType, ExchangeType
  <2>4. ListedNames' = {}
    BY <2>1, <2>2 DEF ListedNames
  <2>5. ListsNames'
    BY <2>1, <2>2, <2>3, <2>4 DEF ListsNames, Locals
  <2> QED
    BY <2>5 DEF NamesInv
<1>4. CASE Ends("ns_classification")
  <2>1. /\ Of("ns_classification")' = Of("ns_classification")
        /\ LogOf("ns_classification")' = LogOf("ns_classification")
        /\ check' = Nil /\ check = "ns_classification" /\ UNCHANGED <<ran, delegation>>
        /\ local.stage = "classify" /\ local.left = <<>>
    BY <1>4 DEF Ends, EndCheck, Of, LogOf, walkVars
  <2>2. ~ListsNames /\ NamesLeft = <<>>
    BY <2>1 DEF ListsNames, NamesLeft
  <2> QED
    BY <1>1, <2>1, <2>2, NamesKept
<1>5. CASE Steady("ns_classification")
  <2>1. /\ Of("ns_classification")' = Of("ns_classification")
        /\ LogOf("ns_classification")' = LogOf("ns_classification") /\ check = "ns_classification"
        /\ UNCHANGED <<ran, check, reply, local, delegation>>
    BY <1>5 DEF Steady, Of, LogOf
  <2> QED
    BY <2>1, NamesKept
<1>6. CASE Acts("ns_classification")
  <2>1. NSClassification
    BY <1>1, <1>6, OwnSteps DEF Acts
  <2> QED
    BY <1>6, <2>1, NamesTaken, NamesSorted, NamesActs DEF NSClassification
<1> QED
  BY <1>1, <1>2, <1>3, <1>4, <1>5, <1>6, NamesHear, Moves

\* What it comes to when ns_classification has run.
LEMMA NamesTell ==
    ASSUME ZoneType, LogInv, NamesInv
    PROVE  ClassificationIsExact
<1> DEFINE mine == Of("ns_classification")
           hosts == [k \in DOMAIN mine |-> mine[k].host]
           named == UNION {ToSet(e.reply.rrs) : e \in
                       {e \in log : e.query.check = "ns_classification" /\ e.query.type = "NS"}}
           working(h) == \E e \in log :
               /\ e.query.check = "ns_classification" /\ e.query.type = "SOA"
               /\ e.query.ns.host = h /\ e.reply.aa /\ e.reply.rrs # <<>>
<1>1. SUFFICES ASSUME Ran("ns_classification")
               PROVE  /\ IsInjective(hosts)
                      /\ {r.host : r \in ToSet(mine)} = ParentHosts \cup named
                      /\ \A r \in ToSet(mine) :
                            /\ r.labels.classification =
                                  IF r.host \notin named THEN "parent-only"
                                  ELSE IF r.host \in ParentHosts THEN "both" ELSE "self-only"
                            /\ r.labels.classification = "self-only" =>
                                  r.metrics.ns_stealth_reachable = OneIf(working(r.host))
  BY Zenon DEF ClassificationIsExact
<1>2. "ns_classification" \in ran /\ check # "ns_classification" /\ CheckType
  BY <1>1, RanToTheEnd, ChecksAssumption DEF Checks, ZoneType
<1>3. TellsNames
  BY <1>2 DEF NamesInv, ListsNames
<1>4. named = ListedNames
  <2>1. {e \in log : e.query.check = "ns_classification" /\ e.query.type = "NS"}
          = {e \in LogOf("ns_classification") : e.query.type = "NS"}
    BY DEF LogOf
  <2> QED
    BY <2>1 DEF ListedNames
<1>5. \A h : OneIf(working(h)) = OneIf(Working(h))
  BY DEF Working, LogOf, OneIf
<1>6. mine \in Seq(ProbeResult)
  BY <1>2, OfCheck
<1>7. NamesTold = Filter(Sorted, ParentHosts \cup ListedNames)
  <2>1. NamesLeft = <<>>
    BY <1>2 DEF NamesLeft
  <2>2. NamesTold \in Seq(Hosts \cup {NoHost})
    BY NamesAreHosts
  <2>3. NamesTold \o <<>> = NamesTold
    BY <2>2
  <2> QED
    BY <1>3, <2>1, <2>3 DEF TellsNames
<1>8. hosts = NamesTold
  <2>1. \A k \in DOMAIN mine : HostOf[mine[k]] = mine[k].host
    BY <1>6 DEF HostOf
  <2> HIDE DEF mine
  <2> QED
    BY <2>1 DEF NamesTold, Image, mine
<1>9. ToSet(NamesTold) = ParentHosts \cup ListedNames /\ IsInjective(NamesTold)
  <2> DEFINE S == ParentHosts \cup ListedNames
  <2>1. S \subseteq Hosts
    BY NamesAreHosts
  <2>2. NamesTold = Filter(Sorted, S)
    BY <1>7
  <2> HIDE DEF S
  <2>3. ToSet(Filter(Sorted, S)) = S /\ IsInjective(Filter(Sorted, S))
    <3>1. Sorted \in Seq(Hosts) /\ ToSet(Sorted) = Hosts /\ IsInjective(Sorted)
      BY SortedAssumption
    <3>2. ToSet(Filter(Sorted, S)) = ToSet(Sorted) \cap S
      BY <3>1, FilterKeeps
    <3>3. IsInjective(Filter(Sorted, S))
      BY <3>1, FilterInjective
    <3> QED
      BY <2>1, <3>1, <3>2, <3>3
  <2> QED
    BY <2>2, <2>3 DEF S
<1>10. {r.host : r \in ToSet(mine)} = ToSet(hosts)
  BY <1>6 DEF ToSet
<1>11. ASSUME NEW r \in ToSet(mine) PROVE Classified(r)
  <2>1. PICK k \in 1..Len(mine) : r = mine[k]
    BY <1>6 DEF ToSet
  <2> QED
    BY <1>3, <2>1 DEF TellsNames
<1> HIDE DEF mine, hosts, named, working
<1> QED
  BY <1>4, <1>5, <1>8, <1>9, <1>10, <1>11 DEF Classified

LEMMA NamesCycleStep ==
    ASSUME CycleType, VerdictInv, NamesInv, [Next]_vars
    PROVE  NamesInv'
<1>1. CASE GoroutineStep \/ DeadlinePasses
  BY <1>1, NamesStep DEF GoroutineStep, DeadlinePasses, CycleType, VerdictInv
<1>2. CASE ZoneReturns
  BY <1>2, AllGone, ChecksAssumption DEF CycleType, NamesInv, Checks
<1>3. CASE (\E g \in DOMAIN CfgZones : OtherReturns(g)) \/ Publishing \/ UNCHANGED vars
  <2>1. UNCHANGED probeVars
    BY <1>3 DEF OtherReturns, Publishing, vars
  <2>2. UNCHANGED <<delegation, check, local, reply, ran, log, results>>
    BY <2>1 DEF probeVars, checkVars, walkVars
  <2>3. check # "ns_classification" => NamesLeft = <<>> /\ ~ListsNames
    BY DEF NamesLeft, ListsNames
  <2> QED
    BY <2>2, <2>3, NamesKept DEF Of, LogOf
<1> QED
  BY <1>1, <1>2, <1>3 DEF Next

\* ns_classification gives every name that the parent or a nameserver lists
\* one result, in alphabetical order, that says who lists it, although some
\* nameservers did not answer; a name that only the nameservers list is
\* reachable exactly when one of its addresses has answered with authority
\* (ns_classification.go:51-178).
THEOREM ClassificationTheorem == Spec => []ClassificationIsExact
<1>1. Init => VerdictInv /\ NamesInv
  BY VerdictInit DEF Init, ProbeInit, ChecksIdle, NamesInv
<1>2. CycleType /\ VerdictInv /\ NamesInv /\ [Next]_vars => VerdictInv' /\ NamesInv'
  BY VerdictStep, NamesCycleStep
<1>3. CycleType /\ VerdictInv /\ NamesInv => ClassificationIsExact
  BY NamesTell DEF CycleType, VerdictInv
<1> QED
  BY <1>1, <1>2, <1>3, CycleTypeInvariant, PTL DEF Spec
-----------------------------------------------------------------------------
(* glue: both views, and a failure for each nameserver that gave none.     *)

\* The nameservers of those results of a list that are in a set.
PairOf == [r \in ProbeResult |-> [host |-> r.host, ip |-> r.ip]]
Pairs(list, S) == Image(Filter(list, S), PairOf)

\* The results of a view, and the failures.
InView(metric, source) ==
    {r \in ProbeResult : metric \in DOMAIN r.metrics /\ r.ok /\ r.labels.source = source}
Failures == {r \in ProbeResult : ~r.ok}

LEMMA PairsConcat ==
    ASSUME NEW list \in Seq(ProbeResult), NEW more \in Seq(ProbeResult), NEW S
    PROVE  /\ Pairs(list, S) \in Seq(Target) /\ Pairs(more, S) \in Seq(Target)
           /\ Pairs(list \o more, S) = Pairs(list, S) \o Pairs(more, S)
<1> DEFINE f == PairOf
           V == Target
           s == Filter(list, S)
           t == Filter(more, S)
<1>1. f \in [ProbeResult -> V]
  BY DEF PairOf, ProbeResult, Target
<1>2. s \in Seq(ProbeResult) /\ t \in Seq(ProbeResult)
  BY FilterKeeps
<1>3. Filter(list \o more, S) = s \o t
  BY FilterConcat
<1> HIDE DEF f, V, s, t
<1>4. Image(s, f) \in Seq(V) /\ Image(t, f) \in Seq(V)
  BY <1>1, <1>2, ImageKeeps
<1>5. Image(s \o t, f) = Image(s, f) \o Image(t, f)
  BY <1>1, <1>2, ImageConcat
<1> QED
  BY <1>3, <1>4, <1>5 DEF Pairs, f, V, s, t

LEMMA PairsNone ==
    ASSUME NEW list \in Seq(ProbeResult), NEW S, ToSet(list) \cap S = {}
    PROVE  Pairs(list, S) = <<>>
<1>1. Filter(list, S) = <<>>
  BY FilterOut
<1> QED
  BY <1>1, ImageNone DEF Pairs

\* A list of glue's results is in the view that it is made for, in no other.
LEMMA GlueShown ==
    ASSUME NEW entries \in Seq(Nameserver), NEW metric, NEW source,
           NEW rs \in Seq(ProbeResult), rs = GlueResults(entries, metric, source)
    PROVE  /\ Pairs(rs, InView(metric, source)) = entries
           /\ \A m, s : m # metric \/ s # source => Pairs(rs, InView(m, s)) = <<>>
           /\ Pairs(rs, Failures) = <<>>
<1> DEFINE n == Len(entries)
<1>1. n \in Nat /\ DOMAIN entries = 1..n /\ \A k \in 1..n : entries[k] \in Nameserver
  OBVIOUS
<1>2. rs = [k \in 1..n |-> GlueResult(entries[k], metric, source)]
  BY <1>1 DEF GlueResults
<1> HIDE DEF n
<1>3. Len(rs) = n /\ DOMAIN rs = 1..n /\ \A k \in 1..n : rs[k] \in ProbeResult
  <2>1. DOMAIN rs = 1..n /\ Len(rs) = n
    <3>1. \A l \in Seq(ProbeResult) : \A d \in Nat : DOMAIN l = 1..d => Len(l) = d
      OBVIOUS
    <3> QED
      BY <1>1, <1>2, <3>1
  <2> QED
    BY <2>1
<1>4. ASSUME NEW k \in 1..n
      PROVE  /\ rs[k].ok /\ rs[k].labels.source = source /\ DOMAIN rs[k].metrics = {metric}
             /\ PairOf[rs[k]] = entries[k]
  <2> DEFINE labels == [source |-> source]
             metrics == [m \in {metric} |-> 1]
             e == entries[k]
             r == [Result(e.host, e.ip, TRUE, FALSE) EXCEPT !.labels = labels, !.metrics = metrics]
  <2>1. rs[k] = r /\ r \in ProbeResult
    BY <1>2, <1>3 DEF GlueResult
  <2>2. labels.source = source /\ DOMAIN metrics = {metric}
    OBVIOUS
  <2> HIDE DEF labels, metrics
  <2>3. r.ok /\ r.labels = labels /\ r.metrics = metrics /\ r.host = e.host /\ r.ip = e.ip
    BY DEF Result
  <2> HIDE DEF r
  <2>4. PairOf[r] = [host |-> e.host, ip |-> e.ip]
    BY <2>1, <2>3 DEF PairOf
  <2>5. e = [host |-> e.host, ip |-> e.ip]
    BY <1>1 DEF Nameserver
  <2> HIDE DEF e
  <2> QED
    BY <2>1, <2>2, <2>3, <2>4, <2>5 DEF e
<1>5. ToSet(rs) \subseteq InView(metric, source)
  BY <1>3, <1>4 DEF ToSet, InView
<1>6. ASSUME NEW m, NEW s, m # metric \/ s # source PROVE ToSet(rs) \cap InView(m, s) = {}
  BY <1>3, <1>4, <1>6 DEF ToSet, InView
<1>7. ToSet(rs) \cap Failures = {}
  BY <1>3, <1>4 DEF ToSet, Failures
<1>8. Pairs(rs, InView(metric, source)) = entries
  <2>1. Filter(rs, InView(metric, source)) = rs
    BY <1>5, FilterAll
  <2>2. DOMAIN rs = 1..n /\ entries = [k \in 1..n |-> entries[k]]
    BY <1>1, <1>3
  <2>3. Image(rs, PairOf) = [k \in 1..n |-> PairOf[rs[k]]]
    BY <2>2 DEF Image
  <2> QED
    BY <1>4, <2>1, <2>2, <2>3 DEF Pairs
<1> QED
  BY <1>6, <1>7, <1>8, PairsNone

\* A failure is in no view.
LEMMA FailureShown ==
    ASSUME NEW r \in ProbeResult, ~r.ok, NEW ns \in Server, r.host = ns.host, r.ip = ns.ip
    PROVE  /\ <<r>> \in Seq(ProbeResult) /\ Pairs(<<r>>, Failures) = <<ns>>
           /\ \A m, s : Pairs(<<r>>, InView(m, s)) = <<>>
<1> DEFINE list == <<r>>
<1>1. list \in Seq(ProbeResult) /\ ToSet(list) = {r} /\ DOMAIN list = {1} /\ list[1] = r
  BY DEF ToSet
<1>2. ns = [host |-> r.host, ip |-> r.ip]
  BY DEF Server
<1>3. Image(list, PairOf) = <<ns>>
  <2>1. PairOf[r] = ns
    BY <1>2 DEF PairOf
  <2>2. Image(list, PairOf) = [k \in {1} |-> PairOf[list[k]]]
    BY <1>1 DEF Image
  <2> HIDE DEF list
  <2> QED
    BY <1>1, <2>1, <2>2
<1> HIDE DEF list
<1>4. Filter(list, Failures) = list
  BY <1>1, FilterAll DEF Failures
<1>5. \A m, s : ToSet(list) \cap InView(m, s) = {}
  BY <1>1 DEF InView
<1>6. \A m, s : Pairs(list, InView(m, s)) = <<>>
  BY <1>1, <1>5, PairsNone
<1> QED
  BY <1>1, <1>3, <1>4, <1>6 DEF Pairs, list

\* The addresses that a nameserver has reported of itself and that have a
\* result, in their order; those of the turn under way that have none yet.
SelfShown == Pairs(Of("glue"), InView("ns_record", "self"))
Unshown ==
    IF check = "glue" /\ local.stage = "addresses"
    THEN ToSet(local.own) \cup (IF reply = Nil THEN {}
            ELSE {[host |-> query.name, ip |-> ip] : ip \in ToSet(reply.rrs)})
    ELSE {}

\* The nameservers whose turn is over, and those that gave no NS set.
FirstServers(n) == [k \in 1..n |-> nameservers[k]]
Past == IF check = "glue" THEN FirstServers(at - 1) ELSE nameservers
Mute == {ns \in ToSet(nameservers) : Heard("glue", "NS", ns) = {}}

\* It has not begun,
GlueStarts ==
    /\ check = "glue" /\ local.stage = "start" /\ at = 1 /\ local.emitted = {}
    /\ Of("glue") = <<>> /\ LogOf("glue") = {}

\* or shows both views as far as it has come; no nameserver has given its NS
\* set before its turn.
GlueTurn ==
    /\ local.stage \in {"servers", "addresses"} /\ local.emitted = ToSet(SelfShown)
    /\ \A k \in at..Len(nameservers) :
          Heard("glue", "NS", nameservers[k]) # {} <=>
             k = at /\ (local.stage = "addresses" \/ (reply # Nil /\ Answered))

ParentShown ==
    /\ Pairs(Of("glue"), InView("ns_record", "parent")) = delegation.nsRecords
    /\ Pairs(Of("glue"), InView("ns_glue", "parent")) = delegation.glue

GlueViews ==
    /\ ParentShown
    /\ Pairs(Of("glue"), InView("ns_glue", "self")) = SelfShown /\ IsInjective(SelfShown)
    /\ OwnView = ToSet(SelfShown) \cup Unshown
    /\ Pairs(Of("glue"), Failures) = Filter(Past, Mute)
    /\ check = "glue" => GlueTurn

GlueInv == "glue" \in ran => GlueStarts \/ GlueViews

\* What depends on the log of the check alone.
LEMMA OwnLog ==
    ASSUME LogOf("glue")' = LogOf("glue")
    PROVE  OwnView' = OwnView /\ \A ns : Heard("glue", "NS", ns)' = Heard("glue", "NS", ns)
<1>1. /\ OwnView = UNION {{[host |-> e.query.name, ip |-> ip] : ip \in ToSet(e.reply.rrs)} :
                            e \in {e \in LogOf("glue") : e.query.type # "NS"}}
      /\ \A ns : Heard("glue", "NS", ns)
                   = {e \in LogOf("glue") : e.query.type = "NS" /\ e.query.ns = ns}
  <2>1. {e \in log : e.query.check = "glue" /\ e.query.type # "NS"}
          = {e \in LogOf("glue") : e.query.type # "NS"}
    BY DEF LogOf
  <2>2. \A ns : Heard("glue", "NS", ns)
                  = {e \in LogOf("glue") : e.query.type = "NS" /\ e.query.ns = ns}
    BY DEF LogOf, Heard
  <2> QED
    BY <2>1, <2>2 DEF OwnView
<1>2. /\ OwnView' = UNION {{[host |-> e.query.name, ip |-> ip] : ip \in ToSet(e.reply.rrs)} :
                            e \in {e \in LogOf("glue")' : e.query.type # "NS"}}
      /\ \A ns : Heard("glue", "NS", ns)'
                   = {e \in LogOf("glue")' : e.query.type = "NS" /\ e.query.ns = ns}
  <2>1. {e \in log' : e.query.check = "glue" /\ e.query.type # "NS"}
          = {e \in LogOf("glue")' : e.query.type # "NS"}
    BY DEF LogOf
  <2>2. \A ns : Heard("glue", "NS", ns)'
                  = {e \in LogOf("glue")' : e.query.type = "NS" /\ e.query.ns = ns}
    BY DEF LogOf, Heard
  <2> QED
    BY <2>1, <2>2 DEF OwnView
<1> QED
  BY <1>1, <1>2

\* A step that leaves what the invariant mentions.
LEMMA GlueKept ==
    ASSUME GlueInv, Of("glue")' = Of("glue"), LogOf("glue")' = LogOf("glue"),
           "glue" \in ran' => "glue" \in ran /\ UNCHANGED <<nameservers, delegation>>,
           check' = "glue" => UNCHANGED <<check, at, reply, local>>
                                 /\ (reply # Nil => query' = query),
           check' # "glue" /\ "glue" \in ran =>
              Unshown = {} /\ Past = nameservers /\ ~GlueStarts
    PROVE  GlueInv'
<1> SUFFICES ASSUME "glue" \in ran' PROVE (GlueStarts \/ GlueViews)'
  BY DEF GlueInv
<1>1. OwnView' = OwnView /\ \A ns : Heard("glue", "NS", ns)' = Heard("glue", "NS", ns)
  BY OwnLog
<1>2. SelfShown' = SelfShown /\ Mute' = Mute /\ ParentShown' = ParentShown
  BY <1>1 DEF SelfShown, Mute, ParentShown
<1>3. CASE GlueStarts
  BY <1>3 DEF GlueStarts
<1>4. CASE GlueViews
  <2>1. Unshown' = Unshown
    <3>1. CASE check' = "glue"
      BY <3>1 DEF Unshown
    <3>2. CASE check' # "glue"
      BY <3>2 DEF Unshown
    <3> QED
      BY <3>1, <3>2
  <2>2. Past' = Past
    BY DEF Past, FirstServers
  <2>3. check' = "glue" => GlueTurn'
    BY <1>1, <1>2, <1>4 DEF GlueViews, GlueTurn, Answered
  <2> QED
    BY <1>1, <1>2, <1>4, <2>1, <2>2, <2>3 DEF GlueViews
<1> QED
  BY <1>3, <1>4 DEF GlueInv

\* The nameservers up to the present one, which is none of those before it.
LEMMA ServersSoFar ==
    ASSUME DiscoveryInv, at \in 1..Len(nameservers)
    PROVE  /\ FirstServers(at - 1) \in Seq(Server) /\ Current \in Server
           /\ FirstServers(at) = Append(FirstServers(at - 1), Current)
           /\ Current \notin ToSet(FirstServers(at - 1)) /\ Current \in ToSet(nameservers)
           /\ \A k \in 1..Len(nameservers) : nameservers[k] = Current <=> k = at
<1> DEFINE n == at - 1
           s == FirstServers(n)
<1>1. /\ nameservers \in Seq(Server) /\ Len(nameservers) \in Nat /\ NameserversAreDistinct
  BY DEF DiscoveryInv, DiscoveryType
<1>2. /\ n \in Nat /\ at = n + 1 /\ n + 1 \in 1..Len(nameservers) /\ Current = nameservers[n + 1]
  BY <1>1 DEF Current
<1> HIDE DEF n
<1>3. /\ s \in Seq(Server) /\ Len(s) = n /\ \A k \in 1..n : s[k] = nameservers[k]
  BY <1>1, <1>2 DEF FirstServers
<1>4. \A k \in 1..Len(nameservers) : nameservers[k] = Current <=> k = at
  BY <1>1, <1>2 DEF NameserversAreDistinct
<1>5. Current \notin ToSet(s)
  BY <1>1, <1>2, <1>3, <1>4 DEF ToSet
<1>6. Current \in Server /\ Current \in ToSet(nameservers)
  BY <1>1, <1>2 DEF ToSet
<1>7. FirstServers(n + 1) = Append(s, Current)
  <2> DEFINE a == Append(s, Current)
             f == FirstServers(n + 1)
  <2>1. /\ a \in Seq(Server) /\ Len(a) = n + 1 /\ a[n + 1] = Current
        /\ \A k \in 1..n : a[k] = nameservers[k]
    BY <1>2, <1>3, <1>6
  <2>2. f \in Seq(Server) /\ Len(f) = n + 1 /\ \A k \in 1..(n + 1) : f[k] = nameservers[k]
    BY <1>1, <1>2 DEF FirstServers
  <2> HIDE DEF a, f, s
  <2>3. \A k \in 1..(n + 1) : a[k] = f[k]
    BY <1>2, <2>1, <2>2
  <2> QED
    BY <2>1, <2>2, <2>3 DEF a, f
<1> QED
  BY <1>2, <1>3, <1>4, <1>5, <1>6, <1>7 DEF s

\* At the end they are all the nameservers.
LEMMA AllServers ==
    ASSUME DiscoveryInv
    PROVE  FirstServers(Len(nameservers)) = nameservers
<1>1. nameservers \in Seq(Server)
  BY DEF DiscoveryInv, DiscoveryType
<1> QED
  BY <1>1 DEF FirstServers

\* What it comes to when glue has run.
LEMMA GlueSees ==
    ASSUME ZoneType, LogInv, GlueInv
    PROVE  GlueSeesBothViews
<1> DEFINE mine == Of("glue")
           pairs(s) == [k \in DOMAIN s |-> [host |-> s[k].host, ip |-> s[k].ip]]
           shown(metric, source) ==
               Filter(With("glue", metric), {r \in ToSet(mine) : r.ok /\ r.labels.source = source})
           failed == Filter(mine, {r \in ToSet(mine) : ~r.ok})
           mute == {ns \in ToSet(nameservers) : Heard("glue", "NS", ns) = {}}
<1>1. SUFFICES ASSUME Ran("glue")
               PROVE  /\ pairs(shown("ns_record", "parent")) = delegation.nsRecords
                      /\ pairs(shown("ns_glue", "parent")) = delegation.glue
                      /\ \A metric \in {"ns_record", "ns_glue"} :
                            /\ ToSet(pairs(shown(metric, "self"))) = OwnView
                            /\ IsInjective(pairs(shown(metric, "self")))
                      /\ pairs(failed) = Filter(nameservers, mute)
  BY Zenon DEF GlueSeesBothViews
<1>2. "glue" \in ran /\ check # "glue" /\ CheckType
  BY <1>1, RanToTheEnd, ChecksAssumption DEF Checks, ZoneType
<1>3. GlueViews /\ Unshown = {} /\ Past = nameservers
  BY <1>2 DEF GlueInv, GlueStarts, Unshown, Past
<1> DEFINE G == {r \in ToSet(results) : r.check = "glue"}
<1>4. /\ results \in Seq(ProbeResult) /\ ToSet(results) \subseteq ProbeResult
      /\ mine = Filter(results, G) /\ mine \in Seq(ProbeResult) /\ ToSet(mine) = ToSet(results) \cap G
  <2>1. results \in Seq(ProbeResult)
    BY <1>2 DEF CheckType
  <2>2. ToSet(results) \subseteq ProbeResult
    BY <2>1 DEF ToSet
  <2> HIDE DEF G
  <2>3. Filter(results, G) \in Seq(ProbeResult) /\ ToSet(Filter(results, G)) = ToSet(results) \cap G
    BY <2>1, FilterKeeps
  <2>4. mine = Filter(results, G)
    BY DEF Of, G
  <2> QED
    BY <2>1, <2>2, <2>3, <2>4
<1>5. \A s \in Seq(ProbeResult) : pairs(s) = Image(s, PairOf)
  <2> SUFFICES ASSUME NEW s \in Seq(ProbeResult) PROVE pairs(s) = Image(s, PairOf)
    OBVIOUS
  <2>1. \A k \in DOMAIN s : PairOf[s[k]] = [host |-> s[k].host, ip |-> s[k].ip]
    BY DEF PairOf
  <2> QED
    BY <2>1 DEF Image
<1>6. ASSUME NEW metric, NEW source
      PROVE  pairs(shown(metric, source)) = Pairs(mine, InView(metric, source))
  <2> DEFINE A == {r \in ToSet(results) : r.check = "glue" /\ metric \in DOMAIN r.metrics}
             B == {r \in ToSet(mine) : r.ok /\ r.labels.source = source}
             C == InView(metric, source)
  <2>1. ToSet(results) \cap (A \cap B) = ToSet(results) \cap (G \cap C)
    BY <1>4 DEF InView
  <2>2. shown(metric, source) = Filter(Filter(results, A), B)
    BY DEF With
  <2> HIDE DEF A, B, C, G
  <2>3. Filter(Filter(results, A), B) = Filter(results, A \cap B)
    BY <1>4, FilterTwice
  <2>4. Filter(Filter(results, G), C) = Filter(results, G \cap C)
    BY <1>4, FilterTwice
  <2>5. Filter(results, A \cap B) = Filter(results, G \cap C)
    <3> DEFINE S == A \cap B
               R == G \cap C
    <3>1. ToSet(results) \cap S = ToSet(results) \cap R
      BY <2>1
    <3> HIDE DEF S, R
    <3>2. Filter(results, S) = Filter(results, R)
      BY <1>4, <3>1, FilterAgrees
    <3> QED
      BY <3>2 DEF S, R
  <2>6. shown(metric, source) = Filter(mine, C)
    BY <1>4, <2>2, <2>3, <2>4, <2>5
  <2>7. Filter(mine, C) \in Seq(ProbeResult)
    BY <1>4, FilterKeeps
  <2> HIDE DEF mine, shown, pairs
  <2> QED
    BY <1>5, <2>6, <2>7 DEF Pairs, C
<1>7. pairs(failed) = Pairs(mine, Failures)
  <2> DEFINE S == {r \in ToSet(mine) : ~r.ok}
  <2>1. ToSet(mine) \cap S = ToSet(mine) \cap Failures
    BY <1>4 DEF Failures
  <2> HIDE DEF S, mine, G
  <2>2. Filter(mine, S) = Filter(mine, Failures)
    BY <1>4, <2>1, FilterAgrees
  <2>3. Filter(mine, Failures) \in Seq(ProbeResult)
    BY <1>4, FilterKeeps
  <2>4. failed = Filter(mine, Failures)
    BY <2>2 DEF S
  <2> HIDE DEF failed, pairs
  <2> QED
    BY <1>5, <2>3, <2>4 DEF Pairs
<1> HIDE DEF pairs, shown, failed, G
<1>8. pairs(shown("ns_record", "parent")) = delegation.nsRecords
      /\ pairs(shown("ns_glue", "parent")) = delegation.glue
  BY <1>3, <1>6 DEF GlueViews, ParentShown, mine
<1>9. ASSUME NEW metric \in {"ns_record", "ns_glue"}
      PROVE  ToSet(pairs(shown(metric, "self"))) = OwnView
             /\ IsInjective(pairs(shown(metric, "self")))
  <2>1. pairs(shown(metric, "self")) = SelfShown
    BY <1>3, <1>6 DEF GlueViews, SelfShown, mine
  <2>2. IsInjective(SelfShown) /\ OwnView = ToSet(SelfShown)
    BY <1>3 DEF GlueViews
  <2> QED
    BY <2>1, <2>2
<1>10. pairs(failed) = Filter(nameservers, mute)
  BY <1>3, <1>7 DEF GlueViews, Mute, mine
<1> QED
  BY <1>8, <1>9, <1>10

\* What glue appends adds to each view; it leaves the log.
LEMMA GlueGrows ==
    ASSUME ZoneType, Acts("glue"), NEW new \in Seq(ProbeResult), NEW n, NEW l,
           Handled(new, n, l)
    PROVE  /\ \A S : Pairs(Of("glue")', S) = Pairs(Of("glue"), S) \o Pairs(new, S)
           /\ \A S : Pairs(Of("glue"), S) \in Seq(Target)
           /\ check = "glue" /\ at' = n /\ local' = l /\ reply' = Nil
           /\ UNCHANGED <<check, nameservers, delegation>>
           /\ OwnView' = OwnView /\ Mute' = Mute
           /\ \A ns : Heard("glue", "NS", ns)' = Heard("glue", "NS", ns)
<1>1. /\ Of("glue")' = Of("glue") \o new /\ at' = n /\ local' = l /\ reply' = Nil
      /\ UNCHANGED <<check, log, nameservers, delegation>>
  BY ActsAppend
<1>2. Of("glue") \in Seq(ProbeResult)
  BY OfCheck DEF ZoneType
<1>3. \A S : /\ Pairs(Of("glue"), S) \in Seq(Target)
             /\ Pairs(Of("glue") \o new, S) = Pairs(Of("glue"), S) \o Pairs(new, S)
  BY <1>2, PairsConcat
<1>4. OwnView' = OwnView /\ \A ns : Heard("glue", "NS", ns)' = Heard("glue", "NS", ns)
  BY <1>1, OwnLog DEF LogOf
<1> QED
  BY <1>1, <1>3, <1>4 DEF Mute, Acts

LEMMA GlueStays ==
    ASSUME ZoneType, Acts("glue"), NEW n, NEW l, Handled(<<>>, n, l)
    PROVE  /\ Of("glue")' = Of("glue")
           /\ check = "glue" /\ at' = n /\ local' = l /\ reply' = Nil
           /\ UNCHANGED <<check, nameservers, delegation>>
           /\ OwnView' = OwnView /\ Mute' = Mute
           /\ \A ns : Heard("glue", "NS", ns)' = Heard("glue", "NS", ns)
<1>1. /\ Of("glue")' = Of("glue") /\ at' = n /\ local' = l /\ reply' = Nil
      /\ UNCHANGED <<check, log, nameservers, delegation>>
  BY ActsAppendNone
<1>2. OwnView' = OwnView /\ \A ns : Heard("glue", "NS", ns)' = Heard("glue", "NS", ns)
  BY <1>1, OwnLog DEF LogOf
<1> QED
  BY <1>1, <1>2 DEF Mute, Acts

\* Nothing is shown of nothing.
LEMMA NothingShown == \A S : Pairs(<<>>, S) = <<>>
<1> DEFINE none == <<>>
<1>1. none \in Seq(ProbeResult) /\ \A S : ToSet(none) \cap S = {}
  BY ElementsOfNone
<1> HIDE DEF none
<1>2. \A S : Pairs(none, S) = <<>>
  BY <1>1, PairsNone
<1> QED
  BY <1>2 DEF none

\* The parent's view comes first.
LEMMA GlueBegins ==
    ASSUME ZoneType, LogInv, GlueInv, Acts("glue"), GlueParent
    PROVE  GlueInv'
<1> DEFINE stage == "servers"
           l == [local EXCEPT !.stage = stage]
           names == GlueResults(delegation.nsRecords, "ns_record", "parent")
           glue == GlueResults(delegation.glue, "ns_glue", "parent")
           new == names \o glue
<1>1. check = "glue" /\ local.stage = "start" /\ Handled(new, at, l)
      /\ check # Nil /\ CheckType /\ DiscoveryInv
  BY ChecksAssumption DEF GlueParent, ParentView, Checks, ZoneType
<1>2. /\ check \in ran /\ local \in LocalsType /\ Len(nameservers) \in Nat
      /\ delegation.nsRecords \in Seq(Nameserver) /\ delegation.glue \in Seq(Nameserver)
  BY <1>1, CheckIsFit
<1>3. GlueStarts
  BY <1>1, <1>2 DEF GlueInv, GlueViews, GlueTurn
<1>4. names \in Seq(ProbeResult) /\ glue \in Seq(ProbeResult)
  BY <1>1, <1>2, GlueResultsFit DEF NewFit
<1>5. l.stage = stage /\ l.emitted = {}
  BY <1>2, <1>3 DEF LocalsType, GlueStarts
<1>6. /\ Pairs(names, InView("ns_record", "parent")) = delegation.nsRecords
      /\ \A m, s : m # "ns_record" \/ s # "parent" => Pairs(names, InView(m, s)) = <<>>
      /\ Pairs(names, Failures) = <<>>
  <2> DEFINE entries == delegation.nsRecords
             metric == "ns_record"
             source == "parent"
  <2>1. names = GlueResults(entries, metric, source) /\ entries \in Seq(Nameserver)
    BY <1>2
  <2> HIDE DEF entries, metric, source, names
  <2>2. /\ Pairs(names, InView(metric, source)) = entries
        /\ \A m, s : m # metric \/ s # source => Pairs(names, InView(m, s)) = <<>>
        /\ Pairs(names, Failures) = <<>>
    BY <1>4, <2>1, GlueShown
  <2> QED
    BY <2>2 DEF entries, metric, source
<1>7. /\ Pairs(glue, InView("ns_glue", "parent")) = delegation.glue
      /\ \A m, s : m # "ns_glue" \/ s # "parent" => Pairs(glue, InView(m, s)) = <<>>
      /\ Pairs(glue, Failures) = <<>>
  <2> DEFINE entries == delegation.glue
             metric == "ns_glue"
             source == "parent"
  <2>1. glue = GlueResults(entries, metric, source) /\ entries \in Seq(Nameserver)
    BY <1>2
  <2> HIDE DEF entries, metric, source, glue
  <2>2. /\ Pairs(glue, InView(metric, source)) = entries
        /\ \A m, s : m # metric \/ s # source => Pairs(glue, InView(m, s)) = <<>>
        /\ Pairs(glue, Failures) = <<>>
    BY <1>4, <2>1, GlueShown
  <2> QED
    BY <2>2 DEF entries, metric, source
<1> HIDE DEF l, names, glue
<1>8. new \in Seq(ProbeResult) /\ \A S : Pairs(new, S) = Pairs(names, S) \o Pairs(glue, S)
  BY <1>4, PairsConcat
<1> HIDE DEF new
<1>9. /\ \A S : Pairs(Of("glue")', S) = Pairs(Of("glue"), S) \o Pairs(new, S)
      /\ at' = at /\ local' = l /\ reply' = Nil /\ UNCHANGED <<check, nameservers, delegation>>
      /\ OwnView' = OwnView /\ Mute' = Mute
      /\ \A ns : Heard("glue", "NS", ns)' = Heard("glue", "NS", ns)
  BY <1>1, <1>8, GlueGrows
<1>10. \A S : Pairs(Of("glue")', S) = Pairs(names, S) \o Pairs(glue, S)
  <2>1. \A S : Pairs(Of("glue"), S) = <<>>
    BY <1>3, NothingShown DEF GlueStarts
  <2>2. \A S : Pairs(new, S) \in Seq(Target)
    BY <1>8, PairsConcat
  <2>3. \A t \in Seq(Target) : <<>> \o t = t
    OBVIOUS
  <2>4. \A S : Pairs(Of("glue")', S) = Pairs(new, S)
    BY <1>9, <2>1, <2>2, <2>3
  <2> QED
    BY <1>8, <2>4
<1>11. <<>> \o <<>> = <<>>
  OBVIOUS
<1>12. ParentShown'
  <2>1. Pairs(Of("glue")', InView("ns_record", "parent")) = delegation.nsRecords
    <3>1. Pairs(glue, InView("ns_record", "parent")) = <<>>
      BY <1>7
    <3>2. delegation.nsRecords \o <<>> = delegation.nsRecords
      BY <1>2
    <3> QED
      BY <1>6, <1>10, <3>1, <3>2
  <2>2. Pairs(Of("glue")', InView("ns_glue", "parent")) = delegation.glue
    <3>1. Pairs(names, InView("ns_glue", "parent")) = <<>>
      BY <1>6
    <3>2. <<>> \o delegation.glue = delegation.glue
      BY <1>2
    <3> QED
      BY <1>7, <1>10, <3>1, <3>2
  <2> QED
    BY <1>9, <2>1, <2>2 DEF ParentShown
<1>13. SelfShown' = <<>> /\ Pairs(Of("glue")', InView("ns_glue", "self")) = <<>>
       /\ Pairs(Of("glue")', Failures) = <<>>
  BY <1>6, <1>7, <1>10, <1>11 DEF SelfShown
<1>14. OwnView = {} /\ \A ns : Heard("glue", "NS", ns) = {}
  <2>1. \A e \in log : e.query.check # "glue"
    BY <1>3 DEF GlueStarts, LogOf
  <2> QED
    BY <2>1 DEF OwnView, Heard
<1>15. Unshown' = {} /\ Past' = <<>>
  BY <1>1, <1>3, <1>5, <1>9 DEF Unshown, Past, FirstServers, GlueStarts
<1>16. GlueTurn'
  BY <1>5, <1>9, <1>13, <1>14, ElementsOfNone DEF GlueTurn
<1>17. IsInjective(<<>>)
  BY DEF IsInjective
<1>18. GlueViews'
  BY <1>9, <1>12, <1>13, <1>14, <1>15, <1>16, <1>17, FilterNone, ElementsOfNone DEF GlueViews
<1> QED
  BY <1>18 DEF GlueInv

\* While a check of a nameserver is under way it has not just begun.
LEMMA GlueUnderWay ==
    ASSUME ZoneType, GlueInv, Acts("glue"), local.stage # "start"
    PROVE  /\ GlueViews /\ GlueTurn /\ Past = FirstServers(at - 1)
           /\ SelfShown \in Seq(Target) /\ local \in LocalsType /\ DiscoveryInv
           /\ nameservers \in Seq(Server)
<1>1. check = "glue" /\ check # Nil /\ CheckType /\ DiscoveryInv
  BY ChecksAssumption DEF Acts, Checks, ZoneType
<1>2. check \in ran /\ local \in LocalsType
  BY <1>1, CheckIsFit
<1>3. Of("glue") \in Seq(ProbeResult) /\ nameservers \in Seq(Server)
  BY <1>1, OfCheck DEF DiscoveryInv, DiscoveryType
<1>4. SelfShown \in Seq(Target)
  BY <1>3, PairsConcat DEF SelfShown
<1> QED
  BY <1>1, <1>2, <1>3, <1>4 DEF GlueInv, GlueStarts, GlueViews, Past

\* A failure for the nameserver that gave no NS set.
LEMMA GlueFails ==
    ASSUME ZoneType, LogInv, GlueInv, Acts("glue"), SelfFails
    PROVE  GlueInv'
<1> DEFINE r == FailedResult(Current)
           new == <<r>>
<1>1. Replied("glue", "NS") /\ ~Answered /\ Handled(new, at + 1, local)
      /\ CheckType /\ DiscoveryInv
  BY DEF SelfFails, ZoneType
<1>2. /\ check = "glue" /\ local.stage = "servers" /\ at \in 1..Len(nameservers)
      /\ Current \in Server /\ Len(nameservers) \in Nat /\ reply # Nil
  BY <1>1, SelfStart DEF Replied
<1>3. /\ GlueViews /\ GlueTurn /\ Past = FirstServers(at - 1) /\ SelfShown \in Seq(Target)
      /\ nameservers \in Seq(Server)
  BY <1>2, GlueUnderWay
<1>4. r \in ProbeResult /\ ~r.ok /\ r.host = Current.host /\ r.ip = Current.ip
  <2>1. ResultFits(r)
    BY <1>1, <1>2, FailedFits DEF Unfailing
  <2> QED
    BY <2>1 DEF ResultFits, FailedResult, Result
<1> HIDE DEF r
<1>5. /\ new \in Seq(ProbeResult) /\ Pairs(new, Failures) = <<Current>>
      /\ \A m, s : Pairs(new, InView(m, s)) = <<>>
  BY <1>2, <1>4, FailureShown
<1> HIDE DEF new
<1>6. /\ \A S : Pairs(Of("glue")', S) = Pairs(Of("glue"), S) \o Pairs(new, S)
      /\ \A S : Pairs(Of("glue"), S) \in Seq(Target)
      /\ at' = at + 1 /\ local' = local /\ reply' = Nil
      /\ UNCHANGED <<check, nameservers, delegation>>
      /\ OwnView' = OwnView /\ Mute' = Mute
      /\ \A ns : Heard("glue", "NS", ns)' = Heard("glue", "NS", ns)
  BY <1>1, <1>5, GlueGrows
<1>7. \A m, s : Pairs(Of("glue")', InView(m, s)) = Pairs(Of("glue"), InView(m, s))
  <2>1. \A t \in Seq(Target) : t \o <<>> = t
    OBVIOUS
  <2>2. \A m, s : Pairs(Of("glue")', InView(m, s)) = Pairs(Of("glue"), InView(m, s)) \o <<>>
    BY <1>5, <1>6
  <2>3. \A m, s : Pairs(Of("glue"), InView(m, s)) \in Seq(Target)
    BY <1>6
  <2> QED
    BY <2>1, <2>2, <2>3
<1>8. ParentShown' /\ SelfShown' = SelfShown
      /\ Pairs(Of("glue")', InView("ns_glue", "self")) = SelfShown'
  BY <1>3, <1>6, <1>7 DEF GlueViews, ParentShown, SelfShown
<1>9. Unshown = {} /\ Unshown' = {}
  BY <1>2, <1>6 DEF Unshown
<1>10. Current \in Mute
  <2>1. at \in at..Len(nameservers) /\ Current = nameservers[at] /\ Current \in ToSet(nameservers)
    BY <1>1, <1>2, ServersSoFar DEF Current
  <2>2. Heard("glue", "NS", Current) = {}
    BY <1>1, <1>2, <1>3, <2>1 DEF GlueTurn
  <2> QED
    BY <2>1, <2>2 DEF Mute
<1>11. Pairs(Of("glue")', Failures) = Filter(Past, Mute)'
  <2> DEFINE s == FirstServers(at - 1)
  <2>1. s \in Seq(Server) /\ FirstServers(at) = Append(s, Current)
    BY <1>1, <1>2, ServersSoFar
  <2>2. Past' = Append(s, Current)
    BY <1>2, <1>6, <2>1 DEF Past, FirstServers
  <2> HIDE DEF s
  <2>3. Filter(Append(s, Current), Mute) = Append(Filter(s, Mute), Current)
        /\ Filter(s, Mute) \in Seq(Server)
    BY <1>2, <1>10, <2>1, FilterAppend
  <2>4. Pairs(Of("glue")', Failures) = Filter(s, Mute) \o <<Current>>
    BY <1>3, <1>5, <1>6 DEF GlueViews, s
  <2>5. Filter(s, Mute) \o <<Current>> = Append(Filter(s, Mute), Current)
    BY <1>2, <2>3
  <2> QED
    BY <1>6, <2>2, <2>3, <2>4, <2>5
<1>12. GlueTurn'
  <2>1. ASSUME NEW k \in (at + 1)..Len(nameservers)
        PROVE  Heard("glue", "NS", nameservers[k]) = {}
    <3>1. k \in at..Len(nameservers) /\ k # at
      BY <1>2
    <3> QED
      BY <1>3, <3>1 DEF GlueTurn
  <2>2. \A k \in (at + 1)..Len(nameservers) : Heard("glue", "NS", nameservers[k])' = {}
    BY <1>6, <2>1
  <2> QED
    BY <1>2, <1>3, <1>6, <1>8, <2>2 DEF GlueTurn
<1>13. GlueViews'
  BY <1>3, <1>6, <1>8, <1>9, <1>11, <1>12 DEF GlueViews
<1> QED
  BY <1>13 DEF GlueInv

\* The names of its NS set become questions; its addresses gather.
LEMMA GlueAsks ==
    ASSUME ZoneType, LogInv, GlueInv, Acts("glue"), GlueViews, GlueTurn,
           NEW l, Handled(<<>>, at, l), l.stage = "addresses", l.emitted = local.emitted,
           Unshown = ToSet(l.own), Past = FirstServers(at - 1),
           Len(nameservers) \in Nat, at \in 1..Len(nameservers),
           local.stage = "addresses" \/ (reply # Nil /\ Answered)
    PROVE  GlueInv'
<1>1. /\ Of("glue")' = Of("glue") /\ check = "glue"
      /\ at' = at /\ local' = l /\ reply' = Nil
      /\ UNCHANGED <<check, nameservers, delegation>>
      /\ OwnView' = OwnView /\ Mute' = Mute
      /\ \A ns : Heard("glue", "NS", ns)' = Heard("glue", "NS", ns)
  BY GlueStays
<1>2. ParentShown' = ParentShown /\ SelfShown' = SelfShown
  BY <1>1 DEF ParentShown, SelfShown
<1>3. Unshown' = ToSet(l.own)
  BY <1>1 DEF Unshown
<1>4. Past' = Past
  BY <1>1 DEF Past, FirstServers
<1>5. \A k \in at..Len(nameservers) :
         Heard("glue", "NS", nameservers[k])' # {} <=> k = at
  BY <1>1 DEF GlueTurn
<1>6. GlueTurn'
  BY <1>1, <1>2, <1>5 DEF GlueTurn
<1>7. GlueViews'
  BY <1>1, <1>2, <1>3, <1>4, <1>6 DEF GlueViews
<1> QED
  BY <1>7 DEF GlueInv

LEMMA GlueNames ==
    ASSUME ZoneType, LogInv, GlueInv, Acts("glue"), SelfNames
    PROVE  GlueInv'
<1> DEFINE stage == "addresses"
           none == <<>>
           todo == FlattenSeq([k \in DOMAIN reply.rrs |->
                        << Question("A", reply.rrs[k], Current),
                           Question("AAAA", reply.rrs[k], Current) >>])
           l == [local EXCEPT !.stage = stage, !.own = none, !.todo = todo]
<1>1. Replied("glue", "NS") /\ Answered /\ Handled(<<>>, at, l) /\ CheckType /\ DiscoveryInv
  BY DEF SelfNames, ZoneType
<1>2. /\ check = "glue" /\ local.stage = "servers" /\ at \in 1..Len(nameservers)
      /\ Len(nameservers) \in Nat /\ reply # Nil
  BY <1>1, SelfStart DEF Replied
<1>3. GlueViews /\ GlueTurn /\ Past = FirstServers(at - 1) /\ local \in LocalsType
  BY <1>2, GlueUnderWay
<1> HIDE DEF todo
<1>4. l.stage = "addresses" /\ l.emitted = local.emitted /\ l.own = <<>>
  <2> HIDE DEF stage, none
  <2>1. l.stage = stage /\ l.emitted = local.emitted /\ l.own = none
    BY <1>3 DEF LocalsType
  <2> QED
    BY <2>1 DEF stage, none
<1> HIDE DEF l
<1>5. Unshown = ToSet(l.own)
  BY <1>2, <1>4, ElementsOfNone DEF Unshown
<1> QED
  BY <1>1, <1>2, <1>3, <1>4, <1>5, GlueAsks

LEMMA GlueAddresses ==
    ASSUME ZoneType, LogInv, GlueInv, Acts("glue"), SelfAddresses
    PROVE  GlueInv'
<1> DEFINE new == [k \in DOMAIN reply.rrs |-> [host |-> query.name, ip |-> reply.rrs[k]]]
           todo == Tail(local.todo)
           own == local.own \o new
           l == [local EXCEPT !.todo = todo, !.own = own]
<1>1. /\ check = "glue" /\ reply # Nil /\ query.type \in {"A", "AAAA"}
      /\ Handled(<<>>, at, l) /\ CheckType /\ DiscoveryInv
  BY DEF SelfAddresses, ZoneType
<1>2. /\ local.stage = "addresses" /\ query.name \in Hosts /\ reply.rrs \in Seq(Addrs)
      /\ LocalFits(local, at) /\ at <= Len(nameservers)
  BY <1>1, AddressesStart
<1>3. /\ GlueViews /\ GlueTurn /\ Past = FirstServers(at - 1) /\ local \in LocalsType
      /\ nameservers \in Seq(Server)
  BY <1>2, GlueUnderWay
<1>4. Len(nameservers) \in Nat /\ at \in 1..Len(nameservers)
  BY <1>2, <1>3 DEF LocalFits
<1>5. new \in Seq(Server) /\ ToSet(new) = {[host |-> query.name, ip |-> ip] : ip \in ToSet(reply.rrs)}
  BY <1>2, OwnFits DEF Own
<1>6. local.own \in Seq(Server)
  BY <1>3 DEF LocalsType, Own
<1> HIDE DEF new, todo
<1>7. ToSet(own) = ToSet(local.own) \cup ToSet(new)
  BY <1>5, <1>6, ElementsOfConcat
<1> HIDE DEF own
<1>8. l.stage = "addresses" /\ l.emitted = local.emitted /\ l.own = own
  BY <1>2, <1>3 DEF LocalsType
<1> HIDE DEF l
<1>9. Unshown = ToSet(l.own)
  BY <1>1, <1>2, <1>5, <1>7, <1>8 DEF Unshown
<1> QED
  BY <1>1, <1>2, <1>3, <1>4, <1>8, <1>9, GlueAsks

\* Its addresses that are new get their results, once.
LEMMA GlueReports ==
    ASSUME ZoneType, LogInv, GlueInv, Acts("glue"), SelfView
    PROVE  GlueInv'
<1> DEFINE fresh == ToSet(local.own) \ local.emitted
           mine == Filter(local.own, fresh)
           new == Distinct(mine)
           names == GlueResults(new, "ns_record", "self")
           glue == GlueResults(new, "ns_glue", "self")
           both == names \o glue
           stage == "servers"
           emitted == local.emitted \cup ToSet(new)
           l == [local EXCEPT !.stage = stage, !.emitted = emitted]
<1>1. /\ check = "glue" /\ check # Nil /\ local.stage = "addresses" /\ query = Nil
      /\ Handled(both, at + 1, l) /\ CheckType /\ DiscoveryInv
  BY ChecksAssumption DEF SelfView, Checks, ZoneType
<1>2. /\ check \in ran /\ LocalFits(local, at) /\ local \in LocalsType
      /\ Len(nameservers) \in Nat /\ reply = Nil
  BY <1>1, CheckIsFit DEF CheckType, ExchangeType
<1>3. /\ GlueViews /\ GlueTurn /\ Past = FirstServers(at - 1) /\ SelfShown \in Seq(Target)
      /\ nameservers \in Seq(Server) /\ at \in 1..Len(nameservers)
  BY <1>1, <1>2, GlueUnderWay DEF LocalFits
<1>4. new \in Seq(Server) /\ ToSet(new) = ToSet(local.own) \ local.emitted /\ IsInjective(new)
  <2>1. local.own \in Seq(Server)
    BY <1>2 DEF LocalsType, Own
  <2> HIDE DEF fresh
  <2>2. mine \in Seq(Server) /\ ToSet(mine) = ToSet(local.own) \cap fresh
    BY <2>1, FilterKeeps
  <2> HIDE DEF mine
  <2>3. new \in Seq(Server) /\ ToSet(new) = ToSet(mine) /\ IsInjective(new)
    BY <2>2, DistinctKeeps
  <2> QED
    BY <2>2, <2>3 DEF fresh
<1> HIDE DEF new
<1>5. new \in Seq(Nameserver) /\ new \in Seq(Target)
  <2>1. Server \subseteq Nameserver /\ Server \subseteq Target
    BY DEF Server, Nameserver, Target
  <2> QED
    BY <1>4, <2>1
<1>6. names \in Seq(ProbeResult) /\ glue \in Seq(ProbeResult)
  BY <1>1, <1>2, <1>5, GlueResultsFit DEF NewFit
<1>7. l.stage = stage /\ l.emitted = emitted
  BY <1>2 DEF LocalsType
<1>8. /\ Pairs(names, InView("ns_record", "self")) = new
      /\ \A m, s : m # "ns_record" \/ s # "self" => Pairs(names, InView(m, s)) = <<>>
      /\ Pairs(names, Failures) = <<>>
  <2> DEFINE metric == "ns_record"
             source == "self"
  <2>1. names = GlueResults(new, metric, source)
    OBVIOUS
  <2> HIDE DEF metric, source, names
  <2>2. /\ Pairs(names, InView(metric, source)) = new
        /\ \A m, s : m # metric \/ s # source => Pairs(names, InView(m, s)) = <<>>
        /\ Pairs(names, Failures) = <<>>
    BY <1>5, <1>6, <2>1, GlueShown
  <2> QED
    BY <2>2 DEF metric, source
<1>9. /\ Pairs(glue, InView("ns_glue", "self")) = new
      /\ \A m, s : m # "ns_glue" \/ s # "self" => Pairs(glue, InView(m, s)) = <<>>
      /\ Pairs(glue, Failures) = <<>>
  <2> DEFINE metric == "ns_glue"
             source == "self"
  <2>1. glue = GlueResults(new, metric, source)
    OBVIOUS
  <2> HIDE DEF metric, source, glue
  <2>2. /\ Pairs(glue, InView(metric, source)) = new
        /\ \A m, s : m # metric \/ s # source => Pairs(glue, InView(m, s)) = <<>>
        /\ Pairs(glue, Failures) = <<>>
    BY <1>5, <1>6, <2>1, GlueShown
  <2> QED
    BY <2>2 DEF metric, source
<1> HIDE DEF l, names, glue, emitted
<1>10. both \in Seq(ProbeResult) /\ \A S : Pairs(both, S) = Pairs(names, S) \o Pairs(glue, S)
  BY <1>6, PairsConcat
<1> HIDE DEF both
<1>11. /\ \A S : Pairs(Of("glue")', S) = Pairs(Of("glue"), S) \o Pairs(both, S)
       /\ \A S : Pairs(Of("glue"), S) \in Seq(Target)
       /\ at' = at + 1 /\ local' = l /\ reply' = Nil
       /\ UNCHANGED <<check, nameservers, delegation>>
       /\ OwnView' = OwnView /\ Mute' = Mute
       /\ \A ns : Heard("glue", "NS", ns)' = Heard("glue", "NS", ns)
  BY <1>1, <1>10, GlueGrows
<1>12. /\ Pairs(both, InView("ns_record", "self")) = new
       /\ Pairs(both, InView("ns_glue", "self")) = new
       /\ Pairs(both, InView("ns_record", "parent")) = <<>>
       /\ Pairs(both, InView("ns_glue", "parent")) = <<>>
       /\ Pairs(both, Failures) = <<>>
  <2>1. <<>> \o <<>> = <<>> /\ new \o <<>> = new /\ <<>> \o new = new
    BY <1>4
  <2>2. /\ Pairs(glue, InView("ns_record", "self")) = <<>>
        /\ Pairs(names, InView("ns_glue", "self")) = <<>>
        /\ Pairs(names, InView("ns_record", "parent")) = <<>>
        /\ Pairs(glue, InView("ns_record", "parent")) = <<>>
        /\ Pairs(names, InView("ns_glue", "parent")) = <<>>
        /\ Pairs(glue, InView("ns_glue", "parent")) = <<>>
    BY <1>8, <1>9
  <2> QED
    BY <1>8, <1>9, <1>10, <2>1, <2>2
<1>13. \A S : Pairs(both, S) = <<>> => Pairs(Of("glue")', S) = Pairs(Of("glue"), S)
  <2>1. \A t \in Seq(Target) : t \o <<>> = t
    OBVIOUS
  <2> QED
    BY <1>11, <2>1
<1>14. ParentShown'
  <2>1. ParentShown
    BY <1>3 DEF GlueViews
  <2> QED
    BY <1>11, <1>12, <1>13, <2>1 DEF ParentShown
<1>15. SelfShown' = SelfShown \o new /\ Pairs(Of("glue")', InView("ns_glue", "self")) = SelfShown'
  BY <1>3, <1>11, <1>12 DEF GlueViews, SelfShown
<1>16. ToSet(SelfShown \o new) = ToSet(SelfShown) \cup ToSet(new)
  BY <1>3, <1>5, ElementsOfConcat
<1>17. IsInjective(SelfShown \o new)
  <2>1. ToSet(SelfShown) \cap ToSet(new) = {}
    BY <1>3, <1>4 DEF GlueTurn
  <2>2. IsInjective(SelfShown)
    BY <1>3 DEF GlueViews
  <2> QED
    BY <1>3, <1>4, <1>5, <2>1, <2>2, InjectiveConcat
<1>18. OwnView = ToSet(SelfShown) \cup ToSet(new)
  BY <1>1, <1>2, <1>3, <1>4 DEF GlueViews, GlueTurn, Unshown
<1>19. Unshown' = {}
  BY <1>7, <1>11 DEF Unshown
<1>20. Pairs(Of("glue")', Failures) = Filter(Past, Mute)'
  <2> DEFINE s == FirstServers(at - 1)
  <2>1. s \in Seq(Server) /\ FirstServers(at) = Append(s, Current) /\ Current \in Server
    BY <1>1, <1>3, ServersSoFar
  <2>2. Past' = Append(s, Current)
    BY <1>1, <1>3, <1>11, <2>1 DEF Past, FirstServers
  <2>3. Current \notin Mute
    <3>1. at \in at..Len(nameservers)
      BY <1>3
    <3>2. Heard("glue", "NS", nameservers[at]) # {}
      BY <1>1, <1>3, <3>1 DEF GlueTurn
    <3> QED
      BY <3>2 DEF Mute, Current
  <2> HIDE DEF s
  <2>4. Filter(Append(s, Current), Mute) = Filter(s, Mute)
    BY <2>1, <2>3, FilterAppend
  <2>5. Pairs(Of("glue")', Failures) = Pairs(Of("glue"), Failures)
    BY <1>12, <1>13
  <2> QED
    BY <1>3, <1>11, <2>2, <2>4, <2>5 DEF GlueViews, s
<1>21. GlueTurn'
  <2>1. ASSUME NEW k \in (at + 1)..Len(nameservers)
        PROVE  Heard("glue", "NS", nameservers[k]) = {}
    <3>1. k \in at..Len(nameservers) /\ k # at
      BY <1>3
    <3> QED
      BY <1>3, <3>1 DEF GlueTurn
  <2>2. \A k \in (at + 1)..Len(nameservers) : Heard("glue", "NS", nameservers[k])' = {}
    BY <1>11, <2>1
  <2>3. l.emitted = ToSet(SelfShown \o new)
    BY <1>3, <1>7, <1>16 DEF GlueTurn, emitted
  <2>4. \A k \in (at + 1)..Len(nameservers) : ~(reply' # Nil) /\ local'.stage # "addresses"
    BY <1>7, <1>11
  <2> QED
    BY <1>3, <1>7, <1>11, <1>15, <2>2, <2>3, <2>4 DEF GlueTurn
<1>22. GlueViews'
  BY <1>3, <1>11, <1>14, <1>15, <1>16, <1>17, <1>18, <1>19, <1>20, <1>21 DEF GlueViews
<1> QED
  BY <1>22 DEF GlueInv

\* An answer of the nameserver whose turn it is, or of none.
LEMMA GlueHears ==
    ASSUME ZoneType, LogInv, GlueInv, Hears("glue")
    PROVE  GlueInv'
<1>1. PICK r \in Answers[query.type] \cup Silences : Returns(r)
  BY DEF Hears
<1>2. /\ check = "glue" /\ query # Nil /\ reply = Nil /\ reply' = r
      /\ UNCHANGED <<ran, check, at, query, local, results, delegation, nameservers>>
      /\ log' = IF r.status = "ok" THEN log \cup {[query |-> query, reply |-> r]} ELSE log
  BY <1>1 DEF Hears, Returns, walkVars, discoveryVars
<1>3. CheckType /\ DiscoveryInv /\ check # Nil /\ QueryFits
      /\ query.check = "glue" /\ query.type \in {"NS", "A", "AAAA"}
  BY <1>2, AskedByCheck, ChecksAssumption DEF ZoneType, CheckType, ExchangeType, TypesOf, Checks
<1>4. r # Nil /\ (r.status # "ok" => r.rrs = <<>>)
  <2>1. r \in Answers[query.type] => r.status = "ok" /\ r # Nil
    BY <1>3, OnlyAnswersAreOk DEF QueryTypes
  <2>2. r \in Silences => r.status # "ok" /\ r.rrs = <<>> /\ r # Nil
    BY OnlyAnswersAreOk
  <2> QED
    BY <1>1, <2>1, <2>2
<1>5. /\ "glue" \in ran /\ LocalFits(local, at) /\ local.stage \in {"start", "servers", "addresses"}
      /\ nameservers \in Seq(Server) /\ Len(nameservers) \in Nat
  BY <1>2, <1>3, CheckIsFit DEF StagesOf
<1>6. local.stage \in {"servers", "addresses"} /\ at \in 1..Len(nameservers)
  <2>1. local.stage \in {"servers", "addresses"}
    BY <1>3, <1>5 DEF QueryFits
  <2>2. at <= Len(nameservers)
    BY <1>3, <1>5, <2>1 DEF QueryFits, LocalFits
  <2> QED
    BY <1>5, <2>1, <2>2 DEF LocalFits
<1>7. GlueViews /\ GlueTurn /\ Past = FirstServers(at - 1)
  BY <1>2, <1>5, <1>6 DEF GlueInv, GlueStarts, GlueViews, Past
<1>8. query.ns = Current /\ (query.type = "NS" <=> local.stage = "servers")
  <2>1. CASE local.stage = "servers"
    <3>1. query = Question(QueryType, Name, Current)
      BY <1>3, <2>1 DEF QueryFits
    <3> QED
      BY <1>2, <2>1, <3>1 DEF Question, QueryType
  <2>2. CASE local.stage = "addresses"
    <3>1. local.todo # <<>> /\ query = Head(local.todo) /\ local.todo \in Seq(Questions)
      BY <1>3, <1>5, <2>2 DEF QueryFits, LocalFits, LocalsType, ToDo
    <3>2. 1 \in 1..Len(local.todo) /\ query = local.todo[1]
      BY <3>1
    <3>3. IsAddress(query, Current)
      BY <1>5, <2>2, <3>2 DEF LocalFits, Current
    <3> QED
      BY <2>2, <3>3 DEF IsAddress, Question
  <2> QED
    BY <1>6, <2>1, <2>2
<1>9. ParentShown' = ParentShown /\ SelfShown' = SelfShown /\ Of("glue")' = Of("glue")
      /\ Past' = Past
  BY <1>2 DEF ParentShown, SelfShown, Of, Past, FirstServers
<1> DEFINE e == [query |-> query, reply |-> r]
<1>10. \A ns : Heard("glue", "NS", ns)' =
          Heard("glue", "NS", ns) \cup
             (IF r.status = "ok" /\ local.stage = "servers" /\ ns = Current THEN {e} ELSE {})
  BY <1>2, <1>3, <1>8 DEF Heard
<1>11. OwnView' = OwnView \cup
          (IF local.stage = "addresses"
           THEN {[host |-> query.name, ip |-> ip] : ip \in ToSet(r.rrs)} ELSE {})
  <2> DEFINE A(x) == {[host |-> x.query.name, ip |-> ip] : ip \in ToSet(x.reply.rrs)}
             old == {x \in log : x.query.check = "glue" /\ x.query.type # "NS"}
             new == {x \in log' : x.query.check = "glue" /\ x.query.type # "NS"}
  <2>1. OwnView = UNION {A(x) : x \in old} /\ OwnView' = UNION {A(x) : x \in new}
    BY DEF OwnView
  <2>2. new = old \cup (IF r.status = "ok" /\ local.stage = "addresses" THEN {e} ELSE {})
    BY <1>2, <1>3, <1>6, <1>8
  <2>3. A(e) = {[host |-> query.name, ip |-> ip] : ip \in ToSet(r.rrs)}
    OBVIOUS
  <2>4. r.status # "ok" => A(e) = {}
    BY <1>4, <2>3, ElementsOfNone
  <2>5. OwnView' = OwnView \cup (IF r.status = "ok" /\ local.stage = "addresses" THEN A(e) ELSE {})
    <3> HIDE DEF A, e, old, new
    <3> QED
      BY <2>1, <2>2
  <2> HIDE DEF A
  <2> QED
    BY <2>3, <2>4, <2>5
<1> HIDE DEF e
<1>12. Unshown' = Unshown \cup
          (IF local.stage = "addresses"
           THEN {[host |-> query.name, ip |-> ip] : ip \in ToSet(r.rrs)} ELSE {})
  BY <1>2, <1>4 DEF Unshown
<1>13. OwnView' = ToSet(SelfShown) \cup Unshown'
  BY <1>7, <1>11, <1>12 DEF GlueViews
<1>14. Filter(Past, Mute)' = Filter(Past, Mute)
  <2>1. Past \in Seq(Server) /\ Current \notin ToSet(Past)
    BY <1>3, <1>6, <1>7, ServersSoFar
  <2>2. ToSet(Past) \cap Mute' = ToSet(Past) \cap Mute
    <3>1. \A ns \in ToSet(Past) : Heard("glue", "NS", ns)' = Heard("glue", "NS", ns)
      BY <1>10, <2>1
    <3> QED
      BY <1>2, <3>1 DEF Mute
  <2> DEFINE S == Mute
             R == Mute'
             s == Past
  <2>3. s \in Seq(Server) /\ ToSet(s) \cap R = ToSet(s) \cap S
    BY <2>1, <2>2
  <2> HIDE DEF S, R, s
  <2>4. Filter(s, R) = Filter(s, S)
    BY <2>3, FilterAgrees
  <2> QED
    BY <1>9, <2>4 DEF S, R, s
<1>15. GlueTurn'
  <2>1. ASSUME NEW k \in at..Len(nameservers)
        PROVE  Heard("glue", "NS", nameservers[k])' # {} <=>
                  k = at /\ (local.stage = "addresses" \/ r.status = "ok")
    <3>1. nameservers[k] = Current <=> k = at
      <4>1. k \in 1..Len(nameservers)
        BY <1>6
      <4> QED
        BY <1>3, <1>6, <4>1, ServersSoFar
    <3>2. Heard("glue", "NS", nameservers[k]) # {} <=> k = at /\ local.stage = "addresses"
      BY <1>2, <1>7 DEF GlueTurn
    <3>3. Heard("glue", "NS", nameservers[k])' # {} <=>
             Heard("glue", "NS", nameservers[k]) # {}
                \/ (r.status = "ok" /\ local.stage = "servers" /\ nameservers[k] = Current)
      <4> DEFINE more == IF r.status = "ok" /\ local.stage = "servers" /\ nameservers[k] = Current
                         THEN {e} ELSE {}
      <4>1. /\ more # {} <=>
                  r.status = "ok" /\ local.stage = "servers" /\ nameservers[k] = Current
            /\ Heard("glue", "NS", nameservers[k])'
                  = Heard("glue", "NS", nameservers[k]) \cup more
        BY <1>2, <1>10
      <4> HIDE DEF more
      <4> QED
        BY <4>1
    <3> QED
      BY <1>6, <3>1, <3>2, <3>3
  <2>2. \A k \in at..Len(nameservers) :
           Heard("glue", "NS", nameservers[k])' # {} <=>
              k = at /\ (local.stage = "addresses" \/ r.status = "ok")
    BY <2>1
  <2> QED
    BY <1>2, <1>4, <1>6, <1>7, <1>9, <2>2 DEF GlueTurn, Answered
<1>16. GlueViews'
  BY <1>7, <1>9, <1>13, <1>14, <1>15 DEF GlueViews
<1> QED
  BY <1>16 DEF GlueInv

LEMMA GlueStep ==
    ASSUME ZoneType, LogInv, GlueInv, ProbeZone \/ Deadline
    PROVE  GlueInv'
<1>1. "glue" \in Checks /\ "glue" # Nil /\ CheckType /\ DiscoveryInv
  BY ChecksAssumption DEF Checks, ZoneType
<1>2. CASE Apart("glue")
  <2>1. /\ check # "glue" /\ check' # "glue"
        /\ "glue" \in ran' <=> "glue" \in ran
        /\ Of("glue")' = Of("glue") /\ LogOf("glue")' = LogOf("glue")
        /\ "glue" \in ran => UNCHANGED <<nameservers, delegation>>
    BY <1>2 DEF Apart
  <2>2. Unshown = {} /\ Past = nameservers /\ ~GlueStarts
    BY <2>1 DEF Unshown, Past, GlueStarts
  <2> QED
    BY <2>1, <2>2, GlueKept
<1>3. CASE Starts("glue")
  <2>1. /\ "glue" \notin ran /\ check' = "glue" /\ local' = [Locals EXCEPT !.stage = "start"]
        /\ Of("glue")' = Of("glue") /\ LogOf("glue")' = LogOf("glue") /\ at' = 1
    BY <1>3 DEF Starts, StartCheck, Of, LogOf
  <2>2. Of("glue") = <<>> /\ LogOf("glue") = {}
    BY <2>1, NotRun
  <2>3. local'.stage = "start" /\ local'.emitted = {}
    BY <2>1 DEF Locals
  <2>4. GlueStarts'
    BY <2>1, <2>2, <2>3 DEF GlueStarts
  <2> QED
    BY <2>4 DEF GlueInv
<1>4. CASE Ends("glue")
  <2>1. /\ Of("glue")' = Of("glue") /\ LogOf("glue")' = LogOf("glue")
        /\ check' = Nil /\ check = "glue" /\ UNCHANGED <<ran, delegation, nameservers>>
        /\ local.stage \in LastStage /\ at > Len(nameservers)
    BY <1>4 DEF Ends, EndCheck, Of, LogOf, walkVars, discoveryVars
  <2>2. "start" \notin LastStage /\ "addresses" \notin LastStage
    BY DEF LastStage
  <2>3. at = Len(nameservers) + 1 /\ Len(nameservers) \in Nat
    BY <1>1, <2>1, CheckIsFit DEF LocalFits
  <2>4. Unshown = {} /\ Past = nameservers /\ ~GlueStarts
    BY <1>1, <2>1, <2>2, <2>3, AllServers DEF Unshown, Past, GlueStarts
  <2> QED
    BY <1>1, <2>1, <2>4, GlueKept
<1>5. CASE Steady("glue")
  <2>1. /\ Of("glue")' = Of("glue") /\ LogOf("glue")' = LogOf("glue") /\ check = "glue"
        /\ UNCHANGED <<ran, check, at, reply, local, delegation, nameservers>>
        /\ query # Nil => query' = query
    BY <1>5 DEF Steady, Of, LogOf
  <2>2. reply # Nil => query # Nil
    BY <1>1 DEF CheckType, ExchangeType
  <2> QED
    BY <2>1, <2>2, GlueKept
<1>6. CASE Acts("glue")
  <2>1. Glue
    BY <1>1, <1>6, OwnSteps DEF Acts
  <2> QED
    BY <1>6, <2>1, GlueBegins, GlueFails, GlueNames, GlueAddresses, GlueReports DEF Glue
<1> QED
  BY <1>1, <1>2, <1>3, <1>4, <1>5, <1>6, GlueHears, Moves

LEMMA GlueCycleStep ==
    ASSUME CycleType, VerdictInv, GlueInv, [Next]_vars
    PROVE  GlueInv'
<1>1. CASE GoroutineStep \/ DeadlinePasses
  BY <1>1, GlueStep DEF GoroutineStep, DeadlinePasses, CycleType, VerdictInv
<1>2. CASE ZoneReturns
  BY <1>2, AllGone, ChecksAssumption DEF CycleType, GlueInv, Checks
<1>3. CASE (\E g \in DOMAIN CfgZones : OtherReturns(g)) \/ Publishing \/ UNCHANGED vars
  <2>1. UNCHANGED probeVars
    BY <1>3 DEF OtherReturns, Publishing, vars
  <2>2. UNCHANGED <<delegation, nameservers, check, at, query, local, reply, ran, log, results>>
    BY <2>1 DEF probeVars, checkVars, walkVars, discoveryVars
  <2>3. check # "glue" => Unshown = {} /\ Past = nameservers /\ ~GlueStarts
    BY DEF Unshown, Past, GlueStarts
  <2> QED
    BY <2>2, <2>3, GlueKept DEF Of, LogOf
<1> QED
  BY <1>1, <1>2, <1>3 DEF Next

\* glue shows the parent's records and glue in full whatever the nameservers
\* do, and every address of either family that any of them gives, once in each
\* series, although other exchanges failed; it reports a failure for exactly
\* the nameservers that gave no NS set, in their order (glue.go:47-56, 83-93, 122-125).
THEOREM GlueTheorem == Spec => []GlueSeesBothViews
<1>1. Init => VerdictInv /\ GlueInv
  BY VerdictInit DEF Init, ProbeInit, ChecksIdle, GlueInv
<1>2. CycleType /\ VerdictInv /\ GlueInv /\ [Next]_vars => VerdictInv' /\ GlueInv'
  BY VerdictStep, GlueCycleStep
<1>3. CycleType /\ VerdictInv /\ GlueInv => GlueSeesBothViews
  BY GlueSees DEF CycleType, VerdictInv
<1> QED
  BY <1>1, <1>2, <1>3, CycleTypeInvariant, PTL DEF Spec
-----------------------------------------------------------------------------
(* The counts of a zone are counts of names.                               *)

\* What the results of mx and of ns_classification say for certain: a failure
\* has no metrics, the validity of a target is that of its name, only a target
\* that is a name is looked up, and a name has its class.
Judged ==
    {r \in ProbeResult :
        /\ ~r.ok => DOMAIN r.metrics = {}
        /\ "mx_syntax_valid" \in DOMAIN r.metrics =>
              /\ r.metrics.mx_syntax_valid = OneIf(r.labels.target \in ValidNames \cup {Dot})
              /\ "mx_resolves" \in DOMAIN r.metrics => r.labels.target # Dot}
Labelled == {r \in ProbeResult : "classification" \in DOMAIN r.labels}

\* The step of a check appends nothing else.
Adds(S) == \E new, n, l : NewFit(new) /\ ToSet(new) \subseteq S /\ Handled(new, n, l)

\* What is in a set that the check alone adds to stays there.
LEMMA AddsStep ==
    ASSUME ZoneType, LogInv, NEW c \in Checks, NEW S, Of(c) \in Seq(S),
           ProbeZone \/ Deadline, Acts(c) => Adds(S)
    PROVE  Of(c)' \in Seq(S)
<1>1. CASE Apart(c)
  BY <1>1 DEF Apart
<1>2. CASE Starts(c) \/ Ends(c) \/ Steady(c)
  BY <1>2 DEF Starts, StartCheck, Ends, EndCheck, Steady, Of
<1>3. CASE Hears(c)
  BY <1>3 DEF Hears, Returns, Of
<1>4. CASE Acts(c)
  <2>1. PICK new, n, l : NewFit(new) /\ ToSet(new) \subseteq S /\ Handled(new, n, l)
    BY <1>4 DEF Adds
  <2>2. new \in Seq(S)
    BY <2>1 DEF NewFit, ToSet
  <2>3. Of(c)' = Of(c) \o new
    BY <1>4, <2>1, <2>2, ActsAppend
  <2> QED
    BY <2>2, <2>3
<1> QED
  BY <1>1, <1>2, <1>3, <1>4, Moves DEF ZoneType

LEMMA AddsOne ==
    ASSUME ZoneType, NEW c, Acts(c), NEW S, NEW r, NEW n, NEW l, Handled(<<r>>, n, l),
           r \in ProbeResult => r \in S
    PROVE  Adds(S)
<1>1. NewFit(<<r>>)
  BY ActsAppendOne
<1>2. <<r>>[1] = r /\ Len(<<r>>) = 1 /\ ToSet(<<r>>) = {r}
  BY DEF ToSet
<1>3. r \in ProbeResult
  BY <1>1, <1>2 DEF NewFit
<1> QED
  BY <1>1, <1>2, <1>3 DEF Adds

LEMMA AddsNone ==
    ASSUME NEW S, NEW n, NEW l, Handled(<<>>, n, l)
    PROVE  Adds(S)
BY NoneFits, ElementsOfNone DEF Adds

LEMMA AddsBoth ==
    ASSUME ZoneType, NEW c, Acts(c), NEW S, NEW q, NEW r, NEW n, NEW l,
           Handled(<<q, r>>, n, l), q \in ProbeResult => q \in S, r \in ProbeResult => r \in S
    PROVE  Adds(S)
<1> DEFINE new == <<q, r>>
<1>1. new \in Seq({q, r}) /\ Len(new) = 2 /\ new[1] = q /\ new[2] = r /\ ToSet(new) = {q, r}
  BY DEF ToSet
<1>2. Handled(new, n, l)
  OBVIOUS
<1> HIDE DEF new
<1>3. NewFit(new)
  BY <1>1, <1>2, ActsAppend
<1>4. q \in ProbeResult /\ r \in ProbeResult
  BY <1>1, <1>3 DEF NewFit
<1> QED
  BY <1>1, <1>2, <1>3, <1>4 DEF Adds

\* A step of mx adds results that say what they should.
LEMMA MXJudges ==
    ASSUME ZoneType, Acts("mx")
    PROVE  Adds(Judged)
<1>1. check = "mx" /\ check # Nil /\ CheckType
  BY ChecksAssumption DEF Acts, ZoneType, Checks
<1>2. ASSUME NEW r, r.metrics = <<>> PROVE r \in ProbeResult => r \in Judged
  <2>1. DOMAIN r.metrics = {}
    BY <1>2
  <2> QED
    BY <2>1 DEF Judged
<1>3. CASE MXFails
  <2> DEFINE r == [FailedResult(Current) EXCEPT !.host = NoHost]
  <2>1. r.metrics = <<>>
    BY DEF FailedResult, Result
  <2> HIDE DEF r
  <2>2. Handled(<<>>, at + 1, local) \/ Handled(<<r>>, at + 1, local)
    BY <1>3 DEF MXFails, r
  <2> QED
    BY <1>2, <2>1, <2>2, AddsOne, AddsNone
<1>4. CASE MXAnswer
  <2> DEFINE r == Result(NoHost, Current.ip, TRUE, FALSE)
  <2>1. r.metrics = <<>>
    BY DEF Result
  <2> HIDE DEF r
  <2>2. \E n, l : Handled(<<r>>, n, l)
    BY <1>4 DEF MXAnswer, r
  <2> QED
    BY <1>2, <2>1, <2>2, AddsOne
<1>5. CASE MXTarget
  <2> DEFINE t == Head(local.left).target
             info == MXResult([target |-> t, priority |-> Head(local.left).preference],
                              [mx_info |-> 1])
             valid(m) == MXResult([target |-> t], m)
             null == [mx_syntax_valid |-> 1]
             looked(a, b) == [mx_resolves |-> a, mx_is_cname |-> b,
                              mx_syntax_valid |-> OneIf(t \in ValidNames)]
             next(new) == \E n, l : Handled(new, n, l)
  <2>1. \/ next(<<info>>)
        \/ t = Dot /\ next(<<info, valid(null)>>)
        \/ t # Dot /\ \E a, b \in {0, 1} : next(<<info, valid(looked(a, b))>>)
    BY <1>5 DEF MXTarget
  <2>2. info \in ProbeResult => info \in Judged
    <3>1. info.metrics = [mx_info |-> 1] /\ info.ok
      BY DEF MXResult, Result
    <3>2. "mx_syntax_valid" \notin DOMAIN [mx_info |-> 1]
      OBVIOUS
    <3> HIDE DEF info
    <3> QED
      BY <3>1, <3>2 DEF Judged
  <2>3. ASSUME NEW m PROVE valid(m).metrics = m /\ valid(m).ok /\ valid(m).labels.target = t
    BY DEF MXResult, Result
  <2>4. t = Dot => (valid(null) \in ProbeResult => valid(null) \in Judged)
    <3>1. null.mx_syntax_valid = 1 /\ "mx_resolves" \notin DOMAIN null
      OBVIOUS
    <3> HIDE DEF t, valid, null
    <3> QED
      BY <2>3, <3>1 DEF Judged, OneIf
  <2>5. ASSUME t # Dot, NEW a, NEW b
        PROVE  valid(looked(a, b)) \in ProbeResult => valid(looked(a, b)) \in Judged
    <3>1. looked(a, b).mx_syntax_valid = OneIf(t \in ValidNames)
      OBVIOUS
    <3> HIDE DEF t, valid, looked
    <3> QED
      BY <2>3, <2>5, <3>1 DEF Judged, OneIf
  <2> HIDE DEF t, info, valid, null, looked
  <2>6. CASE next(<<info>>)
    BY <2>2, <2>6, AddsOne
  <2>7. CASE t = Dot /\ next(<<info, valid(null)>>)
    BY <2>2, <2>4, <2>7, AddsBoth
  <2>8. ASSUME t # Dot, NEW a, NEW b, next(<<info, valid(looked(a, b))>>)
        PROVE  Adds(Judged)
    BY <2>2, <2>5, <2>8, AddsBoth
  <2> QED
    BY <2>1, <2>6, <2>7, <2>8
<1> QED
  BY <1>1, <1>3, <1>4, <1>5, OwnSteps DEF Acts

\* A step of ns_classification adds only results with a class.
LEMMA NamesLabelled ==
    ASSUME ZoneType, Acts("ns_classification")
    PROVE  Adds(Labelled)
<1>1. check = "ns_classification" /\ check # Nil /\ CheckType
  BY ChecksAssumption DEF Acts, ZoneType, Checks
<1>2. ASSUME NEW m, Classifies(m) PROVE Adds(Labelled)
  <2> DEFINE h == Head(local.left)
             c == [classification |-> ClassOf(h)]
             r == [Result(h, ParentIP(h), TRUE, FALSE) EXCEPT !.labels = c, !.metrics = m]
  <2>1. "classification" \in DOMAIN c
    OBVIOUS
  <2> HIDE DEF c
  <2>2. r.labels = c
    BY DEF Result
  <2> HIDE DEF r
  <2>3. \E n, l : Handled(<<r>>, n, l)
    BY <1>2 DEF Classifies, r, c
  <2>4. r \in ProbeResult => r \in Labelled
    BY <2>1, <2>2 DEF Labelled
  <2> QED
    BY <2>3, <2>4, AddsOne
<1>3. NSClassification => (\E n, l : Handled(<<>>, n, l)) \/ \E m : Classifies(m)
  <2>1. ResolveStealth => (\E n, l : Handled(<<>>, n, l)) \/ \E m : Classifies(m)
    BY Zenon DEF ResolveStealth
  <2>2. StealthReply => (\E n, l : Handled(<<>>, n, l)) \/ \E m : Classifies(m)
    BY Zenon DEF StealthReply
  <2>3. SkipAskedBefore \/ SelfSet \/ UnionSorted => \E n, l : Handled(<<>>, n, l)
    BY DEF SkipAskedBefore, SelfSet, UnionSorted
  <2>4. Classify => \E m : Classifies(m)
    BY DEF Classify
  <2> QED
    BY <2>1, <2>2, <2>3, <2>4 DEF NSClassification
<1> QED
  BY <1>1, <1>2, <1>3, OwnSteps, AddsNone DEF Acts

SaysInv == Of("mx") \in Seq(Judged) /\ Of("ns_classification") \in Seq(Labelled)

LEMMA SaysStep ==
    ASSUME CycleType, VerdictInv, SaysInv, [Next]_vars
    PROVE  SaysInv'
<1>1. CASE GoroutineStep \/ DeadlinePasses
  <2>1. /\ ZoneType /\ LogInv /\ (ProbeZone \/ Deadline)
        /\ "mx" \in Checks /\ "ns_classification" \in Checks
    BY <1>1 DEF GoroutineStep, DeadlinePasses, CycleType, VerdictInv, Checks
  <2>2. Of("mx")' \in Seq(Judged)
    BY <2>1, AddsStep, MXJudges DEF SaysInv
  <2>3. Of("ns_classification")' \in Seq(Labelled)
    BY <2>1, AddsStep, NamesLabelled DEF SaysInv
  <2>4. Judged' = Judged /\ Labelled' = Labelled
    BY DEF Judged, Labelled
  <2> QED
    BY <2>2, <2>3, <2>4 DEF SaysInv
<1>2. CASE ZoneReturns
  <2>1. Of("mx")' = <<>> /\ Of("ns_classification")' = <<>>
    BY <1>2, AllGone DEF CycleType
  <2>2. Judged' = Judged /\ Labelled' = Labelled
    BY DEF Judged, Labelled
  <2>3. \A S : <<>> \in Seq(S)
    OBVIOUS
  <2>4. Of("mx")' \in Seq(Judged) /\ Of("ns_classification")' \in Seq(Labelled)
    BY <2>1, <2>3
  <2> QED
    BY <2>2, <2>4 DEF SaysInv
<1>3. CASE (\E g \in DOMAIN CfgZones : OtherReturns(g)) \/ Publishing \/ UNCHANGED vars
  <2>1. UNCHANGED results
    BY <1>3 DEF OtherReturns, Publishing, vars, probeVars, checkVars
  <2> QED
    BY <2>1 DEF SaysInv, Of, Judged, Labelled
<1> QED
  BY <1>1, <1>2, <1>3 DEF Next

\* The results of the zone about a name, and those about an MX record and
\* about the validity of an MX target.
Naming == {r \in ProbeResult : r.zone = Zone /\ r.check = "ns_classification"}
Informing == {r \in ProbeResult : r.zone = Zone /\ HasInfo(r)}
Judging ==
    {r \in ProbeResult : r.zone = Zone /\ r.check = "mx" /\ "mx_syntax_valid" \in DOMAIN r.metrics}

\* A list has one of them for each name, and one for each target that has a
\* record.
NamesOnce(list) ==
    /\ OneEach(list, Naming, HostOf) /\ OneEach(list, Judging, TargetOf)
    /\ {TargetOf[r] : r \in ToSet(list) \cap Judging}
          = {TargetOf[r] : r \in ToSet(list) \cap Informing}
    /\ ToSet(list) \cap Naming \subseteq Labelled
    /\ ToSet(list) \cap Judging \subseteq Judged

OfZone == {r \in ProbeResult : r.zone = Zone}

LEMMA NamesApart ==
    ASSUME NEW s \in Seq(ProbeResult), NEW t \in Seq(ProbeResult), NamesOnce(s), NamesOnce(t),
           ToSet(s) \cap OfZone = {} \/ ToSet(t) \cap OfZone = {}
    PROVE  NamesOnce(s \o t)
<1>1. Naming \subseteq OfZone /\ Judging \subseteq OfZone /\ Informing \subseteq OfZone
  BY DEF Naming, Judging, Informing, OfZone
<1>2. ToSet(s \o t) = ToSet(s) \cup ToSet(t)
  BY ElementsOfConcat
<1>3. ASSUME NEW S, S \subseteq OfZone, NEW f, OneEach(s, S, f), OneEach(t, S, f)
      PROVE  OneEach(s \o t, S, f)
  <2>1. ToSet(s) \cap S = {} \/ ToSet(t) \cap S = {}
    BY <1>3
  <2> QED
    BY <1>3, <2>1, OneEachConcat
<1>4. OneEach(s \o t, Naming, HostOf)
  BY <1>1, <1>3 DEF NamesOnce
<1>5. OneEach(s \o t, Judging, TargetOf)
  BY <1>1, <1>3 DEF NamesOnce
<1> DEFINE st == s \o t
<1> HIDE DEF st
<1>6. ToSet(st) = ToSet(s) \cup ToSet(t)
  BY <1>2 DEF st
<1>7. {TargetOf[r] : r \in ToSet(st) \cap Judging} = {TargetOf[r] : r \in ToSet(st) \cap Informing}
  BY <1>6 DEF NamesOnce
<1>8. ToSet(st) \cap Naming \subseteq Labelled /\ ToSet(st) \cap Judging \subseteq Judged
  BY <1>6 DEF NamesOnce
<1> QED
  BY <1>4, <1>5, <1>7, <1>8 DEF NamesOnce, st

\* The results of the zone are all of the zone; those of a check are its own.
LEMMA ZoneResults ==
    ASSUME CheckType, NEW c
    PROVE  /\ results \in Seq(ProbeResult) /\ ToSet(results) \subseteq OfZone
           /\ ToSet(Of(c)) = {r \in ToSet(results) : r.check = c}
<1> DEFINE K == {r \in ToSet(results) : r.check = c}
<1>1. results \in Seq(ProbeResult) /\ \A k \in 1..Len(results) : ResultFits(results[k])
  BY DEF CheckType
<1>2. ToSet(results) \subseteq OfZone
  BY <1>1 DEF ToSet, ResultFits, OfZone
<1>3. ToSet(Filter(results, K)) = ToSet(results) \cap K
  BY <1>1, FilterKeeps
<1> QED
  BY <1>1, <1>2, <1>3 DEF Of

LEMMA Reads ==
    /\ HostOf \in [ProbeResult -> Hosts \cup {NoHost}]
    /\ \E V : TargetOf \in [ProbeResult -> V]
<1>1. HostOf \in [ProbeResult -> Hosts \cup {NoHost}]
  BY DEF HostOf, ProbeResult
<1>2. TargetOf \in [ProbeResult -> {TargetOf[r] : r \in ProbeResult}]
  BY DEF TargetOf
<1> QED
  BY <1>1, <1>2

\* Of a list that is read by what is in a set, only the elements count.
LEMMA SameElements ==
    ASSUME NEW U, NEW s \in Seq(U), NEW S, NEW T, NEW f,
           OneEach(s, S, f), ToSet(s) \cap T \subseteq S
    PROVE  OneEach(s, T, f)
<1>1. \A k \in 1..Len(s) : s[k] \in ToSet(s)
  BY DEF ToSet
<1> QED
  BY <1>1 DEF OneEach

\* When the goroutine of the zone is through, its results name no name twice.
LEMMA NamesListed ==
    ASSUME ZoneType, LogInv, NamesInv, Finished, "ns_classification" \in ran
    PROVE  IsInjective(NamesTold)
<1>1. ClassificationIsExact
  BY NamesTell
<1> DEFINE mine == Of("ns_classification")
<1>2. IsInjective([k \in DOMAIN mine |-> mine[k].host])
  BY <1>1, Zenon DEF ClassificationIsExact, Ran
<1>3. mine \in Seq(ProbeResult)
  BY OfCheck DEF ZoneType
<1> HIDE DEF mine
<1>4. \A k \in DOMAIN mine : HostOf[mine[k]] = mine[k].host
  BY <1>3 DEF HostOf
<1>5. Image(mine, HostOf) = [k \in DOMAIN mine |-> mine[k].host]
  BY <1>4 DEF Image
<1> QED
  BY <1>2, <1>5 DEF NamesTold, mine

LEMMA NamesOfZone ==
    ASSUME ZoneType, LogInv, NamesInv, SaysInv, Finished
    PROVE  /\ OneEach(results, Naming, HostOf)
           /\ ToSet(results) \cap Naming \subseteq Labelled
<1> DEFINE c == "ns_classification"
           K == {r \in ToSet(results) : r.check = c}
<1>1. CheckType /\ results \in Seq(ProbeResult) /\ ToSet(Of(c)) = K
      /\ ToSet(results) \cap Naming \subseteq K
  BY ZoneResults DEF ZoneType, Naming
<1>2. ToSet(results) \cap Naming \subseteq Labelled
  BY <1>1 DEF SaysInv, ToSet
<1>3. CASE c \in ran
  <2>1. IsInjective(Image(Filter(results, K), HostOf))
    BY <1>3, NamesListed DEF NamesTold, Of
  <2> HIDE DEF K
  <2>2. OneEach(results, K, HostOf)
    BY <1>1, <2>1, Reads, InjectiveReads
  <2> QED
    BY <1>1, <1>2, <2>2, SameElements
<1>4. CASE c \notin ran
  <2>1. Of(c) = <<>>
    BY <1>1, <1>4, OfCheck
  <2>2. K = {}
    BY <1>1, <2>1, ElementsOfNone
  <2>3. \A k \in 1..Len(results) : results[k] \in ToSet(results)
    BY <1>1 DEF ToSet
  <2> QED
    BY <1>1, <1>2, <2>2, <2>3 DEF OneEach
<1> QED
  BY <1>3, <1>4

LEMMA TargetsOfZone ==
    ASSUME ZoneType, MXInv, SaysInv, Finished
    PROVE  /\ OneEach(results, Judging, TargetOf)
           /\ {TargetOf[r] : r \in ToSet(results) \cap Judging}
                 = {TargetOf[r] : r \in ToSet(results) \cap Informing}
           /\ ToSet(results) \cap Judging \subseteq Judged
<1> DEFINE mine == Of("mx")
           K == {r \in ToSet(results) : r.check = "mx"}
           H == Having("mx_syntax_valid")
           I == Having("mx_info")
<1>1. /\ CheckType /\ results \in Seq(ProbeResult) /\ ToSet(mine) = K
      /\ ToSet(results) \subseteq OfZone
  BY ZoneResults DEF ZoneType
<1>2. ToSet(results) \cap Judging = K \cap H /\ ToSet(results) \cap Informing = K \cap I
  BY <1>1 DEF Judging, Informing, HasInfo, Having, OfZone
<1>3. K \subseteq Judged /\ mine \in Seq(ProbeResult)
  <2>1. mine \in Seq(Judged) /\ Judged \subseteq ProbeResult
    BY DEF SaysInv, Judged
  <2> QED
    BY <1>1, <2>1 DEF ToSet
<1> HIDE DEF mine, K, H, I
<1>4. ASSUME K \cap H = {}, K \cap I = {}
      PROVE  /\ OneEach(results, Judging, TargetOf)
             /\ {TargetOf[r] : r \in ToSet(results) \cap Judging}
                   = {TargetOf[r] : r \in ToSet(results) \cap Informing}
             /\ ToSet(results) \cap Judging \subseteq Judged
  <2>1. ToSet(results) \cap Judging = {} /\ ToSet(results) \cap Informing = {}
    BY <1>2, <1>4
  <2>2. \A k \in 1..Len(results) : results[k] \in ToSet(results)
    BY <1>1 DEF ToSet
  <2>3. OneEach(results, Judging, TargetOf)
    BY <2>1, <2>2 DEF OneEach
  <2> QED
    BY <2>1, <2>3
<1>5. CASE "mx" \notin ran
  <2>1. K = {}
    BY <1>1, <1>5, OfCheck, ElementsOfNone DEF mine
  <2> QED
    BY <1>4, <2>1
<1>6. CASE "mx" \in ran /\ MXFailed
  <2>1. Len(mine) = 1 /\ ~mine[1].ok /\ mine[1] \in Judged
    BY <1>6 DEF MXFailed, SaysInv, mine
  <2>2. DOMAIN mine[1].metrics = {}
    BY <2>1 DEF Judged
  <2>3. ToSet(mine) = {mine[1]}
    BY <1>3, <2>1 DEF ToSet
  <2> QED
    BY <1>1, <1>4, <2>2, <2>3 DEF H, I, Having
<1>7. ASSUME "mx" \in ran, NEW e, MXTold(e)
      PROVE  /\ OneEach(results, Judging, TargetOf)
             /\ {TargetOf[r] : r \in ToSet(results) \cap Judging}
                   = {TargetOf[r] : r \in ToSet(results) \cap Informing}
             /\ ToSet(results) \cap Judging \subseteq Judged
  <2>1. PICK V : TargetOf \in [ProbeResult -> V]
    BY Reads
  <2>2. IsInjective(Image(Filter(mine, H), TargetOf))
    BY <1>7 DEF MXTold, Validated, H, mine
  <2>3. Filter(mine, H) = Filter(results, K \cap H)
    <3>1. Filter(Filter(results, K), H) = Filter(results, K \cap H)
      BY <1>1, FilterTwice
    <3> QED
      BY <3>1 DEF mine, Of, K
  <2>4. OneEach(results, K \cap H, TargetOf)
    BY <1>1, <2>1, <2>2, <2>3, InjectiveReads
  <2>5. OneEach(results, Judging, TargetOf)
    BY <1>1, <1>2, <2>4, SameElements
  <2>6. ToSet(Image(Filter(mine, H), TargetOf)) = {TargetOf[r] : r \in K \cap H}
    BY <1>1, <1>3, <2>1, SelectionReads
  <2>7. ToSet(Image(Filter(mine, I), RecordOf)) = {RecordOf[r] : r \in K \cap I}
    <3>1. RecordOf \in [ProbeResult -> {RecordOf[r] : r \in ProbeResult}]
      BY DEF RecordOf
    <3> QED
      BY <1>1, <1>3, <3>1, SelectionReads
  <2>8. {mx.target : mx \in {RecordOf[r] : r \in K \cap I}} = {TargetOf[r] : r \in K \cap I}
    <3>1. \A r \in K : RecordOf[r].target = TargetOf[r]
      BY <1>3 DEF RecordOf, TargetOf, Judged
    <3> QED
      BY <3>1
  <2>9. ToSet(Image(Filter(mine, H), TargetOf))
           = {mx.target : mx \in ToSet(Image(Filter(mine, I), RecordOf))}
    BY <1>7 DEF MXTold, Validated, Listed, H, I, mine
  <2> QED
    BY <1>2, <1>3, <2>5, <2>6, <2>7, <2>8, <2>9
<1>8. "mx" \in ran => MXFailed \/ \E e : MXTold(e)
  <2>1. "mx" \in ran => check # "mx"
    BY RanToTheEnd, ChecksAssumption DEF Ran, ZoneType, CheckType, Checks
  <2> QED
    BY <2>1 DEF MXInv, MXAsks
<1> QED
  BY <1>5, <1>6, <1>7, <1>8

LEMMA ZoneNames ==
    ASSUME ZoneType, LogInv, MXInv, NamesInv, SaysInv, Finished
    PROVE  NamesOnce(results)
BY NamesOfZone, TargetsOfZone DEF NamesOnce

\* What the goroutines have joined names no name of the zone twice.
CountInv == Once(Zone) => NamesOnce(all)

\* A list of which nothing is of the zone.
LEMMA NoNames ==
    ASSUME NEW list \in Seq(ProbeResult), ToSet(list) \cap OfZone = {}
    PROVE  NamesOnce(list)
<1>1. ToSet(list) \cap Naming = {} /\ ToSet(list) \cap Judging = {}
      /\ ToSet(list) \cap Informing = {}
  BY DEF Naming, Judging, Informing, OfZone
<1>2. \A k \in 1..Len(list) : list[k] \in ToSet(list)
  BY DEF ToSet
<1> QED
  BY <1>1, <1>2 DEF NamesOnce, OneEach

LEMMA ZoneIsFirst == 1 \in DOMAIN CfgZones /\ Zone = CfgZones[1]
BY OthersAssumption, PublicationAssumption

\* Only the goroutine of the zone brings results of the zone.
LEMMA NotOfZone ==
    ASSUME NEW g \in DOMAIN CfgZones, g # 1, Once(Zone), NEW list, Fits(list, CfgZones[g])
    PROVE  list \in Seq(ProbeResult) /\ ToSet(list) \cap OfZone = {}
<1>1. CfgZones[g] # Zone
  BY ZoneIsFirst, OnceIsOne
<1>2. list \in Seq(ProbeResult) /\ \A k \in 1..Len(list) : list[k].zone = CfgZones[g]
  BY DEF Fits
<1> QED
  BY <1>1, <1>2 DEF ToSet, OfZone

LEMMA CountStep ==
    ASSUME CycleType, VerdictInv, MXInv, NamesInv, SaysInv, AgreeInv, CountInv, [Next]_vars
    PROVE  CountInv'
<1> SUFFICES ASSUME Once(Zone) PROVE NamesOnce(all')
  BY DEF CountInv, Once, NamesOnce, OneEach, Labelled, Judged
<1>1. NamesOnce(all) /\ all \in Seq(ProbeResult)
  BY DEF CountInv, CycleType, PubType
<1>2. CASE ZoneReturns
  <2>1. Finished /\ Join(1, results)
    BY <1>2 DEF ZoneReturns
  <2>2. 1 \notin joined /\ joined \subseteq DOMAIN CfgZones /\ all' = all \o results
    BY <2>1 DEF Join, CycleType, PubType
  <2>3. ToSet(all) \cap OfZone = {}
    <3>1. ASSUME NEW k \in 1..Len(all) PROVE all[k].zone # Zone
      <4>1. PICK g \in joined : all[k].zone = CfgZones[g]
        BY DEF AgreeInv
      <4> QED
        BY <2>2, <4>1, ZoneIsFirst, OnceIsOne
    <3> QED
      BY <1>1, <3>1 DEF ToSet, OfZone
  <2>4. results \in Seq(ProbeResult) /\ NamesOnce(results)
    BY <2>1, ZoneNames DEF CycleType, VerdictInv, ZoneType, CheckType
  <2> QED
    BY <1>1, <2>2, <2>3, <2>4, NamesApart
<1>3. ASSUME NEW g \in DOMAIN CfgZones, OtherReturns(g) PROVE NamesOnce(all')
  <2>1. g # 1
    BY <1>3 DEF OtherReturns
  <2>2. PICK list \in Others[CfgZones[g]] : Join(g, list)
    BY <1>3 DEF OtherReturns
  <2>3. list \in Seq(ProbeResult) /\ ToSet(list) \cap OfZone = {}
    BY <2>1, OtherListFits, NotOfZone
  <2>4. all' = all \o list
    BY <2>2 DEF Join
  <2> QED
    BY <1>1, <2>3, <2>4, NoNames, NamesApart
<1>4. CASE GoroutineStep \/ DeadlinePasses \/ Publishing \/ UNCHANGED vars
  <2>1. UNCHANGED all
    BY <1>4 DEF GoroutineStep, DeadlinePasses, Publishing, PublicationStep, Reset, Collect,
                Aggregate, Derive, BuildRegistry, Publish, vars, pubVars
  <2> QED
    BY <1>1, <2>1
<1> QED
  BY <1>2, <1>3, <1>4 DEF Next

\* A result counts towards a series of the zone when it is one of the zone and
\* has the metric or the class.
LEMMA CountsFor ==
    ASSUME NEW r \in ProbeResult, NEW m, NEW l, Series(m, Zone, l) \in GaugesOf(r)
    PROVE  /\ r.zone = Zone
           /\ m = "ns_classification_count" =>
                 /\ r.check = "ns_classification" /\ "classification" \in DOMAIN r.labels
                 /\ r.labels.classification = l
           /\ m # "ns_classification_count" => r.check = "mx"
           /\ m = "mx_syntax_valid_count" => Is(r, "mx_syntax_valid", 1)
           /\ m = "mx_resolved_count" => Is(r, "mx_resolves", 1)
           /\ m = "mx_cname_count" => Is(r, "mx_is_cname", 1)
<1> DEFINE s == Series(m, Zone, l)
<1>1. s.metric = m /\ s.of = Zone /\ s.label = l
  BY DEF Series
<1>2. \A a, b, c : /\ Series(a, b, c).metric = a /\ Series(a, b, c).of = b
                   /\ Series(a, b, c).label = c
  BY DEF Series
<1>3. CASE \E c \in Classes : /\ s = Series("ns_classification_count", r.zone, c)
                              /\ r.check = "ns_classification"
                              /\ "classification" \in DOMAIN r.labels
                              /\ r.labels.classification = c
  <2> HIDE DEF s
  <2>1. m = "ns_classification_count" /\ r.zone = Zone
    BY <1>1, <1>2, <1>3
  <2> QED
    BY <1>1, <1>2, <1>3, <2>1
<1>4. CASE \E n \in MXCounts :
              /\ s = Series(n, r.zone, Total) /\ r.check = "mx"
              /\ n = "mx_syntax_valid_count" => Is(r, "mx_syntax_valid", 1)
              /\ n = "mx_resolved_count" => Is(r, "mx_resolves", 1)
              /\ n = "mx_cname_count" => Is(r, "mx_is_cname", 1)
  <2> HIDE DEF s
  <2>1. m \in MXCounts /\ r.zone = Zone
    BY <1>1, <1>2, <1>4
  <2>2. m # "ns_classification_count"
    BY <2>1 DEF MXCounts
  <2> QED
    BY <1>1, <1>2, <1>4, <2>1, <2>2
<1> QED
  BY <1>3, <1>4 DEF GaugesOf, s, MXCounts

\* And every such result counts.
LEMMA CountsToward ==
    ASSUME NEW r \in ProbeResult, r.zone = Zone
    PROVE  /\ r.check = "mx" /\ Is(r, "mx_syntax_valid", 1) =>
                 Series("mx_syntax_valid_count", Zone, Total) \in GaugesOf(r)
           /\ \A c \in Classes :
                 (/\ r.check = "ns_classification" /\ "classification" \in DOMAIN r.labels
                  /\ r.labels.classification = c) =>
                     Series("ns_classification_count", Zone, c) \in GaugesOf(r)
BY DEF GaugesOf, MXCounts

\* Once derived, a count of the zone is the number of the results that count
\* towards it.
LEMMA CountIs ==
    ASSUME GaugesAreOfThisCycle, Derived, NEW m, NEW l, Series(m, Zone, l) \in Zeroed,
           m \in MXCounts \cup {"ns_classification_count"}
    PROVE  gauge[Series(m, Zone, l)]
              = Cardinality({k \in 1..Len(all) : Series(m, Zone, l) \in GaugesOf(all[k])})
<1> DEFINE s == Series(m, Zone, l)
<1>1. Seen = 1..Len(all)
  BY DEF Derived, Seen
<1>2. s \in DOMAIN gauge /\ s.metric = m
  BY DEF GaugesAreOfThisCycle, Series
<1> HIDE DEF s
<1>3. gauge[s] = Cardinality({k \in Seen : s \in GaugesOf(all[k])})
  BY <1>2 DEF GaugesAreOfThisCycle
<1> QED
  BY <1>1, <1>3 DEF s

LEMMA ZoneIsZeroed ==
    /\ \A c \in Classes : Series("ns_classification_count", Zone, c) \in Zeroed
    /\ \A m \in MXCounts : Series(m, Zone, Total) \in Zeroed
BY ZoneIsFirst DEF Zeroed

\* Each name is counted once in its class.
LEMMA ClassesCountNames ==
    ASSUME PubType, GaugesAreOfThisCycle, Derived, NamesOnce(all), NEW class \in Classes
    PROVE  gauge[Series("ns_classification_count", Zone, class)] =
              Cardinality({r.host : r \in {r \in ToSet(all) :
                  /\ r.zone = Zone /\ r.check = "ns_classification"
                  /\ r.labels.classification = class}})
<1> DEFINE s == Series("ns_classification_count", Zone, class)
           T == {r \in Naming : "classification" \in DOMAIN r.labels
                                   /\ r.labels.classification = class}
           M == {r \in ToSet(all) : /\ r.zone = Zone /\ r.check = "ns_classification"
                                    /\ r.labels.classification = class}
<1>1. all \in Seq(ProbeResult) /\ \A k \in 1..Len(all) : all[k] \in ProbeResult
  BY DEF PubType
<1>2. gauge[s] = Cardinality({k \in 1..Len(all) : s \in GaugesOf(all[k])})
  BY CountIs, ZoneIsZeroed
<1>3. ASSUME NEW k \in 1..Len(all) PROVE s \in GaugesOf(all[k]) <=> all[k] \in T
  BY <1>1, CountsFor, CountsToward DEF Naming
<1>4. ToSet(all) \cap T = M
  <2>1. ToSet(all) \subseteq ProbeResult
    BY <1>1 DEF ToSet
  <2>2. \A r \in ToSet(all) : r \in Naming => "classification" \in DOMAIN r.labels
    BY DEF NamesOnce, Labelled
  <2> QED
    BY <2>1, <2>2 DEF Naming
<1>5. ReadsOf(all, T, HostOf) = {r.host : r \in M}
  <2>1. \A r \in M : HostOf[r] = r.host
    BY <1>1 DEF ToSet, HostOf
  <2> HIDE DEF M, T
  <2> QED
    BY <1>4, <2>1 DEF ReadsOf
<1>6. T \subseteq Naming /\ OneEach(all, Naming, HostOf)
  BY DEF NamesOnce
<1> HIDE DEF s, T, M
<1>7. Cardinality(PlacesOf(all, T)) = Cardinality(ReadsOf(all, T, HostOf))
  BY <1>1, <1>6, PlacesAndReads
<1>8. {k \in 1..Len(all) : s \in GaugesOf(all[k])} = PlacesOf(all, T)
  BY <1>3 DEF PlacesOf
<1>9. gauge[s] = Cardinality({r.host : r \in M})
  BY <1>2, <1>5, <1>7, <1>8
<1> QED
  BY <1>9 DEF s, M

\* A result that says what a lookup or the syntax of a target came to is one
\* about its validity.
LEMMA LookupsAreJudged ==
    ASSUME NEW r \in ProbeResult, r.zone = Zone, r.check = "mx"
    PROVE  /\ Is(r, "mx_syntax_valid", 1) => r \in Judging
           /\ Is(r, "mx_resolves", 1) => r \in Judging
           /\ Is(r, "mx_is_cname", 1) => r \in Judging /\ "mx_resolves" \in DOMAIN r.metrics
<1>1. r.metrics \in Metrics
  BY DEF ProbeResult
<1>2. /\ "mx_resolves" \in DOMAIN r.metrics => "mx_syntax_valid" \in DOMAIN r.metrics
      /\ "mx_is_cname" \in DOMAIN r.metrics =>
            "mx_syntax_valid" \in DOMAIN r.metrics /\ "mx_resolves" \in DOMAIN r.metrics
  BY <1>1 DEF Metrics
<1> QED
  BY <1>2 DEF Is, Judging

TargetsIn(list) == ReadsOf(list, Informing, TargetOf)

\* Each valid target is counted once.
LEMMA ValidityCountsTargets ==
    ASSUME PubType, GaugesAreOfThisCycle, Derived, NamesOnce(all)
    PROVE  gauge[Series("mx_syntax_valid_count", Zone, Total)]
              = Cardinality(TargetsIn(all) \cap (ValidNames \cup {Dot}))
<1> DEFINE s == Series("mx_syntax_valid_count", Zone, Total)
           T == {r \in Judging : r.metrics.mx_syntax_valid = 1}
           V == ValidNames \cup {Dot}
<1>1. all \in Seq(ProbeResult) /\ \A k \in 1..Len(all) : all[k] \in ProbeResult
      /\ ToSet(all) \subseteq ProbeResult
  BY DEF PubType, ToSet
<1>2. gauge[s] = Cardinality({k \in 1..Len(all) : s \in GaugesOf(all[k])})
  BY CountIs, ZoneIsZeroed DEF MXCounts
<1>3. ASSUME NEW r \in ProbeResult PROVE s \in GaugesOf(r) <=> r \in T
  <2>1. s \in GaugesOf(r) => r.zone = Zone /\ r.check = "mx" /\ Is(r, "mx_syntax_valid", 1)
    BY CountsFor
  <2>2. r.zone = Zone /\ r.check = "mx" /\ Is(r, "mx_syntax_valid", 1) => s \in GaugesOf(r)
    BY CountsToward
  <2>3. r \in T <=> r.zone = Zone /\ r.check = "mx" /\ Is(r, "mx_syntax_valid", 1)
    BY DEF Judging, Is
  <2> QED
    BY <2>1, <2>2, <2>3
<1>4. \A r \in ToSet(all) \cap Judging : r \in T <=> TargetOf[r] \in V
  <2>1. ASSUME NEW r \in ToSet(all) \cap Judging PROVE r \in T <=> TargetOf[r] \in V
    <3>1. r \in Judged /\ "mx_syntax_valid" \in DOMAIN r.metrics
      BY DEF NamesOnce, Judging
    <3>2. r.metrics.mx_syntax_valid = OneIf(r.labels.target \in V) /\ TargetOf[r] = r.labels.target
      BY <1>1, <3>1 DEF Judged, TargetOf
    <3> QED
      BY <3>2 DEF OneIf
  <2> QED
    BY <2>1
<1>5. T \subseteq Judging /\ OneEach(all, Judging, TargetOf)
      /\ ReadsOf(all, Judging, TargetOf) = TargetsIn(all)
  BY DEF NamesOnce, ReadsOf, TargetsIn
<1> HIDE DEF s, T, V
<1>6. ReadsOf(all, T, TargetOf) = TargetsIn(all) \cap V
  <2>1. ReadsOf(all, T, TargetOf) = ReadsOf(all, Judging, TargetOf) \cap V
    BY <1>4, <1>5 DEF ReadsOf
  <2> QED
    BY <1>5, <2>1
<1>7. Cardinality(PlacesOf(all, T)) = Cardinality(ReadsOf(all, T, TargetOf))
  BY <1>1, <1>5, PlacesAndReads
<1>8. {k \in 1..Len(all) : s \in GaugesOf(all[k])} = PlacesOf(all, T)
  BY <1>1, <1>3 DEF PlacesOf
<1>9. gauge[s] = Cardinality(TargetsIn(all) \cap V)
  BY <1>2, <1>6, <1>7, <1>8
<1> QED
  BY <1>9 DEF s, V

\* Of the names among the targets no more are counted than there are.
LEMMA LookupsCountTargets ==
    ASSUME PubType, GaugesAreOfThisCycle, Derived, NamesOnce(all),
           NEW m \in {"mx_resolved_count", "mx_cname_count"}
    PROVE  gauge[Series(m, Zone, Total)] <= Cardinality(TargetsIn(all) \ {Dot})
<1> DEFINE s == Series(m, Zone, Total)
           T == {r \in Judging : s \in GaugesOf(r)}
           names == TargetsIn(all) \ {Dot}
<1>1. all \in Seq(ProbeResult) /\ \A k \in 1..Len(all) : all[k] \in ProbeResult
      /\ ToSet(all) \subseteq ProbeResult
  BY DEF PubType, ToSet
<1>2. gauge[s] = Cardinality({k \in 1..Len(all) : s \in GaugesOf(all[k])})
  BY CountIs, ZoneIsZeroed DEF MXCounts
<1>3. ASSUME NEW r \in ProbeResult, s \in GaugesOf(r)
      PROVE  r \in Judging /\ "mx_resolves" \in DOMAIN r.metrics
  <2>1. /\ r.zone = Zone /\ r.check = "mx"
        /\ Is(r, "mx_resolves", 1) \/ Is(r, "mx_is_cname", 1)
    BY <1>3, CountsFor
  <2> QED
    BY <2>1, LookupsAreJudged DEF Is
<1>4. ASSUME NEW r \in ToSet(all) \cap T PROVE TargetOf[r] # Dot
  <2>1. r \in Judged /\ "mx_resolves" \in DOMAIN r.metrics /\ "mx_syntax_valid" \in DOMAIN r.metrics
    BY <1>1, <1>3 DEF NamesOnce, Judging
  <2> QED
    BY <1>1, <2>1 DEF Judged, TargetOf
<1>5. T \subseteq Judging /\ OneEach(all, Judging, TargetOf)
      /\ ReadsOf(all, Judging, TargetOf) = TargetsIn(all)
  BY DEF NamesOnce, ReadsOf, TargetsIn
<1>6. {k \in 1..Len(all) : s \in GaugesOf(all[k])} = PlacesOf(all, T)
  BY <1>1, <1>3 DEF PlacesOf
<1> HIDE DEF s, T
<1>7. ReadsOf(all, T, TargetOf) \subseteq names
  <2>1. ReadsOf(all, T, TargetOf) \subseteq ReadsOf(all, Judging, TargetOf)
    BY <1>5 DEF ReadsOf
  <2>2. Dot \notin ReadsOf(all, T, TargetOf)
    BY <1>4 DEF ReadsOf
  <2> QED
    BY <1>5, <2>1, <2>2
<1>8. Cardinality(PlacesOf(all, T)) = Cardinality(ReadsOf(all, T, TargetOf))
  BY <1>1, <1>5, PlacesAndReads
<1>9. IsFiniteSet(names)
  <2>1. IsFiniteSet(ReadsOf(all, Judging, TargetOf))
    BY <1>1, <1>5, PlacesAndReads
  <2> QED
    BY <1>5, <2>1, FS_Subset
<1> HIDE DEF names
<1>10. Cardinality(ReadsOf(all, T, TargetOf)) <= Cardinality(names)
  BY <1>7, <1>9, FS_Subset
<1> QED
  BY <1>2, <1>6, <1>8, <1>10 DEF s, names

LEMMA NamesAreCounted ==
    ASSUME PubType, GaugesAreOfThisCycle, CountInv
    PROVE  CountsAreOfNames
<1> DEFINE of(c) == {r \in ToSet(all) : r.zone = Zone /\ r.check = c}
           targets == {r.labels.target : r \in {r \in of("mx") : HasInfo(r)}}
<1> SUFFICES ASSUME Derived, Once(Zone)
    PROVE  /\ \A class \in Classes :
                 gauge[Series("ns_classification_count", Zone, class)] =
                    Cardinality({r.host : r \in {r \in of("ns_classification") :
                                                    r.labels.classification = class}})
           /\ gauge[Series("mx_syntax_valid_count", Zone, Total)] =
                 Cardinality(targets \cap (ValidNames \cup {Dot}))
           /\ \A m \in {"mx_resolved_count", "mx_cname_count"} :
                 gauge[Series(m, Zone, Total)] <= Cardinality(targets \ {Dot})
  BY Zenon DEF CountsAreOfNames
<1>1. NamesOnce(all)
  BY DEF CountInv
<1>2. targets = TargetsIn(all)
  <2>1. ToSet(all) \subseteq ProbeResult
    BY DEF PubType, ToSet
  <2>2. {r \in of("mx") : HasInfo(r)} = ToSet(all) \cap Informing
    BY <2>1 DEF Informing, HasInfo
  <2>3. \A r \in ToSet(all) \cap Informing : TargetOf[r] = r.labels.target
    BY <2>1 DEF TargetOf
  <2> QED
    BY <2>2, <2>3 DEF TargetsIn, ReadsOf
<1>3. ASSUME NEW class \in Classes
      PROVE  gauge[Series("ns_classification_count", Zone, class)] =
                Cardinality({r.host : r \in {r \in of("ns_classification") :
                                                r.labels.classification = class}})
  <2>1. {r \in of("ns_classification") : r.labels.classification = class}
          = {r \in ToSet(all) : /\ r.zone = Zone /\ r.check = "ns_classification"
                                /\ r.labels.classification = class}
    OBVIOUS
  <2> HIDE DEF of
  <2> QED
    BY <1>1, <2>1, ClassesCountNames
<1> HIDE DEF targets
<1>4. gauge[Series("mx_syntax_valid_count", Zone, Total)] =
         Cardinality(targets \cap (ValidNames \cup {Dot}))
  BY <1>1, <1>2, ValidityCountsTargets
<1>5. \A m \in {"mx_resolved_count", "mx_cname_count"} :
         gauge[Series(m, Zone, Total)] <= Cardinality(targets \ {Dot})
  BY <1>1, <1>2, LookupsCountTargets
<1> QED
  BY <1>3, <1>4, <1>5

\* The counts of a zone are counts of names: of what the goroutine of the zone
\* returns no two results are about one name or one target, and those of the
\* other goroutines, among which they come in any order, are of other zones
\* (runner.go:277-299, 368-376, mx.go:95-103, ns_classification.go:67-90).
THEOREM NamesTheorem == Spec => []CountsAreOfNames
<1>1. Init => VerdictInv /\ MXInv /\ NamesInv /\ SaysInv /\ AgreeInv /\ CountInv
  <2>1. ASSUME Init PROVE all = <<>> /\ ran = {} /\ results = <<>>
    BY <2>1 DEF Init, PubInit, ProbeInit, ChecksIdle
  <2>2. Init => MXInv /\ NamesInv /\ AgreeInv
    BY <2>1 DEF MXInv, NamesInv, AgreeInv
  <2>3. Init => SaysInv
    <3>1. ASSUME Init, NEW c, NEW S PROVE Of(c) \in Seq(S)
      <4>1. Of(c) = <<>>
        BY <2>1, <3>1, FilterNone DEF Of
      <4> QED
        BY <4>1
    <3> QED
      BY <3>1 DEF SaysInv
  <2>4. Init => CountInv
    <3>1. NamesOnce(<<>>)
      <4>1. ToSet(<<>>) \cap OfZone = {}
        BY ElementsOfNone
      <4>2. <<>> \in Seq(ProbeResult)
        OBVIOUS
      <4> QED
        BY <4>1, <4>2, NoNames
    <3> QED
      BY <2>1, <3>1 DEF CountInv
  <2> QED
    BY <2>2, <2>3, <2>4, VerdictInit
<1>2. CycleType /\ VerdictInv /\ MXInv /\ NamesInv /\ SaysInv /\ AgreeInv /\ CountInv /\ [Next]_vars
         => VerdictInv' /\ MXInv' /\ NamesInv' /\ SaysInv' /\ AgreeInv' /\ CountInv'
  BY VerdictStep, MXCycleStep, NamesCycleStep, SaysStep, AgreeStep, CountStep
<1>3. CycleType /\ CountInv /\ GaugesAreOfThisCycle => CountsAreOfNames
  BY NamesAreCounted DEF CycleType
<1> QED
  BY <1>1, <1>2, <1>3, CycleTypeInvariant, PublishedTheorem, PTL DEF Spec
=============================================================================
