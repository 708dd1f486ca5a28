------------------------- MODULE NameserversProofs -------------------------
(***************************************************************************)
(* The delegation walk and the discovery of a zone's nameservers.          *)
(*                                                                         *)
(* The walk ends with the nameservers of the reply that delegated, and     *)
(* follows no referral over IPv6 that it could follow over IPv4.  From any *)
(* delegation, no nameserver comes in twice, and none that the parent or   *)
(* the resolver names is left out, whatever lookups fail, in any order.    *)
(*                                                                         *)
(* The invariant Discovered says what has come in at each stage: the glue  *)
(* of the entries passed, and then every address returned except those     *)
(* that are still to be taken.                                             *)
(***************************************************************************)
EXTENDS Nameservers, ListProofs

\* What the walk may have found: its glue is the entries with an address.
Delegations ==
    {d \in [nsRecords : Seq(Nameserver), glue : Seq(Nameserver)] :
        ToSet(d.glue) = {e \in ToSet(d.nsRecords) : e.ip # NoIP}}
-----------------------------------------------------------------------------
(* What is extracted from a reply.                                         *)

\* The addresses that a section gives for a name, and its entries.
Given(extra, host) == {g \in ToSet(extra) : g.host = host}
Entries(extra, host) ==
    IF Given(extra, host) = {} THEN {[host |-> host, ip |-> NoIP]} ELSE Given(extra, host)

LEMMA NSNamesAreHosts ==
    ASSUME NEW section \in Seq(NSRecord)
    PROVE  NSNames(section) \in Seq(Hosts)
<1> DEFINE keep == {rr \in ToSet(section) : rr.host # NotNS}
           records == Filter(section, keep)
<1>1. records \in Seq(NSRecord) /\ ToSet(records) = ToSet(section) \cap keep
  BY FilterKeeps
<1>2. NSNames(section) = [k \in DOMAIN records |-> records[k].host]
  BY DEF NSNames
<1> HIDE DEF records
<1>3. DOMAIN records = 1..Len(records) /\ Len(records) \in Nat
  BY <1>1
<1>4. \A k \in 1..Len(records) : records[k].host \in Hosts
  <2> TAKE k \in 1..Len(records)
  <2>1. records[k] \in NSRecord
    BY <1>1, <1>3
  <2>2. records[k].host # NotNS
    <3>1. records[k] \in ToSet(records)
      BY <1>3 DEF ToSet
    <3> QED
      BY <1>1, <3>1
  <2> QED
    BY <2>1, <2>2 DEF NSRecord
<1> QED
  BY <1>2, <1>3, <1>4

\* The addresses of a name, each once.
LEMMA GlueOfIs ==
    ASSUME NEW extra \in Seq(Server), NEW host
    PROVE  /\ GlueOf(extra, host) \in Seq(Addrs) /\ IsInjective(GlueOf(extra, host))
           /\ ToSet(GlueOf(extra, host)) = {g.ip : g \in Given(extra, host)}
<1> DEFINE keep == {g \in ToSet(extra) : g.host = host}
           mine == Filter(extra, keep)
           ips == [k \in DOMAIN mine |-> mine[k].ip]
<1>1. mine \in Seq(Server) /\ ToSet(mine) = ToSet(extra) \cap keep
  BY FilterKeeps
<1>2. GlueOf(extra, host) = Distinct(ips) /\ keep = Given(extra, host)
  BY DEF GlueOf, Given
<1> HIDE DEF mine
<1>3. DOMAIN mine = 1..Len(mine) /\ \A k \in 1..Len(mine) : mine[k].ip \in Addrs
  <2>1. mine \in Seq(Server)
    BY <1>1
  <2>2. DOMAIN mine = 1..Len(mine) /\ \A k \in 1..Len(mine) : mine[k] \in Server
    BY <2>1
  <2> QED
    BY <2>2 DEF Server
<1>4. ips \in Seq(Addrs) /\ DOMAIN ips = DOMAIN mine
  BY <1>1, <1>3
<1>5. ToSet(ips) = {g.ip : g \in ToSet(mine)}
  BY <1>4 DEF ToSet
<1>6. ToSet(mine) = Given(extra, host)
  BY <1>1, <1>2
<1> HIDE DEF ips
<1>7. /\ Distinct(ips) \in Seq(Addrs) /\ ToSet(Distinct(ips)) = ToSet(ips)
      /\ IsInjective(Distinct(ips))
  BY <1>4, DistinctKeeps
<1> QED
  BY <1>2, <1>5, <1>6, <1>7

\* An entry for each of them.
LEMMA EntriesOfIs ==
    ASSUME NEW extra \in Seq(Server), NEW host \in Hosts
    PROVE  /\ EntriesOf(extra, host) \in Seq(Nameserver) /\ IsInjective(EntriesOf(extra, host))
           /\ ToSet(EntriesOf(extra, host)) = Entries(extra, host)
<1> DEFINE ips == GlueOf(extra, host)
           entries == [k \in DOMAIN ips |-> [host |-> host, ip |-> ips[k]]]
<1>1. /\ ips \in Seq(Addrs) /\ IsInjective(ips)
      /\ ToSet(ips) = {g.ip : g \in Given(extra, host)}
  BY GlueOfIs
<1>2. EntriesOf(extra, host) = IF ips = <<>> THEN <<[host |-> host, ip |-> NoIP]>> ELSE entries
  BY DEF EntriesOf
<1> HIDE DEF ips
<1>3. Given(extra, host) \subseteq Server /\ \A g \in Given(extra, host) : g.host = host
  BY DEF Given, ToSet
<1>4. CASE ips = <<>>
  <2> DEFINE one == [host |-> host, ip |-> NoIP]
  <2>1. Given(extra, host) = {}
    BY <1>1, <1>4, ElementsOfNone
  <2>2. one \in Nameserver
    BY DEF Nameserver
  <2> HIDE DEF one
  <2>3. <<one>> \in Seq(Nameserver) /\ IsInjective(<<one>>) /\ ToSet(<<one>>) = {one}
    BY <2>2 DEF IsInjective, ToSet
  <2> QED
    BY <1>2, <1>4, <2>1, <2>3 DEF Entries, one
<1>5. CASE ips # <<>>
  <2>1. DOMAIN ips = 1..Len(ips) /\ Len(ips) \in Nat \ {0} /\ \A k \in 1..Len(ips) : ips[k] \in Addrs
    BY <1>1, <1>5
  <2>2. ips[1] \in ToSet(ips)
    BY <2>1 DEF ToSet
  <2>3. Given(extra, host) # {}
    BY <1>1, <2>2
  <2>4. \A k \in 1..Len(ips) : [host |-> host, ip |-> ips[k]] \in Nameserver
    BY <2>1 DEF Nameserver
  <2>5. entries \in Seq(Nameserver) /\ DOMAIN entries = 1..Len(ips)
    BY <2>1, <2>4
  <2>6. IsInjective(entries)
    <3> SUFFICES ASSUME NEW j \in 1..Len(ips), NEW k \in 1..Len(ips), entries[j] = entries[k]
                 PROVE  j = k
      BY <2>5 DEF IsInjective
    <3>1. ips[j] = ips[k]
      BY <2>1
    <3> QED
      BY <1>1, <2>1, <3>1 DEF IsInjective
  <2>7. ToSet(entries) = {[host |-> host, ip |-> a] : a \in ToSet(ips)}
    BY <2>1, <2>5 DEF ToSet
  <2>8. {[host |-> host, ip |-> a] : a \in ToSet(ips)} = Given(extra, host)
    <3>1. \A g \in Given(extra, host) : g = [host |-> host, ip |-> g.ip]
      BY <1>3 DEF Server
    <3> QED
      BY <1>1, <3>1
  <2> QED
    BY <1>2, <1>5, <2>3, <2>5, <2>6, <2>7, <2>8 DEF Entries
<1> QED
  BY <1>4, <1>5

\* The entries of the names of a section, one after the other.
LEMMA ExtractionFits ==
    ASSUME NEW section \in Seq(NSRecord), NEW extra \in Seq(Server),
           NEW names, names = NSNames(section),
           NEW d, d = ExtractDelegation(section, extra)
    PROVE  /\ d \in Delegations
           /\ ToSet(d.nsRecords) = UNION {Entries(extra, h) : h \in ToSet(names)}
           /\ ToSet(d.glue) = {e \in ToSet(d.nsRecords) : e.ip # NoIP}
           /\ IsInjective(names) => IsInjective(d.nsRecords)
<1> DEFINE lists == [k \in DOMAIN names |-> EntriesOf(extra, names[k])]
           records == FlattenSeq(lists)
           keep == {e \in ToSet(records) : e.ip # NoIP}
           glue == Filter(records, keep)
<1>1. names \in Seq(Hosts)
  BY NSNamesAreHosts
<1>2. DOMAIN names = 1..Len(names) /\ Len(names) \in Nat /\ \A k \in 1..Len(names) : names[k] \in Hosts
  BY <1>1
<1>3. d = [nsRecords |-> records, glue |-> glue]
  BY DEF ExtractDelegation
<1>4. \A k \in 1..Len(names) :
         /\ EntriesOf(extra, names[k]) \in Seq(Nameserver) /\ IsInjective(EntriesOf(extra, names[k]))
         /\ ToSet(EntriesOf(extra, names[k])) = Entries(extra, names[k])
  BY <1>2, EntriesOfIs
<1>5. /\ lists \in Seq(Seq(Nameserver)) /\ Len(lists) = Len(names)
      /\ \A k \in 1..Len(names) : lists[k] = EntriesOf(extra, names[k])
  <2> DEFINE T == Seq(Nameserver)
  <2>1. \A k \in 1..Len(names) : EntriesOf(extra, names[k]) \in T
    BY <1>4
  <2> HIDE DEF T
  <2>2. lists \in Seq(T) /\ Len(lists) = Len(names)
    BY <1>2, <2>1
  <2> QED
    BY <1>2, <2>2 DEF T
<1> HIDE DEF lists
<1>6. records \in Seq(Nameserver) /\ ToSet(records) = UNION {ToSet(lists[k]) : k \in 1..Len(lists)}
  BY <1>5, FlattenKeeps
<1>7. ToSet(records) = UNION {Entries(extra, h) : h \in ToSet(names)}
  <2>1. \A k \in 1..Len(names) : ToSet(lists[k]) = Entries(extra, names[k])
    BY <1>4, <1>5
  <2>2. ToSet(records) = UNION {Entries(extra, names[k]) : k \in 1..Len(names)}
    BY <1>5, <1>6, <2>1
  <2>3. ToSet(names) = {names[k] : k \in 1..Len(names)}
    BY <1>2 DEF ToSet
  <2> QED
    BY <2>2, <2>3
<1>8. ASSUME IsInjective(names)
      PROVE  IsInjective(records)
  <2>1. \A k \in 1..Len(lists) : IsInjective(lists[k]) /\ ToSet(lists[k]) = Entries(extra, names[k])
    BY <1>4, <1>5
  <2>2. \A j, k \in 1..Len(lists) : j # k => names[j] # names[k]
    BY <1>2, <1>5, <1>8 DEF IsInjective
  <2>3. \A h \in Hosts : \A e \in Entries(extra, h) : e.host = h
    BY DEF Entries, Given
  <2>4. \A j, k \in 1..Len(lists) : j # k => ToSet(lists[j]) \cap ToSet(lists[k]) = {}
    <3> SUFFICES ASSUME NEW j \in 1..Len(lists), NEW k \in 1..Len(lists), j # k,
                        NEW e \in ToSet(lists[j]), e \in ToSet(lists[k])
                 PROVE  FALSE
      OBVIOUS
    <3>1. e.host = names[j] /\ e.host = names[k]
      BY <1>2, <1>5, <2>1, <2>3
    <3> QED
      BY <2>2, <3>1
  <2> QED
    BY <1>5, <2>1, <2>4, FlattenInjective
<1> HIDE DEF records
<1>9. glue \in Seq(Nameserver) /\ ToSet(glue) = ToSet(records) \cap keep
  BY <1>6, FilterKeeps
<1>10. ToSet(glue) = keep
  BY <1>9
<1> HIDE DEF glue
<1>11. d \in Delegations /\ d.nsRecords = records /\ d.glue = glue
  <2>1. d.nsRecords = records /\ d.glue = glue
    BY <1>3
  <2>2. records \in Seq(Nameserver) /\ glue \in Seq(Nameserver)
    BY <1>6, <1>9
  <2>3. d \in [nsRecords : Seq(Nameserver), glue : Seq(Nameserver)]
    BY <1>3, <2>2
  <2> QED
    BY <1>10, <2>1, <2>3 DEF Delegations
<1> QED
  BY <1>7, <1>8, <1>10, <1>11
-----------------------------------------------------------------------------
(* The walk.                                                               *)

WalkType ==
    /\ walk \in {"ask", "askA", "askAAAA", "delegated", "failed", "returned"}
    /\ server \in Addrs \cup {Root} /\ hops \in 0..(WalkHops - 1)
    /\ referral \in WalkReplyType /\ delegation \in Delegations

\* The fallback serves a referral without glue.
WalkInv ==
    /\ WalkType /\ DelegationIsTheReply /\ PrefersIPv4
    /\ walk \in {"askA", "askAAAA"} => WithGlue(referral) = <<>>

LEMMA RepliesFit ==
    ASSUME NEW reply \in WalkReplyType
    PROVE  /\ reply.ns \in Seq(NSRecord) /\ reply.answer \in Seq(NSRecord)
           /\ reply.extra \in Seq(Server)
BY DEF WalkReplyType

\* What the parent says is the delegation.
LEMMA DelegatesTheReply ==
    ASSUME NEW reply \in WalkReplyType,
           walk' = "delegated", referral' = reply,
           delegation' = ExtractDelegation(IF IsAnswer(reply) THEN reply.answer ELSE reply.ns,
                                           reply.extra)
    PROVE  delegation' \in Delegations /\ DelegationIsTheReply'
<1> DEFINE section == IF IsAnswer(reply) THEN reply.answer ELSE reply.ns
           extra == reply.extra
           names == NSNames(section)
           d == ExtractDelegation(section, extra)
           known == {g \in ToSet(extra) : g.host \in ToSet(names)}
           bare == {[host |-> h, ip |-> NoIP] :
                        h \in {h \in ToSet(names) : \A g \in known : g.host # h}}
<1>1. section \in Seq(NSRecord) /\ extra \in Seq(Server)
  BY RepliesFit
<1>2. /\ d \in Delegations
      /\ ToSet(d.nsRecords) = UNION {Entries(extra, h) : h \in ToSet(names)}
      /\ ToSet(d.glue) = {e \in ToSet(d.nsRecords) : e.ip # NoIP}
      /\ IsInjective(names) => IsInjective(d.nsRecords)
  <2> HIDE DEF section, extra
  <2> QED
    BY <1>1, ExtractionFits
<1>3. /\ \A g \in ToSet(extra) : g \in Server /\ g.ip # NoIP
      /\ \A h : [host |-> h, ip |-> NoIP].ip = NoIP
  <2>1. \A g \in ToSet(extra) : g \in Server
    BY <1>1 DEF ToSet
  <2> QED
    BY <2>1, TypesAssumption DEF Server
<1> HIDE DEF d, section, extra
<1>4. UNION {Entries(extra, h) : h \in ToSet(names)} = known \cup bare
  <2>1. \A h \in ToSet(names) : Given(extra, h) = {g \in known : g.host = h}
    BY DEF Given
  <2>2. \A h \in ToSet(names) : Entries(extra, h) =
           IF \A g \in known : g.host # h THEN {[host |-> h, ip |-> NoIP]}
           ELSE {g \in known : g.host = h}
    BY <2>1 DEF Entries
  <2> HIDE DEF names
  <2> QED
    BY <2>2
<1>5. {e \in known \cup bare : e.ip # NoIP} = known
  BY <1>3
<1>6. ToSet(d.nsRecords) = known \cup bare /\ ToSet(d.glue) = known
  BY <1>2, <1>4, <1>5
<1> QED
  BY <1>2, <1>6 DEF DelegationIsTheReply, d, section, extra

\* An address of the first nameserver with glue, IPv4 before IPv6.
Prefers(reply, ip) ==
    LET next == Head(WithGlue(reply))
    IN  /\ [host |-> next, ip |-> ip] \in ToSet(reply.extra)
        /\ ip \notin V4 => \A g \in ToSet(reply.extra) : g.host = next => g.ip \notin V4

LEMMA EndsOfList ==
    ASSUME NEW U, NEW s \in Seq(U), s # <<>>
    PROVE  Head(s) \in ToSet(s) /\ Last(s) \in ToSet(s)
<1>1. /\ Len(s) \in Nat \ {0} /\ DOMAIN s = 1..Len(s) /\ Head(s) = s[1] /\ Last(s) = s[Len(s)]
      /\ 1 \in 1..Len(s) /\ Len(s) \in 1..Len(s)
  BY DEF Last
<1> QED
  BY <1>1 DEF ToSet

LEMMA NextIsPreferred ==
    ASSUME NEW reply \in WalkReplyType, NEW ip \in NextByGlue(reply)
    PROVE  ip \in Addrs /\ WithGlue(reply) # <<>> /\ Prefers(reply, ip)
<1> DEFINE extra == reply.extra
           names == NSNames(reply.ns)
           named == WithGlue(reply)
           next == Head(named)
           mine == {g \in ToSet(extra) : g.host = next}
           glue == Filter(extra, mine)
           quad == {g \in ToSet(glue) : g.ip \in V4}
           v4 == Filter(glue, quad)
<1>1. extra \in Seq(Server) /\ names \in Seq(Hosts)
  BY RepliesFit, NSNamesAreHosts
<1>2. named # <<>> /\ ip = (IF v4 # <<>> THEN Last(v4).ip ELSE Head(glue).ip)
  BY DEF NextByGlue
<1> DEFINE hosts == {g.host : g \in ToSet(extra)}
<1>3. named \in Seq(Hosts) /\ ToSet(named) = ToSet(names) \cap hosts
  <2> HIDE DEF names, hosts
  <2>1. Filter(names, hosts) \in Seq(Hosts) /\ ToSet(Filter(names, hosts)) = ToSet(names) \cap hosts
    BY <1>1, FilterKeeps
  <2> QED
    BY <2>1 DEF WithGlue, names, hosts
<1>4. glue \in Seq(Server) /\ ToSet(glue) = mine
  <2> HIDE DEF mine
  <2>1. glue \in Seq(Server) /\ ToSet(glue) = ToSet(extra) \cap mine
    BY <1>1, FilterKeeps
  <2> QED
    BY <2>1 DEF mine
<1> HIDE DEF glue
<1>5. v4 \in Seq(Server) /\ ToSet(v4) = quad
  <2> HIDE DEF quad
  <2>1. v4 \in Seq(Server) /\ ToSet(v4) = ToSet(glue) \cap quad
    BY <1>4, FilterKeeps
  <2> QED
    BY <2>1 DEF quad
<1> HIDE DEF v4
<1>6. next \in ToSet(named)
  <2> HIDE DEF named
  <2> QED
    BY <1>2, <1>3, EndsOfList
<1>7. mine # {}
  <2>1. next \in hosts
    BY <1>3, <1>6
  <2> QED
    BY <2>1
<1>8. glue # <<>>
  BY <1>4, <1>7, ElementsOfNone
<1>9. Head(glue) \in mine /\ (v4 # <<>> => Last(v4) \in quad)
  BY <1>4, <1>5, <1>8, EndsOfList
<1>10. v4 = <<>> => quad = {}
  BY <1>5, ElementsOfNone
<1>11. \A g \in mine : g \in Server /\ g.host = next
  BY <1>1 DEF ToSet
<1>12. PICK g \in mine : ip = g.ip /\ (g.ip \in V4 \/ quad = {})
  BY <1>2, <1>4, <1>9, <1>10
<1> HIDE DEF named
<1>13. g = [host |-> next, ip |-> ip] /\ ip \in Addrs
  BY <1>11, <1>12 DEF Server
<1>14. ip \notin V4 => \A h \in ToSet(extra) : h.host = next => h.ip \notin V4
  BY <1>4, <1>12
<1> QED
  BY <1>2, <1>12, <1>13, <1>14 DEF Prefers, named

LEMMA WalkStep ==
    ASSUME WalkInv, WalkNext
    PROVE  WalkInv'
<1> USE DEF WalkInv, WalkType
<1>1. WalkHops \in Nat \ {0} /\ WalkReplies \subseteq WalkReplyType /\ V4 \subseteq Addrs
  BY WalkAssumption, TypesAssumption
<1>2. NoReply \in WalkReplyType
  BY DEF NoReply, WalkReplyType
<1>3. CASE GiveUp
  <2>1. /\ walk' = "failed" /\ server' = Root /\ hops' = 0 /\ referral' = NoReply
        /\ delegation' = delegation
    BY <1>3 DEF GiveUp, WalkReturns
  <2> QED
    BY <1>1, <1>2, <2>1 DEF DelegationIsTheReply, PrefersIPv4
<1>4. ASSUME WalkDelegates
      PROVE  WalkInv'
  <2>1. PICK reply \in WalkReplies :
           /\ referral' = reply
           /\ delegation' = ExtractDelegation(IF IsAnswer(reply) THEN reply.answer ELSE reply.ns,
                                              reply.extra)
    BY <1>4 DEF WalkDelegates
  <2>2. walk' = "delegated" /\ server' = Root /\ hops' = 0 /\ reply \in WalkReplyType
    BY <1>1, <1>4 DEF WalkDelegates, WalkReturns
  <2>3. delegation' \in Delegations /\ DelegationIsTheReply'
    BY <2>1, <2>2, DelegatesTheReply
  <2> QED
    BY <1>1, <2>1, <2>2, <2>3 DEF PrefersIPv4
<1>5. ASSUME NEW reply \in WalkReplyType, NEW ip \in Addrs, walk # "delegated",
             Hop(ip), referral' = reply,
             WithGlue(reply) # <<>> => Prefers(reply, ip)
      PROVE  WalkInv'
  <2>1. CASE hops + 1 = WalkHops
    <3>1. walk' = "failed" /\ server' = Root /\ hops' = 0 /\ delegation' = delegation
      BY <1>5, <2>1 DEF Hop, WalkReturns
    <3> QED
      BY <1>1, <1>5, <3>1 DEF DelegationIsTheReply, PrefersIPv4
  <2>2. CASE hops + 1 # WalkHops
    <3>1. walk' = "ask" /\ server' = ip /\ hops' = hops + 1 /\ delegation' = delegation
      BY <1>5, <2>2 DEF Hop
    <3>2. hops' \in 0..(WalkHops - 1)
      BY <1>1, <2>2, <3>1
    <3>3. PrefersIPv4'
      BY <1>5, <3>1 DEF PrefersIPv4, Prefers
    <3> QED
      BY <1>1, <1>5, <3>1, <3>2, <3>3 DEF DelegationIsTheReply
  <2> QED
    BY <2>1, <2>2
<1>6. ASSUME WalkFollowsGlue
      PROVE  WalkInv'
  <2>1. PICK reply \in WalkReplies : referral' = reply /\ \E ip \in NextByGlue(reply) : Hop(ip)
    BY <1>6 DEF WalkFollowsGlue
  <2>2. PICK ip \in NextByGlue(reply) : Hop(ip)
    BY <2>1
  <2>3. reply \in WalkReplyType /\ walk # "delegated"
    BY <1>1, <1>6 DEF WalkFollowsGlue
  <2>4. ip \in Addrs /\ WithGlue(reply) # <<>> /\ Prefers(reply, ip)
    BY <2>3, NextIsPreferred
  <2> QED
    BY <1>5, <2>1, <2>2, <2>3, <2>4
<1>7. ASSUME WalkStartsFallback
      PROVE  WalkInv'
  <2>1. PICK reply \in WalkReplies : referral' = reply /\ NextByGlue(reply) = {}
    BY <1>7 DEF WalkStartsFallback
  <2>2. walk' = "askA" /\ UNCHANGED <<server, hops, delegation>>
    BY <1>7 DEF WalkStartsFallback
  <2>3. WithGlue(reply) = <<>>
    BY <2>1 DEF NextByGlue
  <2> QED
    BY <1>1, <2>1, <2>2, <2>3 DEF DelegationIsTheReply, PrefersIPv4
<1>8. ASSUME WalkFallbackFinds
      PROVE  WalkInv'
  <2>1. PICK ip \in Addrs : Hop(ip)
    BY <1>8 DEF WalkFallbackFinds
  <2>2. walk \in {"askA", "askAAAA"} /\ referral' = referral
    BY <1>8 DEF WalkFallbackFinds
  <2> QED
    BY <1>5, <2>1, <2>2
<1>9. CASE WalkFallbackMisses
  <2>1. CASE /\ walk = "askA" /\ walk' = "askAAAA"
             /\ UNCHANGED <<server, hops, referral, delegation>>
    BY <2>1 DEF DelegationIsTheReply, PrefersIPv4
  <2> QED
    BY <1>3, <1>9, <2>1 DEF WalkFallbackMisses
<1> QED
  BY <1>3, <1>4, <1>6, <1>7, <1>8, <1>9 DEF WalkNext, WalkExchangeFails, WalkUnusable
-----------------------------------------------------------------------------
(* The discovery.                                                          *)

DiscoveryType ==
    /\ discovery \in {"idle", "glue", "augment", "done"}
    /\ delegation \in Delegations
    /\ nameservers \in Seq(Server) /\ resolved \in Seq(Server)
    /\ unresolved \subseteq Hosts
    /\ position \in 0..Len(delegation.nsRecords)

\* The glue of the first n entries.
GlueUpTo(n) == {e \in {delegation.nsRecords[k] : k \in 1..n} : e.ip # NoIP}

Discovered ==
    /\ discovery = "idle" =>
          nameservers = <<>> /\ position = 0
    /\ discovery \in {"idle", "glue"} =>
          /\ resolved = <<>> /\ found = {} /\ sought = {}
          /\ ToSet(nameservers) = GlueUpTo(position)
    /\ discovery \in {"augment", "done"} =>
          /\ ToSet(nameservers) \cup ToSet(resolved) = ToSet(delegation.glue) \cup found
          /\ HostsNeedingAugmentation \subseteq sought \cup unresolved
    /\ discovery = "done" => resolved = <<>> /\ unresolved = {}

DiscoveryInv == DiscoveryType /\ NameserversAreDistinct /\ Discovered
-----------------------------------------------------------------------------
\* Including adds the entry unless it is there.
LEMMA IncludingAdds ==
    ASSUME nameservers \in Seq(Server), NEW e \in Server, NameserversAreDistinct,
           NEW next, next = Including(e)
    PROVE  /\ next \in Seq(Server) /\ ToSet(next) = ToSet(nameservers) \cup {e}
           /\ \A j, k \in DOMAIN next : next[j] = next[k] => j = k
<1>1. CASE \E k \in DOMAIN nameservers : nameservers[k] = e
  <2>1. next = nameservers
    BY <1>1 DEF Including
  <2> QED
    BY <1>1, <2>1 DEF ToSet, NameserversAreDistinct
<1>2. CASE \A k \in DOMAIN nameservers : nameservers[k] # e
  <2> DEFINE len == Len(nameservers)
  <2>1. next = Append(nameservers, e)
    BY <1>2 DEF Including
  <2>2. /\ len \in Nat /\ DOMAIN nameservers = 1..len /\ DOMAIN next = 1..(len + 1)
        /\ next[len + 1] = e /\ \A k \in 1..len : next[k] = nameservers[k]
        /\ next \in Seq(Server)
    BY <2>1
  <2>3. ToSet(next) = ToSet(nameservers) \cup {e}
    BY <2>2 DEF ToSet
  <2>4. ASSUME NEW j \in DOMAIN next, NEW k \in DOMAIN next, next[j] = next[k]
        PROVE  j = k
    BY <2>2, <2>4, <1>2 DEF NameserversAreDistinct
  <2> QED
    BY <2>2, <2>3, <2>4
<1> QED
  BY <1>1, <1>2

\* The entries passed over and those with glue, one further.
LEMMA OneEntryFurther ==
    ASSUME DiscoveryType, position < Len(delegation.nsRecords),
           NEW e, e = delegation.nsRecords[position + 1]
    PROVE  /\ e \in Nameserver
           /\ GlueUpTo(position + 1) =
                 GlueUpTo(position) \cup (IF e.ip = NoIP THEN {} ELSE {e})
<1>1. /\ delegation.nsRecords \in Seq(Nameserver) /\ position \in Nat
      /\ position + 1 \in 1..Len(delegation.nsRecords)
  BY DEF DiscoveryType, Delegations
<1>2. 1..(position + 1) = (1..position) \cup {position + 1}
  BY <1>1
<1> QED
  BY <1>1, <1>2 DEF GlueUpTo

LEMMA DiscoveryStepHolds ==
    ASSUME DiscoveryInv, DiscoveryNext, UNCHANGED walkVars
    PROVE  DiscoveryInv'
<1> USE DEF DiscoveryInv, walkVars
<1>0. /\ delegation' = delegation /\ HostsNeedingAugmentation' = HostsNeedingAugmentation
      /\ \A n : GlueUpTo(n)' = GlueUpTo(n)
  BY DEF HostsNeedingAugmentation, Covers, GlueUpTo
<1>1. CASE BeginDiscovery
  BY <1>0, <1>1 DEF BeginDiscovery, DiscoveryType, Discovered, NameserversAreDistinct
<1>2. CASE TakeGlue
  <2> DEFINE e == delegation.nsRecords[position + 1]
  <2>1. /\ discovery = "glue" /\ position < Len(delegation.nsRecords)
        /\ position' = position + 1 /\ position \in Nat
        /\ UNCHANGED <<discovery, unresolved, resolved, sought, found>>
        /\ nameservers' = IF e.ip = NoIP THEN nameservers ELSE Including(e)
    BY <1>2 DEF TakeGlue, DiscoveryType
  <2>2. /\ e \in Nameserver
        /\ GlueUpTo(position + 1) =
              GlueUpTo(position) \cup (IF e.ip = NoIP THEN {} ELSE {e})
    BY <2>1, OneEntryFurther
  <2> HIDE DEF e
  <2>3. /\ nameservers' \in Seq(Server) /\ NameserversAreDistinct'
        /\ ToSet(nameservers)' = GlueUpTo(position + 1)
    <3>1. CASE e.ip = NoIP
      BY <2>1, <2>2, <3>1 DEF DiscoveryType, Discovered, NameserversAreDistinct
    <3>2. CASE e.ip # NoIP
      <4>0. e \in Server
        BY <2>2, <3>2 DEF Nameserver, Server
      <4>1. /\ Including(e) \in Seq(Server)
            /\ ToSet(Including(e)) = ToSet(nameservers) \cup {e}
            /\ \A j, k \in DOMAIN Including(e) :
                  Including(e)[j] = Including(e)[k] => j = k
        BY <4>0, IncludingAdds DEF DiscoveryType
      <4> QED
        BY <2>1, <2>2, <3>2, <4>1 DEF Discovered, NameserversAreDistinct
    <3> QED
      BY <3>1, <3>2
  <2>4. DiscoveryType'
    BY <1>0, <2>1, <2>3 DEF DiscoveryType, Delegations
  <2> QED
    BY <1>0, <2>1, <2>3, <2>4 DEF Discovered
<1>3. CASE BeginAugmentation
  <2>1. /\ discovery = "glue" /\ position = Len(delegation.nsRecords)
        /\ discovery' = "augment" /\ unresolved' = HostsNeedingAugmentation
        /\ UNCHANGED <<nameservers, position, resolved, sought, found>>
    BY <1>3 DEF BeginAugmentation
  <2>2. GlueUpTo(position) = ToSet(delegation.glue)
    <3>1. DOMAIN delegation.nsRecords = 1..position
      BY <2>1 DEF DiscoveryType, Delegations
    <3>2. ToSet(delegation.nsRecords) = {delegation.nsRecords[k] : k \in 1..position}
      BY <3>1 DEF ToSet
    <3> QED
      BY <3>2 DEF DiscoveryType, Delegations, GlueUpTo
  <2>3. ToSet(resolved) = {}
    BY <2>1 DEF ToSet, Discovered
  <2>4. Discovered'
    BY <1>0, <2>1, <2>2, <2>3 DEF Discovered
  <2>5. HostsNeedingAugmentation \subseteq Hosts
    <3>1. delegation.nsRecords \in Seq(Nameserver)
      BY DEF DiscoveryType, Delegations
    <3>2. \A e \in ToSet(delegation.nsRecords) : e \in Nameserver
      BY <3>1 DEF ToSet
    <3>3. \A e \in ToSet(delegation.nsRecords) : e.host \in Hosts
      BY <3>2 DEF Nameserver
    <3> QED
      BY <3>3 DEF HostsNeedingAugmentation
  <2>6. DiscoveryType'
    BY <1>0, <2>1, <2>5 DEF DiscoveryType
  <2> QED
    BY <1>0, <2>1, <2>4, <2>6 DEF NameserversAreDistinct
<1>4. ASSUME NEW h \in Hosts, ResolutionFails(h)
      PROVE  DiscoveryInv'
  <2>1. /\ discovery = "augment" /\ unresolved' = unresolved \ {h}
        /\ sought' = sought \cup {h}
        /\ UNCHANGED <<discovery, nameservers, position, resolved, found>>
    BY <1>4 DEF ResolutionFails
  <2>2. Discovered'
    BY <1>0, <2>1 DEF Discovered
  <2> QED
    BY <1>0, <2>1, <2>2 DEF DiscoveryType, NameserversAreDistinct
<1>5. ASSUME NEW h \in Hosts, Resolves(h)
      PROVE  DiscoveryInv'
  <2>1. PICK ips \in Lookups[h] :
           resolved' = [k \in 1..Len(ips) |-> [host |-> h, ip |-> ips[k]]]
    BY <1>5 DEF Resolves
  <2>2. /\ discovery = "augment" /\ resolved = <<>> /\ h \in unresolved
        /\ unresolved' = unresolved \ {h} /\ sought' = sought \cup {h}
        /\ found' = found \cup ToSet(resolved')
        /\ UNCHANGED <<discovery, nameservers, position>>
    BY <1>5 DEF Resolves
  <2>3. resolved' \in Seq(Server)
    <3>1. ips \in Seq(Addrs)
      BY LookupsAssumption
    <3>2. \A k \in 1..Len(ips) : [host |-> h, ip |-> ips[k]] \in Server
      BY <3>1 DEF Server
    <3> QED
      BY <2>1, <3>1, <3>2
  <2>4. ToSet(resolved) = {} /\ ToSet(resolved)' = ToSet(resolved')
    BY <2>2 DEF ToSet
  <2>5. Discovered'
    BY <1>0, <2>2, <2>4 DEF Discovered, ToSet
  <2> QED
    BY <1>0, <2>2, <2>3, <2>5 DEF DiscoveryType, NameserversAreDistinct
<1>6. CASE TakeResolved
  <2> DEFINE e == Head(resolved)
  <2>1. /\ discovery = "augment" /\ resolved # <<>> /\ resolved \in Seq(Server)
        /\ nameservers' = Including(e) /\ resolved' = Tail(resolved)
        /\ UNCHANGED <<discovery, position, unresolved, sought, found>>
    BY <1>6 DEF TakeResolved, DiscoveryType
  <2>2. /\ e \in Server /\ Tail(resolved) \in Seq(Server)
        /\ ToSet(resolved) = {e} \cup ToSet(Tail(resolved))
    BY <2>1, ElementsOfTail
  <2> HIDE DEF e
  <2>3. /\ Including(e) \in Seq(Server)
        /\ ToSet(Including(e)) = ToSet(nameservers) \cup {e}
        /\ \A j, k \in DOMAIN Including(e) : Including(e)[j] = Including(e)[k] => j = k
    BY <2>2, IncludingAdds DEF DiscoveryType
  <2>4. Discovered'
    <3>1. ToSet(nameservers') \cup ToSet(resolved') = ToSet(delegation.glue) \cup found
      BY <2>1, <2>2, <2>3 DEF Discovered
    <3> QED
      BY <1>0, <2>1, <3>1 DEF Discovered
  <2> QED
    BY <1>0, <2>1, <2>2, <2>3, <2>4 DEF DiscoveryType, NameserversAreDistinct
<1>7. CASE EndDiscovery
  BY <1>0, <1>7 DEF EndDiscovery, DiscoveryType, Discovered, NameserversAreDistinct, ToSet
<1> QED
  BY <1>1, <1>2, <1>3, <1>4, <1>5, <1>6, <1>7 DEF DiscoveryNext, DiscoveryStep
-----------------------------------------------------------------------------
LEMMA DiscoveryInvariant ==
    ASSUME NEW D, D \subseteq Delegations
    PROVE  DiscoverySpec(D) => []DiscoveryInv
<1>1. DiscoveryIdle /\ delegation \in D => DiscoveryInv
  <2> SUFFICES ASSUME DiscoveryIdle, delegation \in D PROVE DiscoveryInv
    OBVIOUS
  <2>1. DiscoveryType
    BY DEF DiscoveryIdle, DiscoveryType, Delegations
  <2>2. ToSet(nameservers) = {} /\ GlueUpTo(position) = {}
    BY DEF DiscoveryIdle, ToSet, GlueUpTo
  <2>3. Discovered
    BY <2>2 DEF DiscoveryIdle, Discovered
  <2>4. NameserversAreDistinct
    BY DEF DiscoveryIdle, NameserversAreDistinct
  <2> QED
    BY <2>1, <2>3, <2>4 DEF DiscoveryInv
<1>2. DiscoveryInv /\ [DiscoveryNext /\ UNCHANGED walkVars]_<<discoveryVars, walkVars>>
         => DiscoveryInv'
  <2> SUFFICES ASSUME DiscoveryInv, UNCHANGED <<discoveryVars, walkVars>> PROVE DiscoveryInv'
    BY DiscoveryStepHolds
  <2>1. UNCHANGED <<discovery, nameservers, position, unresolved, resolved, sought, found,
                    delegation>>
    BY DEF discoveryVars, walkVars
  <2>2. HostsNeedingAugmentation' = HostsNeedingAugmentation
        /\ \A n : GlueUpTo(n)' = GlueUpTo(n)
    BY <2>1 DEF HostsNeedingAugmentation, Covers, GlueUpTo
  <2> QED
    BY <2>1, <2>2 DEF DiscoveryInv, DiscoveryType, Discovered, NameserversAreDistinct
<1> QED
  BY <1>1, <1>2, PTL DEF DiscoverySpec

\* No nameserver is probed twice at the same address, whatever the parent
\* repeats and the resolver returns (runner.go:489-495, 517-536).
THEOREM DistinctTheorem ==
    ASSUME NEW D, D \subseteq Delegations
    PROVE  DiscoverySpec(D) => []NameserversAreDistinct
<1>1. DiscoveryInv => NameserversAreDistinct
  BY DEF DiscoveryInv
<1> QED
  BY <1>1, DiscoveryInvariant, PTL

\* At the end nothing is lost.
LEMMA NothingIsLost == DiscoveryInv => NoAddressIsLost
<1> SUFFICES ASSUME DiscoveryInv, discovery = "done" PROVE NoAddressIsLost
  BY DEF NoAddressIsLost
<1>1. ToSet(nameservers) = ToSet(delegation.glue) \cup found
  <2>1. ToSet(resolved) = {}
    BY DEF DiscoveryInv, Discovered, ToSet
  <2> QED
    BY <2>1 DEF DiscoveryInv, Discovered
<1>2. ASSUME NEW e \in ToSet(delegation.nsRecords), NEW v4 \in BOOLEAN, e.host \notin sought
      PROVE  \E ns \in ToSet(nameservers) : ns.host = e.host /\ (ns.ip \in V4) = v4
  <2>1. e.host \notin HostsNeedingAugmentation
    BY <1>2 DEF DiscoveryInv, Discovered
  <2>2. Covers(e.host, TRUE) /\ Covers(e.host, FALSE)
    BY <2>1 DEF HostsNeedingAugmentation
  <2>3. Covers(e.host, v4)
    BY <2>2
  <2>4. PICK k \in DOMAIN delegation.nsRecords :
           /\ delegation.nsRecords[k].host = e.host
           /\ delegation.nsRecords[k].ip # NoIP
           /\ (delegation.nsRecords[k].ip \in V4) = v4
    BY <2>3 DEF Covers
  <2>5. delegation.nsRecords[k] \in ToSet(delegation.nsRecords)
    BY DEF ToSet
  <2>6. delegation.nsRecords[k] \in ToSet(delegation.glue)
    BY <2>4, <2>5 DEF DiscoveryInv, DiscoveryType, Delegations
  <2> QED
    BY <2>4, <2>6, <1>1
<1> QED
  BY <1>1, <1>2 DEF NoAddressIsLost

\* What the discovery ends with is all that the parent and the resolver have
\* named, and each family that the parent lacks has been looked for, whichever
\* lookups fail (runner.go:469-500, 538-575).
THEOREM NothingLostTheorem ==
    ASSUME NEW D, D \subseteq Delegations
    PROVE  DiscoverySpec(D) => []NoAddressIsLost
BY NothingIsLost, DiscoveryInvariant, PTL
=============================================================================
