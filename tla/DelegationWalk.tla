--------------------------- MODULE DelegationWalk ---------------------------
(***************************************************************************)
(* WalkDelegation and extractDelegation (prober/prober.go): from a root    *)
(* server down to the parent of the zone, one server at each hop.          *)
(*                                                                         *)
(* One step is one DNS exchange; the servers may reply anything in         *)
(* WalkReplies, or nothing.                                                *)
(***************************************************************************)
EXTENDS ProbeTypes, Lists, SequencesExt

CONSTANTS
    NotNS,          \* a record that is no NS record
    Root,           \* RootServers[0]
    WalkReplies,    \* what a server may reply to the walk
    WalkHops        \* the bound of the loop over depth: 10

\* A reply: the AA bit, the NS records of the answer and authority sections,
\* each with its owner, and the addresses of the additional section.
NSRecord == [owner : {"zone", "above"}, host : Hosts \cup {NotNS}]
WalkReplyType == [aa : BOOLEAN, answer : Seq(NSRecord), ns : Seq(NSRecord),
                  extra : Seq(Server)]

ASSUME WalkAssumption ==
    /\ NotNS \notin Hosts
    /\ WalkReplies \subseteq WalkReplyType
    /\ WalkHops \in Nat \ {0}

VARIABLES
    walk,           \* what the walk is doing
    server,         \* the server that it asks
    hops,           \* the referrals followed
    referral,       \* the last reply that was a referral or the delegation
    delegation      \* the DelegationResult

walkVars == <<walk, server, hops, referral, delegation>>

NoReply == [aa |-> FALSE, answer |-> <<>>, ns |-> <<>>, extra |-> <<>>]
NoDelegation == [nsRecords |-> <<>>, glue |-> <<>>]

WalkInit ==
    /\ walk = "ask" /\ server = Root /\ hops = 0
    /\ referral = NoReply /\ delegation = NoDelegation
-----------------------------------------------------------------------------
\* The names of the NS records of a section.
NSNames(section) ==
    LET records == Filter(section, {rr \in ToSet(section) : rr.host # NotNS})
    IN  [k \in DOMAIN records |-> records[k].host]

\* Mutant: an address that the parent repeats is kept twice.
BugGlueOf(extra, host) ==
    LET mine == Filter(extra, {g \in ToSet(extra) : g.host = host})
    IN  [k \in DOMAIN mine |-> mine[k].ip]

\* The distinct addresses of a name in the additional section, in its order.
GlueOf(extra, host) ==
    LET mine == Filter(extra, {g \in ToSet(extra) : g.host = host})
    IN  Distinct([k \in DOMAIN mine |-> mine[k].ip])

\* One entry for each address of a nameserver, or one without an address.
EntriesOf(extra, host) ==
    LET ips == GlueOf(extra, host)
    IN  IF ips = <<>> THEN <<[host |-> host, ip |-> NoIP]>>
        ELSE [k \in DOMAIN ips |-> [host |-> host, ip |-> ips[k]]]

ExtractDelegation(section, extra) ==
    LET names == NSNames(section)
        records == FlattenSeq([k \in DOMAIN names |-> EntriesOf(extra, names[k])])
    IN  [nsRecords |-> records,
         glue |-> Filter(records, {entry \in ToSet(records) : entry.ip # NoIP})]

IsAnswer(reply) == reply.aa /\ reply.answer # <<>>
IsReferral(reply) == ~IsAnswer(reply) /\ reply.ns # <<>>

\* The referral nameservers that have glue, in their order.
WithGlue(reply) == Filter(NSNames(reply.ns), {g.host : g \in ToSet(reply.extra)})

\* Mutant: the address that is listed first wins, whatever its family.
BugNextByGlue(reply) ==
    IF WithGlue(reply) = <<>> THEN {}
    ELSE {Head(GlueOf(reply.extra, Head(WithGlue(reply))))}

\* The address that the map from names to glue holds for the first referral
\* nameserver that is in it: its last A record, or else its first AAAA record.
NextByGlue(reply) ==
    LET next == Head(WithGlue(reply))
        glue == Filter(reply.extra, {g \in ToSet(reply.extra) : g.host = next})
        v4 == Filter(glue, {g \in ToSet(glue) : g.ip \in V4})
    IN  IF WithGlue(reply) = <<>> THEN {}
        ELSE {IF v4 # <<>> THEN Last(v4).ip ELSE Head(glue).ip}
-----------------------------------------------------------------------------
\* The walk returns; what it kept for itself is gone.
WalkReturns(how) == walk' = how /\ server' = Root /\ hops' = 0

GiveUp == WalkReturns("failed") /\ referral' = NoReply /\ UNCHANGED delegation

\* Mutant: following a referral does not count against the loop's bound.
BugHop(ip) ==
    /\ server' = ip /\ walk' = "ask"
    /\ UNCHANGED <<hops, delegation>>

\* The loop goes on with the next server.
Hop(ip) ==
    /\ IF hops + 1 = WalkHops THEN WalkReturns("failed")
       ELSE walk' = "ask" /\ server' = ip /\ hops' = hops + 1
    /\ UNCHANGED delegation

WalkExchangeFails ==
    /\ walk = "ask"
    /\ GiveUp

\* The server answers with authority, or refers to the zone itself: the
\* delegation is extracted from the answer or from the referral.
WalkDelegates ==
    /\ walk = "ask"
    /\ \E reply \in WalkReplies :
        /\ \/ IsAnswer(reply)
           \/ /\ IsReferral(reply) /\ NSNames(reply.ns) # <<>>
              /\ Head(reply.ns).owner = "zone"
        /\ referral' = reply
        /\ delegation' =
              ExtractDelegation(IF IsAnswer(reply) THEN reply.answer ELSE reply.ns,
                                reply.extra)
    /\ WalkReturns("delegated")

\* No answer and no referral, or a referral without NS records.
WalkUnusable ==
    /\ walk = "ask"
    /\ \E reply \in WalkReplies : ~IsAnswer(reply) /\ NSNames(reply.ns) = <<>>
    /\ GiveUp

\* A referral above the zone.
RefersAbove(reply) ==
    /\ IsReferral(reply) /\ NSNames(reply.ns) # <<>>
    /\ Head(reply.ns).owner = "above"

WalkFollowsGlue ==
    /\ walk = "ask"
    /\ \E reply \in WalkReplies :
        /\ RefersAbove(reply)
        /\ referral' = reply
        /\ \E ip \in NextByGlue(reply) : Hop(ip)

\* Without glue the same server is asked for the address of the first referral
\* nameserver, for A and then for AAAA.
WalkStartsFallback ==
    /\ walk = "ask"
    /\ \E reply \in WalkReplies :
        /\ RefersAbove(reply) /\ NextByGlue(reply) = {}
        /\ referral' = reply
    /\ walk' = "askA"
    /\ UNCHANGED <<server, hops, delegation>>

WalkFallbackFinds ==
    /\ walk \in {"askA", "askAAAA"}
    /\ \E ip \in Addrs : (ip \in V4) = (walk = "askA") /\ Hop(ip)
    /\ UNCHANGED referral

\* The exchange fails or brings no address of its family.
WalkFallbackMisses ==
    /\ \/ /\ walk = "askA" /\ walk' = "askAAAA"
          /\ UNCHANGED <<server, hops, referral, delegation>>
       \/ walk = "askAAAA" /\ GiveUp

WalkNext ==
    \/ WalkExchangeFails \/ WalkDelegates \/ WalkUnusable \/ WalkFollowsGlue
    \/ WalkStartsFallback \/ WalkFallbackFinds \/ WalkFallbackMisses
-----------------------------------------------------------------------------
\* The parent's nameservers are those of the reply that delegated, no more and
\* no fewer: a name without glue stays in with no address, each address of
\* each name comes in for it, and only those are glue; none comes in twice
\* because the parent repeats an address (prober.go:180-239).
DelegationIsTheReply ==
    walk = "delegated" =>
        LET section == IF IsAnswer(referral) THEN referral.answer ELSE referral.ns
            names == ToSet(NSNames(section))
            known == {g \in ToSet(referral.extra) : g.host \in names}
            bare == {[host |-> h, ip |-> NoIP] :
                        h \in {h \in names : \A g \in known : g.host # h}}
        IN  /\ ToSet(delegation.nsRecords) = known \cup bare
            /\ ToSet(delegation.glue) = known
            /\ IsInjective(NSNames(section)) => IsInjective(delegation.nsRecords)

\* A referral with glue is followed to an address of the first nameserver that
\* has any, and over IPv6 only when that one has no IPv4 address in the
\* referral, in whatever order the additional section lists the two: "Prefer A
\* over AAAA" (prober.go:103-107).
PrefersIPv4 ==
    (walk = "ask" /\ hops > 0 /\ WithGlue(referral) # <<>>) =>
        LET next == Head(WithGlue(referral))
        IN  /\ [host |-> next, ip |-> server] \in ToSet(referral.extra)
            /\ server \notin V4 =>
                  \A g \in ToSet(referral.extra) : g.host = next => g.ip \notin V4
=============================================================================
