---------------------------- MODULE Nameservers ----------------------------
(***************************************************************************)
(* How probeZone (cycle/runner.go) finds the nameservers of a zone: the    *)
(* glue of the parent first, then, for each name whose glue lacks a family *)
(* of addresses, what the out-of-band resolver finds.                      *)
(*                                                                         *)
(* ResolveHostnames is a call whose outcome is open (Resolver models it):  *)
(* an error, or any addresses of the name, A before AAAA.                  *)
(***************************************************************************)
EXTENDS DelegationWalk

CONSTANT Lookups    \* Lookups[h]: the addresses ResolveHostnames may return for h

ASSUME LookupsAssumption == Lookups \in [Hosts -> SUBSET Seq(Addrs)]

VARIABLES
    discovery,      \* "idle", "glue", "augment", "done"
    nameservers,    \* the nameservers of the zone, in the order they are found
    position,       \* the entries of NSRecords seen by buildInitialNameservers
    unresolved,     \* the names still to be resolved out-of-band
    resolved,       \* what ResolveHostnames returned and is still to be taken
    sought, found   \* the names resolved, the addresses returned (auxiliary)

discoveryVars ==
    <<discovery, nameservers, position, unresolved, resolved, sought, found>>

DiscoveryIdle ==
    /\ discovery = "idle" /\ nameservers = <<>> /\ position = 0
    /\ unresolved = {} /\ resolved = <<>> /\ sought = {} /\ found = {}

\* The parent gives an address of that family for the name.
Covers(host, v4) ==
    \E k \in DOMAIN delegation.nsRecords :
        LET entry == delegation.nsRecords[k]
        IN  entry.host = host /\ entry.ip # NoIP /\ (entry.ip \in V4) = v4

\* Mutant: a name with any glue at all needs no resolution.
BugHostsNeedingAugmentation ==
    {e.host : e \in {e \in ToSet(delegation.nsRecords) :
                        ~Covers(e.host, TRUE) /\ ~Covers(e.host, FALSE)}}

HostsNeedingAugmentation ==
    {e.host : e \in {e \in ToSet(delegation.nsRecords) :
                        ~Covers(e.host, TRUE) \/ ~Covers(e.host, FALSE)}}

\* Mutant: an address that comes twice is probed twice.
BugIncluding(entry) == Append(nameservers, entry)

\* The nameservers with an entry, once.
Including(entry) ==
    IF \E k \in DOMAIN nameservers : nameservers[k] = entry
    THEN nameservers ELSE Append(nameservers, entry)

BeginDiscovery ==
    /\ discovery = "idle"
    /\ discovery' = "glue"
    /\ UNCHANGED <<nameservers, position, unresolved, resolved, sought, found>>

\* Mutant: an entry without an address is taken for a nameserver.
BugTakeGlue ==
    /\ discovery = "glue" /\ position < Len(delegation.nsRecords)
    /\ position' = position + 1
    /\ nameservers' = Including(delegation.nsRecords[position + 1])
    /\ UNCHANGED <<discovery, unresolved, resolved, sought, found>>

\* buildInitialNameservers: an entry without an address is passed over.
TakeGlue ==
    /\ discovery = "glue" /\ position < Len(delegation.nsRecords)
    /\ position' = position + 1
    /\ LET entry == delegation.nsRecords[position + 1]
       IN  nameservers' = IF entry.ip = NoIP THEN nameservers ELSE Including(entry)
    /\ UNCHANGED <<discovery, unresolved, resolved, sought, found>>

BeginAugmentation ==
    /\ discovery = "glue" /\ position = Len(delegation.nsRecords)
    /\ discovery' = "augment"
    /\ unresolved' = HostsNeedingAugmentation
    /\ UNCHANGED <<nameservers, position, resolved, sought, found>>

\* Mutant: the first name that cannot be resolved ends the discovery.
BugResolutionFails(h) ==
    /\ discovery = "augment" /\ resolved = <<>> /\ h \in unresolved
    /\ unresolved' = {}
    /\ sought' = sought \cup {h}
    /\ UNCHANGED <<discovery, nameservers, position, resolved, found>>

\* ResolveHostnames returns an error: the name is skipped.  (The names come in
\* the order of a Go map.)
ResolutionFails(h) ==
    /\ discovery = "augment" /\ resolved = <<>> /\ h \in unresolved
    /\ unresolved' = unresolved \ {h}
    /\ sought' = sought \cup {h}
    /\ UNCHANGED <<discovery, nameservers, position, resolved, found>>

Resolves(h) ==
    /\ discovery = "augment" /\ resolved = <<>> /\ h \in unresolved
    /\ unresolved' = unresolved \ {h}
    /\ sought' = sought \cup {h}
    /\ \E ips \in Lookups[h] :
        resolved' = [k \in 1..Len(ips) |-> [host |-> h, ip |-> ips[k]]]
    /\ found' = found \cup ToSet(resolved')
    /\ UNCHANGED <<discovery, nameservers, position>>

TakeResolved ==
    /\ discovery = "augment" /\ resolved # <<>>
    /\ nameservers' = Including(Head(resolved))
    /\ resolved' = Tail(resolved)
    /\ UNCHANGED <<discovery, position, unresolved, sought, found>>

EndDiscovery ==
    /\ discovery = "augment" /\ resolved = <<>> /\ unresolved = {}
    /\ discovery' = "done"
    /\ UNCHANGED <<nameservers, position, unresolved, resolved, sought, found>>

\* The steps that need no answer from outside.
DiscoveryStep ==
    \/ BeginDiscovery \/ TakeGlue \/ BeginAugmentation \/ TakeResolved
    \/ EndDiscovery \/ \E h \in Hosts : ResolutionFails(h)

DiscoveryNext == DiscoveryStep \/ \E h \in Hosts : Resolves(h)

\* The discovery on its own, from any delegation of a set.
DiscoverySpec(delegations) ==
    /\ DiscoveryIdle /\ delegation \in delegations
    /\ [][DiscoveryNext /\ UNCHANGED walkVars]_<<discoveryVars, walkVars>>
-----------------------------------------------------------------------------
\* Each nameserver is probed once at each of its addresses, however often the
\* parent and the resolver name it: a duplicate would count twice in every
\* per-server metric (prober.go:194-197, runner.go:489-495).
NameserversAreDistinct ==
    \A j, k \in DOMAIN nameservers : nameservers[j] = nameservers[k] => j = k

\* What the checks get is exactly what the parent and the resolver said,
\* whichever lookups failed, and a family that is missing for a name of the
\* delegation has been looked for (spec 006, runner.go:470-478).
NoAddressIsLost ==
    discovery = "done" =>
        /\ ToSet(nameservers) = ToSet(delegation.glue) \cup found
        /\ \A e \in ToSet(delegation.nsRecords) : \A v4 \in BOOLEAN :
              \/ e.host \in sought
              \/ \E ns \in ToSet(nameservers) : ns.host = e.host /\ (ns.ip \in V4) = v4
=============================================================================
