----------------------------- MODULE ProbeTypes -----------------------------
(***************************************************************************)
(* The data that the steps of a probe cycle pass on: nameservers           *)
(* (prober/prober.go) and probe results (prober/result.go).  Names are     *)
(* compared up to case.                                                    *)
(***************************************************************************)
EXTENDS Integers, FiniteSets, Sequences

CONSTANTS
    Zones,          \* zone names
    Hosts,          \* names of nameservers and MX targets, and MNAMEs
    NoHost,         \* the empty name of a result about the whole zone
    Dot,            \* the name ".", the exchange of a Null MX
    Addrs,          \* IP addresses
    V4,             \* the IPv4 addresses among them
    NoIP            \* the empty address

Checks == {"soa", "recursion", "glue", "ns_classification", "ns_hostname",
           "mx", "email_auth"}

\* prober.Nameserver: without an address when the parent gives no glue.
Nameserver == [host : Hosts, ip : Addrs \cup {NoIP}]

\* A nameserver that can be asked.
Server == [host : Hosts, ip : Addrs]

\* The qualifiers of the terminal all of an SPF record; "none" without one.
Qualifiers == {"pass", "fail", "softfail", "neutral", "none"}

\* A TXT record as email_auth reads it: a version, and terms of a tag with a
\* value, which for all is its qualifier.
TXTTerm == {t \in [tag : STRING, value : STRING] :
                t.tag = "all" => t.value \in Qualifiers \ {"none"}}
TXTRecord == [version : STRING, terms : Seq(TXTTerm)]

Classes == {"parent-only", "self-only", "both"}
Policies == {"none", "quarantine", "reject"}

\* The labels that a result may have of its own.
Labels ==
    {<<>>} \cup [mname : Hosts] \cup [source : {"parent", "self"}]
    \cup [classification : Classes] \cup [target : Hosts]
    \cup [target : Hosts, priority : Nat] \cup [record : Seq(TXTRecord)]
    \cup [qualifier : Qualifiers] \cup [policy : Policies]

\* The metrics that come together in a result.
Metrics ==
    {<<>>}
    \cup [soa_mname : Nat, soa_mname_in_ns_set : Nat, soa_mname_resolves : Nat]
    \cup [ns_recursion_available : Nat]
    \cup [ns_hostname_is_cname : Nat, ns_hostname_syntax_valid : Nat]
    \cup [ns_record : Nat] \cup [ns_glue : Nat] \cup [ns_classification : Nat]
    \cup [ns_classification : Nat, ns_stealth_reachable : Nat]
    \cup [mx_info : Nat] \cup [mx_syntax_valid : Nat]
    \cup [mx_resolves : Nat, mx_is_cname : Nat, mx_syntax_valid : Nat]
    \cup [spf_present : Nat, spf_record_count : Nat, spf_valid : Nat]
    \cup [spf_record : Nat] \cup [spf_terminal_all : Nat]
    \cup [spf_lookup_budget_exceeded : Nat, spf_lookup_eval_complete : Nat]
    \cup [dmarc_present : Nat, dmarc_valid : Nat, dmarc_rua_present : Nat,
          dmarc_ruf_present : Nat]
    \cup [dmarc_policy : Nat] \cup [dmarc_record : Nat] \cup [dmarc_sp_policy : Nat]

\* prober.ProbeResult; labels and metrics are functions from their names.
ProbeResult ==
    [zone : Zones, check : Checks, host : Hosts \cup {NoHost},
     ip : Addrs \cup {NoIP}, ok : BOOLEAN, timedOut : BOOLEAN,
     labels : Labels, metrics : Metrics]

ASSUME TypesAssumption ==
    /\ V4 \subseteq Addrs /\ NoIP \notin Addrs
    /\ NoHost \notin Hosts /\ Dot \in Hosts
=============================================================================
