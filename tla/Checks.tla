------------------------------- MODULE Checks -------------------------------
(***************************************************************************)
(* What the checks of a zone share (package prober): the loop of probeZone *)
(* that runs them, ExchangeWithRetry, the deadline of the zone and the     *)
(* form of a result.                                                       *)
(*                                                                         *)
(* A check is a sequence of exchanges; between two of them it looks at the *)
(* reply and appends results.  Each exchange may be answered with anything *)
(* in Answers, time out or fail in another way, and the deadline may pass  *)
(* at any moment.                                                          *)
(***************************************************************************)
EXTENDS Nameservers

CONSTANTS
    Zone,           \* the zone of this goroutine
    Nil,            \* no value
    ValidNames,     \* the names that isValidNSHostname accepts
    Answers,        \* Answers[t]: the replies to a question of type t
    ProberSets      \* the sets of checks a behaviour may show

QueryTypes == {"SOA", "NS", "A", "AAAA", "MX", "TXT", "CNAME"}

\* What a check reads of the records of each type.
Records == [
    SOA  |-> Hosts,     \* the MNAME
    NS   |-> Hosts,
    A    |-> V4,
    AAAA |-> Addrs \ V4,
    MX   |-> [target : Hosts, preference : Nat],
    TXT  |-> TXTRecord,
    CNAME |-> {"CNAME", "referral"} ]   \* a CNAME; a referral with glue

Replies(type) == [status : {"ok"}, rcode : STRING, aa : BOOLEAN, ra : BOOLEAN,
                  rrs : Seq(Records[type])]

\* An error in the place of a reply.
Silence(kind) == [status |-> kind, rcode |-> "NOERROR", aa |-> FALSE,
                  ra |-> FALSE, rrs |-> <<>>]

ASSUME ChecksAssumption ==
    /\ Zone \in Zones /\ ProberSets \subseteq SUBSET Checks /\ Nil \notin Checks
    /\ DOMAIN Answers = QueryTypes
    /\ \A type \in QueryTypes : Answers[type] \subseteq Replies(type) \ {Nil}
    /\ \A kind \in {"timeout", "error"} : Silence(kind) # Nil

VARIABLES
    probers,        \* the registered checks (those that the behaviour shows)
    ran,            \* the checks that have been started
    check,          \* the check that runs, Nil between two
    at,             \* the nameserver whose turn it is
    query,          \* the question that is out, or Nil
    firstErr,       \* how the first try of the exchange failed, or Nil
    reply,          \* what ExchangeWithRetry returned, or Nil
    local,          \* the local variables of the check
    results,        \* the ProbeResults so far
    expired,        \* the deadline of the zone has passed
    log,            \* the exchanges that were answered (auxiliary)
    silent          \* the addresses that let an exchange time out (auxiliary)

checkVars ==
    <<probers, ran, check, at, query, firstErr, reply, local, results, expired,
      log, silent>>

\* The local variables of the checks, as they are when one starts.
Locals == [
    cache  |-> [h \in Hosts |-> "unknown"],     \* per-name lookups
    stage  |-> "servers",                       \* which of its loops a check is in
    todo   |-> <<>>,                            \* exchanges that are to follow
    left   |-> <<>>,                            \* names or records still to be handled
    own    |-> <<>>,                            \* addresses a nameserver reports
    hop    |-> 0,                               \* referrals followed by a lookup
    emitted |-> {},                             \* what has a result already
    self   |-> {} ]                             \* names the nameservers report

ChecksIdle ==
    /\ probers \in ProberSets /\ ran = {}
    /\ check = Nil /\ at = 1 /\ query = Nil /\ firstErr = Nil /\ reply = Nil
    /\ local = Locals /\ results = <<>> /\ expired = FALSE
    /\ log = {} /\ silent = {}

\* A ProbeResult, with no labels and no metrics of its own.
Result(host, ip, ok, timedOut) ==
    [zone |-> Zone, check |-> check, host |-> host, ip |-> ip, ok |-> ok,
     timedOut |-> timedOut, labels |-> <<>>, metrics |-> <<>>]

\* The result of an exchange that failed.
FailedResult(ns) == Result(ns.host, ns.ip, FALSE, reply.status = "timeout")

QueryType ==
    CASE check \in {"soa", "recursion"} -> "SOA"
      [] check \in {"glue", "ns_classification"} -> "NS"
      [] check = "mx" -> "MX"
      [] check = "email_auth" -> "TXT"

Current == nameservers[at]
Question(type, name, ns) ==
    [check |-> check, type |-> type, name |-> name, ns |-> ns]

\* The name that a check asks each nameserver for: the zone, or _dmarc.<zone>.
Name == IF local.stage = "dmarc" THEN "_dmarc" ELSE "zone"

\* The same address was asked before: ns_classification asks each once.
AskedBefore ==
    check = "ns_classification" /\ \E k \in 1..(at - 1) : nameservers[k].ip = Current.ip
-----------------------------------------------------------------------------
\* The deadline of the zone passes.
Expire ==
    /\ ~expired
    /\ expired' = TRUE
    /\ UNCHANGED <<probers, ran, check, at, query, firstErr, reply, local,
                   results, log, silent>>

\* What the exchange returns to the check.
Returns(r) ==
    /\ reply' = r
    /\ firstErr' = Nil
    /\ log' = IF r.status = "ok" THEN log \cup {[query |-> query, reply |-> r]} ELSE log
    /\ silent' = IF r.status = "timeout" THEN silent \cup {query.ns.ip} ELSE silent
    /\ UNCHANGED <<probers, ran, check, at, query, local, results, expired>>

\* The exchange goes on with another try.
TriesAgain(kind) ==
    /\ firstErr' = kind
    /\ UNCHANGED <<probers, ran, check, at, query, reply, local, results,
                   expired, log, silent>>

\* The first try or the retry is answered; with the deadline gone none is.
Exchanged ==
    /\ query # Nil /\ reply = Nil /\ ~expired
    /\ \E r \in Answers[query.type] : Returns(r)

\* The first try fails; with the deadline gone that is the end of it.
FirstTryFails ==
    /\ query # Nil /\ reply = Nil /\ firstErr = Nil /\ query.type # "CNAME"
    /\ \E kind \in {"timeout", "error"} :
        IF expired THEN Returns(Silence(kind)) ELSE TriesAgain(kind)

\* Mutant: a retry that fails is followed by another one.
BugRetryFails ==
    /\ query # Nil /\ reply = Nil /\ firstErr # Nil
    /\ TriesAgain(firstErr)

\* The retry fails too: the error of the first try is returned.
RetryFails ==
    /\ query # Nil /\ reply = Nil /\ firstErr # Nil
    /\ Returns(Silence(firstErr))

ExchangeWithRetry == Exchanged \/ FirstTryFails \/ RetryFails

\* An exchange of lookupCNAME, which does not retry.
OnlyTryFails ==
    /\ query # Nil /\ reply = Nil /\ query.type = "CNAME"
    /\ \E kind \in {"timeout", "error"} : Returns(Silence(kind))

Sends(question) ==
    /\ query' = question
    /\ UNCHANGED <<probers, ran, check, at, firstErr, reply, local, results,
                   expired, log, silent>>

\* The check asks the nameserver whose turn it is.
AskServer ==
    /\ check \in Checks \ {"ns_hostname"} /\ local.stage \in {"servers", "dmarc"}
    /\ at <= Len(nameservers) /\ query = Nil /\ ~AskedBefore
    /\ Sends(Question(QueryType, Name, Current))

\* A check that has several more questions asks the next one.
AskNext ==
    /\ local.stage \in {"addresses", "stealth", "cname"} /\ query = Nil /\ local.todo # <<>>
    /\ Sends(Head(local.todo))

\* A reply is there for the check to look at.
Replied(c, type) == check = c /\ reply # Nil /\ query.type = type

Answered == reply.status = "ok"

\* The check is done with the reply: what it appends and where it goes on.
Handled(new, next, locals) ==
    /\ results' = results \o new
    /\ at' = next
    /\ local' = locals
    /\ query' = Nil /\ reply' = Nil
    /\ UNCHANGED <<probers, ran, check, firstErr, expired, log, silent>>

\* Whether ResolveHostnames finds a name: what the check's cache says, or
\* anything, or no once the deadline has passed.
Verdicts(h) ==
    IF local.cache[h] # "unknown" THEN {local.cache[h]}
    ELSE IF expired THEN {"no"} ELSE {"yes", "no"}

OneIf(b) == IF b THEN 1 ELSE 0
=============================================================================
