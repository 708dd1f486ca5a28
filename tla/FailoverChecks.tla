--------------------------- MODULE FailoverChecks ---------------------------
(***************************************************************************)
(* The checks that ask the nameservers in turn until one answers: mx and   *)
(* email_auth.  Their data belong to the zone, not to a nameserver.        *)
(***************************************************************************)
EXTENDS Checks

-----------------------------------------------------------------------------
(* mx                                                                      *)

MXResult(labels, metrics) ==
    [Result(NoHost, NoIP, TRUE, FALSE) EXCEPT !.labels = labels, !.metrics = metrics]

\* Mutant: the first nameserver that fails settles the check.
BugMXFails ==
    /\ Replied("mx", "MX") /\ ~Answered
    /\ Handled(<<[FailedResult(Current) EXCEPT !.host = NoHost]>>,
               Len(nameservers) + 1, local)

\* The next nameserver is asked; after the last the failure is reported.
MXFails ==
    /\ Replied("mx", "MX") /\ ~Answered
    /\ Handled(IF at < Len(nameservers) THEN <<>>
               ELSE <<[FailedResult(Current) EXCEPT !.host = NoHost]>>,
               at + 1, local)

\* A reply of any rcode settles the check.
MXAnswer ==
    /\ Replied("mx", "MX") /\ Answered
    /\ Handled(<<Result(NoHost, Current.ip, TRUE, FALSE)>>, Len(nameservers) + 1,
               [local EXCEPT !.stage = "targets", !.left = reply.rrs])

\* Mutant: a target gets its validity once for each of its records.
BugMXTarget ==
    /\ check = "mx" /\ local.left # <<>>
    /\ LET mx == Head(local.left)
           target == [target |-> mx.target]
           info == MXResult([target |-> mx.target, priority |-> mx.preference],
                            [mx_info |-> 1])
           lookups == IF expired THEN {0} ELSE {0, 1}
           next(new) == Handled(new, at, [local EXCEPT !.left = Tail(@),
                                             !.emitted = @ \cup {mx.target}])
       IN  \E resolves, cname \in lookups :
              next(<<info, MXResult(target,
                     [mx_resolves |-> resolves, mx_is_cname |-> cname,
                      mx_syntax_valid |-> OneIf(mx.target \in ValidNames)])>>)

\* Each record has its info; each target, the first time that it comes, its
\* validity: "." is valid and not looked up.
MXTarget ==
    /\ check = "mx" /\ local.left # <<>>
    /\ LET mx == Head(local.left)
           target == [target |-> mx.target]
           info == MXResult([target |-> mx.target, priority |-> mx.preference],
                            [mx_info |-> 1])
           lookups == IF expired THEN {0} ELSE {0, 1}
           next(new) == Handled(new, at, [local EXCEPT !.left = Tail(@),
                                             !.emitted = @ \cup {mx.target}])
       IN  IF mx.target \in local.emitted THEN next(<<info>>)
           ELSE IF mx.target = Dot
           THEN next(<<info, MXResult(target, [mx_syntax_valid |-> 1])>>)
           ELSE \E resolves, cname \in lookups :
                  next(<<info, MXResult(target,
                     [mx_resolves |-> resolves, mx_is_cname |-> cname,
                      mx_syntax_valid |-> OneIf(mx.target \in ValidNames)])>>)
-----------------------------------------------------------------------------
(* email_auth.  A TXT record has a version and a sequence of terms, each a   *)
(* tag with a value: "all" with its qualifier, "include" or "redirect" with *)
(* its target, "qualifier" without a body; or the tags of DMARC.            *)

EmailResult(labels, metrics) == MXResult(labels, metrics)

Versions(rrs, version) == Filter(rrs, {txt \in ToSet(rrs) : txt.version = version})
Values(txt, tag) == Filter(txt.terms, {t \in ToSet(txt.terms) : t.tag = tag})

\* spfMalformed: a bare qualifier, or an include or redirect without a target.
Malformed(txt) ==
    \E t \in ToSet(txt.terms) :
        \/ t.tag = "qualifier"
        \/ t.tag \in {"include", "redirect"} /\ t.value = ""

\* terminalAllQualifier: the last "all" wins.
TerminalAll(txt) ==
    LET all == Values(txt, "all") IN IF all = <<>> THEN "none" ELSE Last(all).value

\* What countSPFLookups may say of a record: over budget or not, complete or not.
LookupCounts == [spf_lookup_budget_exceeded : {0, 1}, spf_lookup_eval_complete : {0, 1}]

SPFResults(rrs, lookups) ==
    LET spf == Versions(rrs, "spf1")
        single == Len(spf) = 1
        valid == single /\ ~Malformed(spf[1])
        base == EmailResult(<<>>, [spf_present |-> OneIf(spf # <<>>),
                   spf_record_count |-> Len(spf), spf_valid |-> OneIf(valid)])
    IN  <<base>>
        \o (IF spf = <<>> THEN <<>>
            ELSE <<EmailResult([record |-> spf], [spf_record |-> 1])>>)
        \o (IF single THEN <<EmailResult([qualifier |-> TerminalAll(spf[1])],
                                         [spf_terminal_all |-> 1])>> ELSE <<>>)
        \o (IF valid THEN <<EmailResult(<<>>, lookups)>> ELSE <<>>)

\* parseDMARCTags: the first of equal tags wins; a policy counts when known.
Policy(txt, tag) ==
    LET values == Values(txt, tag)
    IN  IF values # <<>> /\ Head(values).value \in Policies
        THEN <<Head(values).value>> ELSE <<>>

DMARCResults(rrs) ==
    LET records == Versions(rrs, "dmarc1")
        txt == Head(records)
        present == records # <<>>
        p == IF present THEN Policy(txt, "p") ELSE <<>>
        sp == IF present THEN Policy(txt, "sp") ELSE <<>>
        has(tag) == OneIf(present /\ Values(txt, tag) # <<>>)
    IN  <<EmailResult(<<>>, [dmarc_present |-> OneIf(present),
             dmarc_valid |-> OneIf(p # <<>>),
             dmarc_rua_present |-> has("rua"), dmarc_ruf_present |-> has("ruf")])>>
        \o [k \in DOMAIN p |-> EmailResult([policy |-> p[k]], [dmarc_policy |-> 1])]
        \o (IF present THEN <<EmailResult([record |-> <<txt>>], [dmarc_record |-> 1])>>
            ELSE <<>>)
        \o [k \in DOMAIN sp |-> EmailResult([policy |-> sp[k]], [dmarc_sp_policy |-> 1])]

\* Mutant: any reply counts as an answer, as it does for mx.
BugAuthoritative == Answered

\* fetchTXTRecords accepts a reply that says what is there, or that nothing is.
Authoritative == Answered /\ reply.rcode \in {"NOERROR", "NXDOMAIN"}

TXTFails ==
    /\ Replied("email_auth", "TXT") /\ ~Authoritative
    /\ Handled(<<>>, at + 1, local)

SPFRecords ==
    /\ Replied("email_auth", "TXT") /\ Authoritative /\ local.stage = "servers"
    /\ \E lookups \in LookupCounts :
        Handled(SPFResults(reply.rrs, lookups), 1, [local EXCEPT !.stage = "dmarc"])

\* No nameserver gives the SPF record: the check goes on to DMARC.
NoSPF ==
    /\ check = "email_auth" /\ local.stage = "servers" /\ at > Len(nameservers)
    /\ Handled(<<>>, 1, [local EXCEPT !.stage = "dmarc"])

DMARCRecords ==
    /\ Replied("email_auth", "TXT") /\ Authoritative /\ local.stage = "dmarc"
    /\ Handled(DMARCResults(reply.rrs), Len(nameservers) + 1, local)

FailoverCheckStep ==
    \/ MXFails \/ MXAnswer \/ MXTarget
    \/ TXTFails \/ SPFRecords \/ NoSPF \/ DMARCRecords
=============================================================================
