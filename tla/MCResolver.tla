----------------------------- MODULE MCResolver -----------------------------
(* Every kind of reply that the resolver tells apart, with referrals to one  *)
(* nameserver and to the hostname that is being resolved.                    *)
EXTENDS Resolver

CONSTANTS n1

Reply(ns, glue) == [answers |-> FALSE, rcode |-> "NOERROR", ns |-> ns, glue |-> glue]
NoRecords == Reply(<<>>, {})

SomeReplies == {
    [NoRecords EXCEPT !.answers = TRUE],
    NoRecords,
    [NoRecords EXCEPT !.rcode = "SERVFAIL"],
    Reply(<<n1>>, {n1}),
    Reply(<<n1, Host>>, {Host}),
    Reply(<<n1, Host>>, {}) }
=============================================================================
