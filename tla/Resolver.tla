------------------------------ MODULE Resolver ------------------------------
(***************************************************************************)
(* ResolveHostnames (prober/prober.go): the out-of-band resolver that      *)
(* finds the addresses of a nameserver, an MX or a referral target by      *)
(* walking from a root server, once per address family.                    *)
(* resolveOneFamilyWithBudget calls itself for a referral without glue;    *)
(* the recursion is an explicit stack of calls, and one step is one DNS    *)
(* exchange, one recursive call or one return.                             *)
(*                                                                         *)
(* The DNS is outside: each exchange may fail or bring any of Replies. An  *)
(* address is identified by the question that it answered or by the glue   *)
(* that carried it.                                                        *)
(***************************************************************************)
EXTENDS Integers, Sequences

CONSTANTS
    Host,               \* the hostname to resolve
    Targets,            \* names of referral nameservers, Host perhaps among them
    Root,               \* RootServers[0]
    Replies,            \* what a server may reply
    MaxHops,            \* the bound of the loop over depth: 10
    ReferralBudget      \* defaultReferralBudget: 3

Families == {"A", "AAAA"}
Addresses == [owner : Targets \cup {Host}, family : Families \cup {"glue"}]
Servers == Addresses \cup {Root}

\* A reply: whether it answers the question, its rcode, the nameservers of its
\* authority section and the ones among them that have glue.
ReplyType == [answers : BOOLEAN, rcode : {"NOERROR", "SERVFAIL"},
              ns : Seq(Targets), glue : SUBSET Targets]

ASSUME RepliesAssumption == Replies \subseteq ReplyType
ASSUME BoundsAssumption ==
    MaxHops \in Nat \ {0} /\ ReferralBudget \in Nat

VARIABLES
    family,     \* the family that is being resolved, "done" after both
    stack,      \* the calls of resolveOneFamilyWithBudget, innermost last
    outcome,    \* what each family came to
    trouble     \* the families whose own walk met a failure or SERVFAIL (auxiliary)

vars == <<family, stack, outcome, trouble>>

\* A call: its question, its position, its budget, and the referral
\* nameservers that it still has to try out-of-band.
Calls == [name : Targets \cup {Host}, qtype : Families,
          server : Servers, hops : 0..MaxHops, budget : 0..ReferralBudget,
          asking : BOOLEAN, todo : Seq(Targets)]

Call(name, qtype, budget) ==
    [name |-> name, qtype |-> qtype, server |-> Root, hops |-> 0,
     budget |-> budget, asking |-> TRUE, todo |-> <<>>]

\* What a call returns: its addresses, or an error.
Outcomes == [status : {"pending", "ok", "failed"}, ips : Seq(Addresses)]
Found(ip) == [status |-> "ok", ips |-> <<ip>>]
Empty == [status |-> "ok", ips |-> <<>>]
Failed == [status |-> "failed", ips |-> <<>>]

Init ==
    /\ family = "A"
    /\ stack = <<Call(Host, "A", ReferralBudget)>>
    /\ outcome = [f \in Families |-> [status |-> "pending", ips |-> <<>>]]
    /\ trouble = {}

Depth == Len(stack)
Top == stack[Depth]
Popped == SubSeq(stack, 1, Depth - 1)
Running == stack # <<>>

\* Mutant: following a referral does not count against the loop's bound.
BugHop(call, server) ==
    [call EXCEPT !.server = server, !.asking = TRUE, !.todo = <<>>]

\* The next hop of a call.
Hop(call, server) ==
    [call EXCEPT !.server = server, !.hops = @ + 1, !.asking = TRUE, !.todo = <<>>]

\* A call resumes after its recursive call returned.
Resumed(call, result) ==
    IF result.ips # <<>> THEN Hop(call, Head(result.ips))
    ELSE [call EXCEPT !.todo = Tail(@)]

\* Mutant: an address found for a referral nameserver ends the whole walk.
BugReturn(result) ==
    IF Depth = 1 \/ result.ips # <<>>
    THEN /\ stack' = <<>>
         /\ outcome' = [outcome EXCEPT ![family] = result]
    ELSE /\ stack' = [Popped EXCEPT ![Depth - 1] = Resumed(@, result)]
         /\ UNCHANGED outcome

\* Mutant: the failure of an out-of-band lookup fails the walk that needed it.
BugReturnFailure(result) ==
    IF Depth = 1 \/ result = Failed
    THEN /\ stack' = <<>>
         /\ outcome' = [outcome EXCEPT ![family] = result]
    ELSE /\ stack' = [Popped EXCEPT ![Depth - 1] = Resumed(@, result)]
         /\ UNCHANGED outcome

\* The innermost call returns.
Return(result) ==
    IF Depth = 1
    THEN /\ stack' = <<>>
         /\ outcome' = [outcome EXCEPT ![family] = result]
    ELSE /\ stack' = [Popped EXCEPT ![Depth - 1] = Resumed(@, result)]
         /\ UNCHANGED outcome

\* The family's own walk fails to get a proper reply.
Note(bad) == trouble' = IF bad /\ Depth = 1 THEN trouble \cup {family} ELSE trouble

Asking == Running /\ Top.asking /\ Top.hops < MaxHops
-----------------------------------------------------------------------------
\* client.ExchangeContext returns an error.
ExchangeFails ==
    /\ Asking
    /\ Note(TRUE)
    /\ Return(Failed)
    /\ UNCHANGED family

Answered ==
    /\ Asking
    /\ \E r \in Replies : r.answers
    /\ Return(Found([owner |-> Top.name, family |-> Top.qtype]))
    /\ UNCHANGED <<family, trouble>>

\* The first nameserver of the referral that has glue is the next server.
FollowGlue ==
    /\ Asking
    /\ \E r \in Replies : \E k \in DOMAIN r.ns :
        /\ ~r.answers
        /\ r.ns[k] \in r.glue /\ \A j \in 1..(k - 1) : r.ns[j] \notin r.glue
        /\ stack' = [stack EXCEPT ![Depth] =
                        Hop(@, [owner |-> r.ns[k], family |-> "glue"])]
        /\ Note(FALSE)
    /\ UNCHANGED <<family, outcome>>

\* A reply with neither an answer nor glue that can be used.
Glueless(r) == ~r.answers /\ \A k \in DOMAIN r.ns : r.ns[k] \notin r.glue

\* Mutant: the fallback is started with an exhausted budget too.
BugStartFallback ==
    /\ Asking
    /\ \E r \in Replies :
        /\ Glueless(r) /\ r.ns # <<>>
        /\ stack' = [stack EXCEPT ![Depth].asking = FALSE, ![Depth].todo = r.ns]
        /\ Note(r.rcode = "SERVFAIL")
    /\ UNCHANGED <<family, outcome>>

StartFallback ==
    /\ Asking
    /\ Top.budget > 0
    /\ \E r \in Replies :
        /\ Glueless(r) /\ r.ns # <<>>
        /\ stack' = [stack EXCEPT ![Depth].asking = FALSE, ![Depth].todo = r.ns]
        /\ Note(r.rcode = "SERVFAIL")
    /\ UNCHANGED <<family, outcome>>

\* No referral, or no budget to resolve it: taken for NODATA, whatever the
\* rcode of the reply.
NoReferral ==
    /\ Asking
    /\ \E r \in Replies :
        /\ Glueless(r) /\ (r.ns = <<>> \/ Top.budget = 0)
        /\ Note(r.rcode = "SERVFAIL")
    /\ Return(Empty)
    /\ UNCHANGED family

\* Mutant: the recursive call keeps the budget of its caller.
BugRecurse ==
    /\ Running /\ ~Top.asking /\ Top.todo # <<>>
    /\ stack' = Append(stack, Call(Head(Top.todo), "A", Top.budget))
    /\ UNCHANGED <<family, outcome, trouble>>

\* The next referral nameserver is resolved out-of-band.
Recurse ==
    /\ Running /\ ~Top.asking /\ Top.todo # <<>>
    /\ stack' = Append(stack, Call(Head(Top.todo), "A", Top.budget - 1))
    /\ UNCHANGED <<family, outcome, trouble>>

FallbackExhausted ==
    /\ Running /\ ~Top.asking /\ Top.todo = <<>>
    /\ Return(Empty)
    /\ UNCHANGED <<family, trouble>>

TooManyHops ==
    /\ Running /\ Top.asking /\ Top.hops = MaxHops
    /\ Note(TRUE)
    /\ Return(Failed)
    /\ UNCHANGED family

\* ResolveHostnames goes on to the second family, or returns.
NextFamily ==
    /\ ~Running /\ family # "done"
    /\ IF family = "A"
       THEN family' = "AAAA" /\ stack' = <<Call(Host, "AAAA", ReferralBudget)>>
       ELSE family' = "done" /\ UNCHANGED stack
    /\ UNCHANGED <<outcome, trouble>>

Next ==
    \/ ExchangeFails \/ Answered \/ FollowGlue \/ StartFallback \/ NoReferral
    \/ Recurse \/ FallbackExhausted \/ TooManyHops \/ NextFamily

Spec == Init /\ [][Next]_vars

\* Every exchange has a timeout and every step is taken by one goroutine.
FairSpec == Spec /\ WF_vars(Next)

Returned == family = "done"
BothFailed == \A f \in Families : outcome[f].status = "failed"
Resolved == outcome["A"].ips \o outcome["AAAA"].ips
-----------------------------------------------------------------------------
TypeOK ==
    /\ family \in Families \cup {"done"}
    /\ stack \in Seq(Calls)
    /\ outcome \in [Families -> Outcomes]
    /\ trouble \subseteq Families

\* Whatever referrals the servers return, to the hostname itself too, the
\* recursion is no deeper than the budget, which shrinks by one with each level
\* (prober.go:284-291); the outermost call asks for the hostname, in the family
\* that is being resolved.
NestingIsBudgeted ==
    /\ Depth <= ReferralBudget + 1
    /\ \A k \in DOMAIN stack : stack[k].budget = ReferralBudget + 1 - k
    /\ Running => stack[1].name = Host /\ stack[1].qtype = family

\* The addresses of a referral nameserver, found on the way, never come out as
\* the addresses of the hostname, nor those of one family for the other.
OnlyHostAddresses ==
    \A f \in Families : \A k \in DOMAIN outcome[f].ips :
        outcome[f].ips[k] = [owner |-> Host, family |-> f]

\* A family fails only because its own walk got no reply: what happens to an
\* out-of-band lookup of a referral nameserver is contained
\* (prober.go:400-402), so it alone never makes ResolveHostnames an error.
FailuresAreContained == \A f \in Families : outcome[f].status = "failed" => f \in trouble

\* "recursion ... to guarantee termination" (prober.go:316): a pathological
\* topology ends the walk of both families.
Terminates == <>Returned

\* "Empty slice + nil error: hostname has neither A nor AAAA records"
\* (prober.go:248-250), and only a family that met no protocol failure
\* ("timeout, SERVFAIL, network error") can tell.
EmptyMeansNoRecords == (Returned /\ Resolved = <<>> /\ ~BothFailed) => trouble = {}
=============================================================================
