--------------------------- MODULE ResolverProofs ---------------------------
(***************************************************************************)
(* What ResolveHostnames returns, and how deep it recurses, for every set  *)
(* of replies, every budget and every bound on the hops.                   *)
(*                                                                         *)
(* The properties hold because of where each call stands in the stack: the *)
(* outermost one asks for the hostname and the current family, the others  *)
(* for a referral nameserver, and each call below the innermost waits in   *)
(* its fallback with budget left.  IInv says this of every call.           *)
(***************************************************************************)
EXTENDS Resolver, SequenceTheorems, TLAPS

\* Call number k of the stack.
Fits(call, k) ==
    /\ call \in Calls
    /\ call.budget = ReferralBudget + 1 - k
    /\ k = 1 => call.name = Host /\ call.qtype = family
    /\ ~call.asking => call.budget > 0 /\ call.hops < MaxHops

Waiting(call) == ~call.asking /\ call.todo # <<>>

StackFits ==
    /\ \A k \in 1..Depth : Fits(stack[k], k)
    /\ \A k \in 1..(Depth - 1) : Waiting(stack[k])

IInv == TypeOK /\ StackFits /\ OnlyHostAddresses /\ FailuresAreContained
-----------------------------------------------------------------------------
(* The stack of calls.                                                     *)

LEMMA TopFits ==
    ASSUME IInv, Running
    PROVE  Depth \in Nat \ {0} /\ Fits(Top, Depth)
<1>1. stack \in Seq(Calls) /\ stack # <<>>
  BY DEF IInv, TypeOK, Running
<1>2. Depth \in Nat \ {0}
  BY <1>1, EmptySeq DEF Depth
<1> QED
  BY <1>1, <1>2 DEF IInv, StackFits, Top

\* The calls below the innermost one.
LEMMA PoppedCalls ==
    ASSUME IInv, Running
    PROVE  /\ Popped \in Seq(Calls) /\ Len(Popped) = Depth - 1
           /\ \A k \in 1..(Depth - 1) : Popped[k] = stack[k]
<1>1. stack \in Seq(Calls) /\ Depth \in Nat \ {0} /\ Depth = Len(stack)
  BY TopFits DEF IInv, TypeOK, Depth
<1>2. SubSeq(stack, 1, Depth - 1) \in Seq(Calls)
  BY <1>1
<1>3. Len(SubSeq(stack, 1, Depth - 1)) = Depth - 1
  BY <1>1
<1>4. \A k \in 1..(Depth - 1) : SubSeq(stack, 1, Depth - 1)[k] = stack[k]
  BY <1>1
<1> QED
  BY <1>2, <1>3, <1>4 DEF Popped

\* A new or changed innermost call keeps the stack in order.
LEMMA TopReplaced ==
    ASSUME IInv, Running, NEW call, Fits(call, Depth), family' = family,
           stack' = [stack EXCEPT ![Depth] = call]
    PROVE  stack' \in Seq(Calls) /\ StackFits'
<1>1. /\ stack \in Seq(Calls) /\ Depth \in Nat \ {0} /\ Depth = Len(stack)
      /\ call \in Calls
  BY TopFits DEF IInv, TypeOK, Depth, Fits
<1>2. stack' \in Seq(Calls) /\ Len(stack') = Len(stack)
  BY <1>1, ExceptSeq
<1>3. \A k \in 1..Depth : stack'[k] = IF k = Depth THEN call ELSE stack[k]
  BY <1>1
<1>4. Depth' = Depth
  BY <1>2 DEF Depth
<1>5. \A k \in 1..Depth : Fits(stack'[k], k)
  BY <1>3 DEF IInv, StackFits
<1>6. \A k \in 1..(Depth - 1) : Waiting(stack'[k])
  BY <1>1, <1>3 DEF IInv, StackFits
<1> QED
  BY <1>2, <1>4, <1>5, <1>6 DEF StackFits, Fits, Waiting
-----------------------------------------------------------------------------
(* The inductive invariant.                                                *)

\* The call that starts the resolution of a family.
LEMMA FirstCall ==
    ASSUME NEW f \in Families
    PROVE  /\ Call(Host, f, ReferralBudget) \in Calls
           /\ <<Call(Host, f, ReferralBudget)>> \in Seq(Calls)
<1>1. <<>> \in Seq(Targets) /\ 0 \in 0..MaxHops /\ ReferralBudget \in 0..ReferralBudget
  BY BoundsAssumption
<1>2. Call(Host, f, ReferralBudget) \in Calls
  BY <1>1 DEF Call, Calls, Servers
<1> QED
  BY <1>2

LEMMA InitIInv == Init => IInv
<1> SUFFICES ASSUME Init PROVE IInv
  OBVIOUS
<1>1. "A" \in Families
  BY DEF Families
<1>2. stack = <<Call(Host, "A", ReferralBudget)>> /\ Depth = 1
  BY DEF Init, Depth
<1>3. TypeOK
  BY <1>1, <1>2, FirstCall DEF Init, TypeOK, Outcomes
<1>4. Fits(stack[1], 1)
  <2>1. stack[1] = Call(Host, "A", ReferralBudget) /\ family = "A"
    BY <1>2 DEF Init
  <2>2. Fits(Call(Host, "A", ReferralBudget), 1)
    <3> DEFINE c == Call(Host, "A", ReferralBudget)
    <3>1. c \in Calls
      BY <1>1, FirstCall
    <3>2. c.budget = ReferralBudget /\ c.name = Host /\ c.qtype = "A" /\ c.asking
      BY DEF Call
    <3> HIDE DEF c
    <3>3. Fits(c, 1)
      BY <2>1, <3>1, <3>2, BoundsAssumption DEF Fits
    <3> QED
      BY <3>3 DEF c
  <2> QED
    BY <2>1, <2>2
<1>5. StackFits
  BY <1>2, <1>4 DEF StackFits
<1>6. \A f \in Families : outcome[f].ips = <<>> /\ outcome[f].status = "pending"
  BY DEF Init
<1>7. OnlyHostAddresses /\ FailuresAreContained
  <2>1. \A f \in Families : DOMAIN outcome[f].ips = {}
    BY <1>6
  <2> QED
    BY <1>6, <2>1 DEF OnlyHostAddresses, FailuresAreContained
<1> QED
  BY <1>3, <1>5, <1>7 DEF IInv

\* What a returning call hands on: its addresses answer its own question, and
\* an error of the outermost call is the family's own.
Returns(result) ==
    /\ result \in Outcomes
    /\ \A k \in DOMAIN result.ips :
          result.ips[k] = [owner |-> Top.name, family |-> Top.qtype]
    /\ result.status = "failed" /\ Depth = 1 => family \in trouble'

LEMMA ReturnIInv ==
    ASSUME IInv, Running, NEW result, Returns(result), Return(result),
           family' = family, trouble \subseteq trouble', trouble' \subseteq Families
    PROVE  IInv'
<1>1. Depth \in Nat \ {0} /\ Fits(Top, Depth)
  BY TopFits
<1>2. CASE Depth = 1
  <2>1. stack' = <<>> /\ outcome' = [outcome EXCEPT ![family] = result]
    BY <1>2 DEF Return
  <2>2. Top.name = Host /\ Top.qtype = family /\ family \in Families
    BY <1>1, <1>2 DEF Fits, Calls
  <2>3. TypeOK'
    BY <2>1, <2>2 DEF IInv, TypeOK, Returns
  <2>4. StackFits'
    BY <2>1 DEF StackFits, Depth
  <2>5. /\ outcome'[family] = result
        /\ \A f \in Families \ {family} : outcome'[f] = outcome[f]
    BY <2>1, <2>2 DEF IInv, TypeOK
  <2>6. OnlyHostAddresses'
    BY <2>2, <2>5 DEF IInv, OnlyHostAddresses, Returns
  <2>7. FailuresAreContained'
    BY <1>2, <2>5 DEF IInv, FailuresAreContained, Returns
  <2> QED
    BY <2>3, <2>4, <2>6, <2>7 DEF IInv
<1>3. CASE Depth # 1
  <2> DEFINE d == Depth - 1
             new == Resumed(stack[d], result)
  <2>1. d \in Nat \ {0} /\ Fits(stack[d], d) /\ Waiting(stack[d])
    BY <1>1, <1>3 DEF IInv, StackFits
  <2>2. Fits(new, d)
    <3>1. stack[d] \in Calls /\ result \in Outcomes
      BY <2>1 DEF Fits, Returns
    <3>2. CASE result.ips # <<>>
      <4>1. Head(result.ips) \in Servers
        BY <3>1, <3>2 DEF Outcomes, Servers
      <4>2. stack[d].hops + 1 \in 0..MaxHops
        BY <2>1, BoundsAssumption DEF Fits, Waiting, Calls
      <4>3. new = Hop(stack[d], Head(result.ips))
        BY <3>2 DEF Resumed
      <4>4. <<>> \in Seq(Targets)
        OBVIOUS
      <4>5. Hop(stack[d], Head(result.ips)) \in Calls
        BY <3>1, <4>1, <4>2, <4>4 DEF Hop, Calls
      <4> QED
        BY <2>1, <3>1, <4>3, <4>5 DEF Fits, Hop, Calls
    <3>3. CASE result.ips = <<>>
      <4>1. new = [stack[d] EXCEPT !.todo = Tail(@)]
        BY <3>3 DEF Resumed
      <4>2. Tail(stack[d].todo) \in Seq(Targets)
        BY <2>1, <3>1 DEF Waiting, Calls
      <4>3. new \in Calls
        BY <3>1, <4>1, <4>2 DEF Calls
      <4> QED
        BY <2>1, <3>1, <4>1, <4>3 DEF Fits, Calls
    <3> QED
      BY <3>2, <3>3
  <2>3. /\ Popped \in Seq(Calls) /\ Len(Popped) = d
        /\ \A k \in 1..d : Popped[k] = stack[k]
    BY PoppedCalls
  <2>4. stack' = [Popped EXCEPT ![d] = new] /\ outcome' = outcome
    BY <1>3, <2>1, <2>3 DEF Return
  <2> HIDE DEF new
  <2>5. new \in Calls
    BY <2>2 DEF Fits
  <2>6. stack' \in Seq(Calls) /\ Len(stack') = d
    <3> HIDE DEF d
    <3>1. d \in 1..Len(Popped)
      BY <2>1, <2>3
    <3> QED
      BY <2>3, <2>4, <2>5, <3>1, ExceptSeq
  <2>7. \A k \in 1..d : stack'[k] = IF k = d THEN new ELSE stack[k]
    BY <2>1, <2>3, <2>4
  <2> HIDE DEF d
  <2>8. TypeOK'
    BY <2>4, <2>6 DEF IInv, TypeOK
  <2>9. StackFits'
    <3>1. Depth' = d
      BY <2>6 DEF Depth
    <3>2. \A k \in 1..d : Fits(stack'[k], k)
      <4>1. \A k \in 1..d : Fits(stack[k], k)
        BY <1>1 DEF IInv, StackFits, d
      <4> QED
        BY <2>2, <2>7, <4>1
    <3>3. \A k \in 1..(d - 1) : Waiting(stack'[k])
      BY <1>1, <2>1, <2>7 DEF IInv, StackFits, d
    <3> QED
      BY <3>1, <3>2, <3>3 DEF StackFits, Fits, Waiting
  <2>10. OnlyHostAddresses' /\ FailuresAreContained'
    BY <2>4 DEF IInv, OnlyHostAddresses, FailuresAreContained
  <2> QED
    BY <2>8, <2>9, <2>10 DEF IInv
<1> QED
  BY <1>2, <1>3

\* The outcomes of an exchange that ends the call.
LEMMA EndOfCallIInv ==
    ASSUME IInv, ExchangeFails \/ Answered \/ NoReferral \/ FallbackExhausted \/ TooManyHops
    PROVE  IInv'
<1>1. Running /\ family' = family
  BY DEF ExchangeFails, Answered, NoReferral, FallbackExhausted, TooManyHops, Asking
<1>2. /\ Depth \in Nat \ {0} /\ Fits(Top, Depth) /\ trouble \subseteq Families
      /\ Depth = 1 => family \in Families
  BY <1>1, TopFits DEF IInv, TypeOK, Fits, Calls
<1>3. ASSUME NEW bad, Note(bad)
      PROVE  /\ trouble \subseteq trouble' /\ trouble' \subseteq Families
             /\ bad /\ Depth = 1 => family \in trouble'
  BY <1>2, <1>3 DEF Note
<1>4. Returns(Failed) \/ ~(Depth = 1 => family \in trouble')
  BY DEF Returns, Failed, Outcomes
<1>5. Returns(Empty)
  BY DEF Returns, Empty, Outcomes
<1>6. CASE ExchangeFails
  BY <1>1, <1>3, <1>4, <1>6, ReturnIInv DEF ExchangeFails
<1>7. CASE TooManyHops
  BY <1>1, <1>3, <1>4, <1>7, ReturnIInv DEF TooManyHops
<1>8. CASE NoReferral
  <2>1. PICK r \in Replies : Note(r.rcode = "SERVFAIL")
    BY <1>8 DEF NoReferral
  <2>2. trouble \subseteq trouble' /\ trouble' \subseteq Families
    BY <1>3, <2>1
  <2> QED
    BY <1>1, <1>5, <1>8, <2>2, ReturnIInv DEF NoReferral
<1>9. CASE FallbackExhausted
  BY <1>1, <1>2, <1>5, <1>9, ReturnIInv DEF FallbackExhausted
<1>10. CASE Answered
  <2> DEFINE ip == [owner |-> Top.name, family |-> Top.qtype]
  <2>1. ip \in Addresses
    BY <1>2 DEF Fits, Calls, Addresses
  <2> HIDE DEF ip
  <2>2. <<ip>> \in Seq(Addresses) /\ DOMAIN <<ip>> = {1} /\ <<ip>>[1] = ip
    BY <2>1
  <2>3. Returns(Found(ip))
    BY <2>2 DEF Returns, Found, Outcomes, ip
  <2> QED
    BY <1>1, <1>2, <1>10, <2>3, ReturnIInv DEF Answered, ip
<1> QED
  BY <1>6, <1>7, <1>8, <1>9, <1>10

\* A referral is followed, or its nameservers are put aside to be resolved.
LEMMA ReferralIInv ==
    ASSUME IInv, FollowGlue \/ StartFallback
    PROVE  IInv'
<1>1. /\ Running /\ Top.asking /\ Top.hops < MaxHops
      /\ family' = family /\ outcome' = outcome
  BY DEF FollowGlue, StartFallback, Asking
<1>2. Depth \in Nat \ {0} /\ Fits(Top, Depth) /\ Top \in Calls
  BY <1>1, TopFits DEF Fits
<1>3. trouble \subseteq trouble' /\ trouble' \subseteq Families
  <2>1. /\ trouble \subseteq Families
        /\ Depth = 1 => family \in Families
    BY <1>2 DEF IInv, TypeOK, Fits, Calls
  <2>2. \E bad : Note(bad)
    BY DEF FollowGlue, StartFallback
  <2> QED
    BY <2>1, <2>2 DEF Note
<1>4. \E call : Fits(call, Depth) /\ stack' = [stack EXCEPT ![Depth] = call]
  <2>1. CASE FollowGlue
    <3>1. PICK r \in Replies : \E k \in DOMAIN r.ns :
             stack' = [stack EXCEPT ![Depth] = Hop(@, [owner |-> r.ns[k], family |-> "glue"])]
      BY <2>1 DEF FollowGlue
    <3>2. PICK k \in DOMAIN r.ns :
             stack' = [stack EXCEPT ![Depth] = Hop(@, [owner |-> r.ns[k], family |-> "glue"])]
      BY <3>1
    <3> DEFINE server == [owner |-> r.ns[k], family |-> "glue"]
    <3>3. r.ns \in Seq(Targets)
      BY RepliesAssumption DEF ReplyType
    <3>4. r.ns[k] \in Targets
      BY <3>3
    <3>5. server \in Servers
      BY <3>4 DEF Servers, Addresses
    <3> HIDE DEF server
    <3>6. Top.hops + 1 \in 0..MaxHops /\ <<>> \in Seq(Targets)
      BY <1>1, <1>2, BoundsAssumption DEF Calls
    <3>7. Hop(Top, server) \in Calls
      BY <1>2, <3>5, <3>6 DEF Hop, Calls
    <3>8. Fits(Hop(Top, server), Depth)
      BY <1>2, <3>7 DEF Fits, Hop, Calls
    <3>9. stack' = [stack EXCEPT ![Depth] = Hop(Top, server)]
      BY <3>2 DEF server, Top
    <3> QED
      BY <3>8, <3>9
  <2>2. CASE StartFallback
    <3>1. PICK r \in Replies :
             stack' = [stack EXCEPT ![Depth].asking = FALSE, ![Depth].todo = r.ns]
      BY <2>2 DEF StartFallback
    <3> DEFINE call == [Top EXCEPT !.asking = FALSE, !.todo = r.ns]
    <3>2. r.ns \in Seq(Targets)
      BY RepliesAssumption DEF ReplyType
    <3>3. call \in Calls
      BY <1>2, <3>2 DEF Calls
    <3>4. Top.budget > 0
      BY <2>2 DEF StartFallback
    <3>5. Fits(call, Depth)
      BY <1>1, <1>2, <3>3, <3>4 DEF Fits, Calls
    <3>6. stack' = [stack EXCEPT ![Depth] = call]
      BY <1>2, <3>1 DEF Top, IInv, TypeOK, Depth
    <3> QED
      BY <3>5, <3>6
  <2> QED
    BY <2>1, <2>2
<1>5. stack' \in Seq(Calls) /\ StackFits'
  BY <1>1, <1>4, TopReplaced
<1>6. TypeOK'
  BY <1>1, <1>3, <1>5 DEF IInv, TypeOK
<1>7. OnlyHostAddresses' /\ FailuresAreContained'
  BY <1>1, <1>3 DEF IInv, OnlyHostAddresses, FailuresAreContained
<1> QED
  BY <1>5, <1>6, <1>7 DEF IInv

LEMMA RecurseIInv ==
    ASSUME IInv, Recurse
    PROVE  IInv'
<1> DEFINE call == Call(Head(Top.todo), "A", Top.budget - 1)
<1>1. /\ Running /\ ~Top.asking /\ Top.todo # <<>>
      /\ stack' = Append(stack, call)
      /\ UNCHANGED <<family, outcome, trouble>>
  BY DEF Recurse
<1>2. /\ Depth \in Nat \ {0} /\ Fits(Top, Depth) /\ Top \in Calls
      /\ stack \in Seq(Calls) /\ Depth = Len(stack)
  BY <1>1, TopFits DEF Fits, IInv, TypeOK, Depth
<1>3. Top.budget > 0 /\ Top.budget = ReferralBudget + 1 - Depth
  BY <1>1, <1>2 DEF Fits
<1>4. Head(Top.todo) \in Targets
  BY <1>1, <1>2, HeadTailProperties DEF Calls
<1>5. Fits(call, Depth + 1)
  <2>1. Top.budget - 1 \in 0..ReferralBudget
    BY <1>2, <1>3, BoundsAssumption DEF Calls
  <2>2. <<>> \in Seq(Targets) /\ 0 \in 0..MaxHops /\ "A" \in Families
    BY BoundsAssumption DEF Families
  <2>3. call \in Calls
    BY <1>4, <2>1, <2>2 DEF Call, Calls, Servers
  <2>4. call.budget = Top.budget - 1 /\ call.asking
    BY DEF Call
  <2> HIDE DEF call
  <2> QED
    BY <1>2, <1>3, <2>3, <2>4, BoundsAssumption DEF Fits
<1> HIDE DEF call
<1>6. /\ stack' \in Seq(Calls) /\ Len(stack') = Depth + 1
      /\ \A k \in 1..Depth : stack'[k] = stack[k]
      /\ stack'[Depth + 1] = call
  BY <1>1, <1>2, <1>5, AppendProperties DEF Fits
<1>7. StackFits'
  <2>1. Depth' = Depth + 1
    BY <1>6 DEF Depth
  <2>2. \A k \in 1..(Depth + 1) : Fits(stack'[k], k)
    <3>1. \A k \in 1..Depth : Fits(stack'[k], k)
      BY <1>6 DEF IInv, StackFits
    <3> QED
      BY <1>2, <1>5, <1>6, <3>1
  <2>3. \A k \in 1..Depth : Waiting(stack'[k])
    <3>1. Waiting(Top)
      BY <1>1 DEF Waiting
    <3>2. \A k \in 1..Depth : k = Depth \/ k \in 1..(Depth - 1)
      BY <1>2
    <3>3. \A k \in 1..Depth : Waiting(stack[k])
      BY <3>1, <3>2 DEF IInv, StackFits, Top
    <3> QED
      BY <1>6, <3>3
  <2>4. family' = family
    BY <1>1
  <2>5. (Depth + 1) - 1 = Depth
    BY <1>2
  <2> QED
    BY <2>1, <2>2, <2>3, <2>4, <2>5 DEF StackFits, Fits, Waiting
<1>8. TypeOK'
  BY <1>1, <1>6 DEF IInv, TypeOK
<1>9. OnlyHostAddresses' /\ FailuresAreContained'
  BY <1>1 DEF IInv, OnlyHostAddresses, FailuresAreContained
<1> QED
  BY <1>7, <1>8, <1>9 DEF IInv

LEMMA NextFamilyIInv ==
    ASSUME IInv, NextFamily
    PROVE  IInv'
<1>1. stack = <<>> /\ UNCHANGED <<outcome, trouble>>
  BY DEF NextFamily, Running
<1>2. CASE family = "A"
  <2> DEFINE c == Call(Host, "AAAA", ReferralBudget)
  <2>1. family' = "AAAA" /\ stack' = <<c>>
    BY <1>2 DEF NextFamily
  <2>2. c \in Calls /\ "AAAA" \in Families
    BY FirstCall DEF Families
  <2>3. c.budget = ReferralBudget /\ c.name = Host /\ c.qtype = "AAAA" /\ c.asking
    BY DEF Call
  <2> HIDE DEF c
  <2>4. stack' \in Seq(Calls) /\ Len(stack') = 1 /\ stack'[1] = c
    BY <2>1, <2>2
  <2>5. Fits(c, 1)'
    BY <2>1, <2>2, <2>3, BoundsAssumption DEF Fits, c
  <2>6. StackFits'
    BY <2>4, <2>5 DEF StackFits, Depth, Fits, c
  <2>7. TypeOK'
    BY <1>1, <2>1, <2>2, <2>4 DEF IInv, TypeOK
  <2>8. OnlyHostAddresses' /\ FailuresAreContained'
    BY <1>1 DEF IInv, OnlyHostAddresses, FailuresAreContained
  <2> QED
    BY <2>6, <2>7, <2>8 DEF IInv
<1>3. CASE family # "A"
  <2>1. family' = "done" /\ stack' = <<>>
    BY <1>1, <1>3 DEF NextFamily
  <2>2. TypeOK'
    BY <1>1, <2>1 DEF IInv, TypeOK
  <2>3. StackFits'
    BY <2>1 DEF StackFits, Depth
  <2>4. OnlyHostAddresses' /\ FailuresAreContained'
    BY <1>1 DEF IInv, OnlyHostAddresses, FailuresAreContained
  <2> QED
    BY <2>2, <2>3, <2>4 DEF IInv
<1> QED
  BY <1>2, <1>3

LEMMA StutterIInv ==
    ASSUME IInv, UNCHANGED vars
    PROVE  IInv'
<1>1. TypeOK'
  BY DEF IInv, TypeOK, vars
<1>2. StackFits'
  BY DEF IInv, StackFits, Depth, Fits, Waiting, vars
<1>3. OnlyHostAddresses' /\ FailuresAreContained'
  BY DEF IInv, OnlyHostAddresses, FailuresAreContained, vars
<1> QED
  BY <1>1, <1>2, <1>3 DEF IInv

LEMMA NextIInv == IInv /\ [Next]_vars => IInv'
  BY EndOfCallIInv, ReferralIInv, RecurseIInv, NextFamilyIInv, StutterIInv DEF Next

THEOREM Invariance == Spec => []IInv
  BY InitIInv, NextIInv, PTL DEF Spec
-----------------------------------------------------------------------------
\* Every variable of the resolver keeps its type; no call has a negative budget
\* or more hops than the loop allows.
THEOREM TypeCorrect == Spec => []TypeOK
<1>1. IInv => TypeOK
  BY DEF IInv
<1> QED
  BY <1>1, Invariance, PTL

\* The recursion for referrals without glue is no deeper than the budget,
\* whatever the servers reply.
THEOREM NestingBounded == Spec => []NestingIsBudgeted
<1>1. IInv => NestingIsBudgeted
  <2> SUFFICES ASSUME IInv PROVE NestingIsBudgeted
    OBVIOUS
  <2>1. stack \in Seq(Calls) /\ Depth = Len(stack) /\ Depth \in Nat
    BY DEF IInv, TypeOK, Depth
  <2>2. \A k \in DOMAIN stack : Fits(stack[k], k)
    BY <2>1 DEF IInv, StackFits
  <2>3. Depth <= ReferralBudget + 1
    <3>1. CASE Depth = 0
      BY <3>1, BoundsAssumption
    <3>2. CASE Depth # 0
      <4>1. Fits(stack[Depth], Depth)
        BY <2>1, <2>2, <3>2
      <4> QED
        BY <2>1, <4>1, BoundsAssumption DEF Fits, Calls
    <3> QED
      BY <3>1, <3>2
  <2>4. Running => stack[1].name = Host /\ stack[1].qtype = family
    <3>1. Running => 1 \in DOMAIN stack
      BY <2>1, EmptySeq DEF Running
    <3> QED
      BY <2>2, <3>1 DEF Fits
  <2> QED
    BY <2>2, <2>3, <2>4 DEF NestingIsBudgeted, Fits
<1> QED
  BY <1>1, Invariance, PTL

\* What ResolveHostnames returns for a hostname answers a question for that
\* hostname and that family, never one for a referral nameserver.
THEOREM AddressesAreTheHosts == Spec => []OnlyHostAddresses
<1>1. IInv => OnlyHostAddresses
  BY DEF IInv
<1> QED
  BY <1>1, Invariance, PTL

\* An out-of-band lookup that fails does not fail the walk that needed it.
THEOREM FailuresStayInside == Spec => []FailuresAreContained
<1>1. IInv => FailuresAreContained
  BY DEF IInv
<1> QED
  BY <1>1, Invariance, PTL
=============================================================================
