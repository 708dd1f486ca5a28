-------------------------- MODULE SPFCounterProofs --------------------------
(***************************************************************************)
(* The walk of countSPFLookups stays within its budget and its count is    *)
(* what the evaluation costs, whatever is published, for every number of   *)
(* names, every budget and every set of records.                           *)
(*                                                                         *)
(* BudgetBoundsWork is not inductive: that a fetch is still allowed        *)
(* follows from the count, so IInv relates the fetches to the count.  Of   *)
(* the count CountInv says at every step that it makes up the cost with    *)
(* the lookups that the calls under way have still to count.               *)
(***************************************************************************)
EXTENDS SPFCounter, ListProofs, SequenceTheorems, TLAPS

\* A record is fetched only after the mechanism that names it was counted.
FetchesAreCounted == fetches <= count /\ fetches <= MaxLookups

\* Each level of the recursion and each expanded target is a fetch.
FetchesBoundWalk ==
    /\ Depth <= fetches
    /\ IsFiniteSet(visited) /\ Cardinality(visited) <= fetches

IInv == TypeOK /\ FetchesAreCounted /\ FetchesBoundWalk
-----------------------------------------------------------------------------
(* The stack of calls.                                                     *)

\* A call of walk that is under way has a frame on top of the others.
LEMMA TopFrame ==
    ASSUME TypeOK, ~Finished
    PROVE  /\ Len(stack) \in Nat \ {0}
           /\ Top \in Frames
<1>1. stack \in Seq(Frames) /\ stack # <<>>
  BY DEF TypeOK, Finished
<1>2. Len(stack) \in Nat \ {0}
  BY <1>1, EmptySeq
<1> QED
  BY <1>1, <1>2 DEF Top

\* The first n elements of a sequence are a sequence over the same set.
LEMMA InitialPart ==
    ASSUME NEW S, NEW s \in Seq(S), NEW n \in Nat, n <= Len(s)
    PROVE  SubSeq(s, 1, n) \in Seq(S) /\ Len(SubSeq(s, 1, n)) = n
<1>1. SubSeq(s, 1, n) \in Seq(S)
  OBVIOUS
<1>2. Len(SubSeq(s, 1, n)) = n
  OBVIOUS
<1> QED
  BY <1>1, <1>2

\* Returning leaves the calls below it as they were.
LEMMA PoppedStack ==
    ASSUME TypeOK, ~Finished
    PROVE  Popped \in Seq(Frames) /\ Len(Popped) = Len(stack) - 1
<1>1. stack \in Seq(Frames) /\ Len(stack) \in Nat \ {0}
  BY TopFrame DEF TypeOK
<1>2. Len(stack) - 1 \in Nat /\ Len(stack) - 1 <= Len(stack)
  BY <1>1
<1> QED
  BY <1>1, <1>2, InitialPart DEF Popped

\* Handling a mechanism neither opens nor closes a call.
LEMMA AdvancedStack ==
    ASSUME TypeOK, ~Finished
    PROVE  Advanced \in Seq(Frames) /\ Len(Advanced) = Len(stack)
<1>1. [Top EXCEPT !.pos = @ + 1] \in Frames
  BY TopFrame DEF Frames
<1>2. Popped \in Seq(Frames) /\ Len(Popped) = Len(stack) - 1 /\ Len(stack) \in Nat
  BY PoppedStack, TopFrame
<1> QED
  BY <1>1, <1>2, AppendProperties DEF Advanced
-----------------------------------------------------------------------------
(* The inductive invariant.                                                *)

LEMMA InitIInv == Init => IInv
<1> SUFFICES ASSUME Init PROVE IInv
  OBVIOUS
<1>1. stack \in Seq(Frames) /\ Len(stack) = 1
  BY DEF Init, Frames
<1>2. TypeOK
  BY <1>1, LimitAssumption DEF Init, TypeOK
<1>3. FetchesAreCounted
  BY LimitAssumption DEF Init, FetchesAreCounted
<1>4. FetchesBoundWalk
  BY <1>1, FS_EmptySet DEF Init, FetchesBoundWalk, Depth
<1> QED
  BY <1>2, <1>3, <1>4 DEF IInv

\* A mechanism that is handled leaves the count within MaxLookups + 1.
LEMMA HandlingWithinBudget ==
    ASSUME IInv, Handling
    PROVE  ~Finished /\ count \in 0..MaxLookups
  BY LimitAssumption DEF IInv, TypeOK, Handling, Over

LEMMA ReturnIInv ==
    ASSUME IInv, Return
    PROVE  IInv'
<1>1. Popped \in Seq(Frames) /\ Len(Popped) = Len(stack) - 1 /\ Len(stack) \in Nat
  BY PoppedStack, TopFrame DEF IInv, Return
<1>2. TypeOK'
  BY <1>1 DEF IInv, TypeOK, Return, world
<1>3. FetchesAreCounted'
  BY DEF IInv, FetchesAreCounted, Return
<1>4. FetchesBoundWalk'
  BY <1>1 DEF IInv, TypeOK, FetchesBoundWalk, Return, Depth
<1> QED
  BY <1>2, <1>3, <1>4 DEF IInv

\* The steps that fetch nothing and stay in their call of walk.
LEMMA AdvanceIInv ==
    ASSUME IInv, CountLookup \/ SkipMechanism \/ MacroTarget \/ CutTarget
    PROVE  IInv'
<1> USE DEF CountLookup, SkipMechanism, MacroTarget, CutTarget, Recursing, Expanding
<1>1. Handling
  BY Zenon
<1>2. Advanced \in Seq(Frames) /\ Len(Advanced) = Len(stack)
  BY <1>1, HandlingWithinBudget, AdvancedStack DEF IInv
<1>3. /\ stack' = Advanced
      /\ UNCHANGED <<world, visited, fetches>>
      /\ complete' \in BOOLEAN
      /\ count' \in {count, count + 1, MaxLookups + 1}
  BY DEF IInv, TypeOK
<1>4. count' \in 0..(MaxLookups + 1) /\ count <= count'
  BY <1>1, <1>3, HandlingWithinBudget, LimitAssumption
<1> HIDE DEF CountLookup, SkipMechanism, MacroTarget, CutTarget, Recursing, Expanding
<1>5. TypeOK'
  BY <1>2, <1>3, <1>4 DEF IInv, TypeOK, world
<1>6. FetchesAreCounted'
  BY <1>3, <1>4 DEF IInv, TypeOK, FetchesAreCounted
<1>7. FetchesBoundWalk'
  BY <1>2, <1>3 DEF IInv, FetchesBoundWalk, Depth
<1> QED
  BY <1>5, <1>6, <1>7 DEF IInv

LEMMA OverrunIInv ==
    ASSUME IInv, Overrun
    PROVE  IInv'
<1>1. ~Finished /\ count \in 0..MaxLookups
  BY HandlingWithinBudget DEF Overrun, Expanding
<1>2. Popped \in Seq(Frames) /\ Len(Popped) = Len(stack) - 1 /\ Len(stack) \in Nat
  BY <1>1, PoppedStack, TopFrame DEF IInv
<1>3. TypeOK'
  BY <1>1, <1>2, LimitAssumption DEF IInv, TypeOK, Overrun, world
<1>4. FetchesAreCounted'
  BY <1>1 DEF IInv, TypeOK, FetchesAreCounted, Overrun
<1>5. FetchesBoundWalk'
  BY <1>2 DEF IInv, TypeOK, FetchesBoundWalk, Overrun, Depth
<1> QED
  BY <1>3, <1>4, <1>5 DEF IInv

\* A fetch follows the count of its mechanism, which stayed within the budget.
LEMMA FetchFailsIInv ==
    ASSUME IInv, FetchFails
    PROVE  IInv'
<1>1. Handling /\ count < MaxLookups
  BY DEF FetchFails, Recursing, Expanding
<1>2. count \in 0..MaxLookups /\ Advanced \in Seq(Frames) /\ Len(Advanced) = Len(stack)
  BY <1>1, HandlingWithinBudget, AdvancedStack DEF IInv
<1>3. TypeOK'
  <2>1. count' \in 0..(MaxLookups + 1) /\ fetches' \in Nat
    BY <1>1, <1>2, LimitAssumption DEF IInv, TypeOK, FetchFails
  <2> QED
    BY <1>2, <2>1 DEF IInv, TypeOK, FetchFails, world
<1>4. FetchesAreCounted'
  BY <1>1, <1>2, LimitAssumption DEF IInv, TypeOK, FetchesAreCounted, FetchFails
<1>5. FetchesBoundWalk'
  <2>1. Depth' = Depth /\ Depth \in Int
    BY <1>2, TopFrame, <1>1, HandlingWithinBudget DEF IInv, FetchFails, Depth
  <2>2. Cardinality(visited) \in Nat
    BY FS_CardinalityType DEF IInv, FetchesBoundWalk
  <2> QED
    BY <2>1, <2>2 DEF IInv, TypeOK, FetchesBoundWalk, FetchFails
<1> QED
  BY <1>3, <1>4, <1>5 DEF IInv

LEMMA FetchOkIInv ==
    ASSUME IInv, FetchOk
    PROVE  IInv'
<1> DEFINE t == Mechanism.target
           Call == [rec |-> published[t], pos |-> 1]
<1>1. Handling /\ count < MaxLookups
  BY DEF FetchOk, Recursing, Expanding
<1>2. ~Finished /\ count \in 0..MaxLookups
  BY <1>1, HandlingWithinBudget
<1>3. Advanced \in Seq(Frames) /\ Len(Advanced) = Len(stack) /\ Len(stack) \in Nat
  BY <1>2, AdvancedStack, TopFrame DEF IInv
<1>4. t \in Names
  <2>1. Top \in Frames /\ Top.pos \in DOMAIN Top.rec
    BY <1>1, <1>2, TopFrame, RecordAssumption DEF IInv, Handling, Frames
  <2>2. Mechanism \in Mechanisms
    BY <2>1, RecordAssumption DEF Mechanism, Frames
  <2> QED
    BY <2>2 DEF Mechanisms, FetchOk
<1>5. Call \in Frames
  BY <1>4 DEF FetchOk, IInv, TypeOK, Frames
<1>6. stack' \in Seq(Frames) /\ Len(stack') = Len(stack) + 1
  <2>1. stack' = Append(Advanced, Call)
    BY DEF FetchOk
  <2> HIDE DEF Call
  <2> QED
    BY <2>1, <1>3, <1>5, AppendProperties
<1>7. TypeOK'
  BY <1>1, <1>2, <1>4, <1>6, LimitAssumption DEF IInv, TypeOK, FetchOk, world
<1>8. FetchesAreCounted'
  BY <1>1, <1>2, LimitAssumption DEF IInv, TypeOK, FetchesAreCounted, FetchOk
<1>9. FetchesBoundWalk'
  <2>1. Depth' <= fetches'
    BY <1>3, <1>6 DEF IInv, TypeOK, FetchesBoundWalk, FetchOk, Depth
  <2>2. /\ IsFiniteSet(visited \cup {t})
        /\ Cardinality(visited \cup {t}) \in Nat
        /\ Cardinality(visited) \in Nat
        /\ Cardinality(visited \cup {t}) <= Cardinality(visited) + 1
    BY FS_AddElement, FS_CardinalityType DEF IInv, FetchesBoundWalk
  <2> QED
    BY <2>1, <2>2 DEF IInv, TypeOK, FetchesBoundWalk, FetchOk
<1> QED
  BY <1>7, <1>8, <1>9 DEF IInv

LEMMA StutterIInv ==
    ASSUME IInv, UNCHANGED vars
    PROVE  IInv'
  BY DEF IInv, TypeOK, FetchesAreCounted, FetchesBoundWalk, Depth, vars

LEMMA NextIInv == IInv /\ [Next]_vars => IInv'
  BY ReturnIInv, AdvanceIInv, OverrunIInv, FetchFailsIInv, FetchOkIInv, StutterIInv
     DEF Next

THEOREM Invariance == Spec => []IInv
  BY InitIInv, NextIInv, PTL DEF Spec
-----------------------------------------------------------------------------
\* Every variable of the walk keeps its type; in particular the count never
\* passes the 11 that stands for "over budget".
THEOREM TypeCorrect == Spec => []TypeOK
<1>1. IInv => TypeOK
  BY DEF IInv
<1> QED
  BY <1>1, Invariance, PTL

\* Whatever is published and whatever fails, at most MaxLookups records are
\* fetched, and the recursion and the visited set are no larger than that:
\* countSPFLookups "cannot hang".
THEOREM WalkIsBounded == Spec => []BudgetBoundsWork
<1>1. IInv => BudgetBoundsWork
  BY DEF IInv, FetchesAreCounted, FetchesBoundWalk, BudgetBoundsWork
<1> QED
  BY <1>1, Invariance, PTL

\* The depth cap of recurse is out of reach: a target that is cut was expanded
\* before.
THEOREM DepthCapNeverCuts ==
    Spec => [](Recursing /\ Cut => Mechanism.target \in visited)
<1>1. IInv => (Recursing /\ Cut => Mechanism.target \in visited)
  <2> SUFFICES ASSUME IInv, Recursing, Cut PROVE Mechanism.target \in visited
    OBVIOUS
  <2>1. count < MaxLookups /\ Depth <= fetches /\ fetches <= count
    BY DEF IInv, Recursing, FetchesAreCounted, FetchesBoundWalk
  <2>2. Depth \in Int /\ fetches \in Nat /\ count \in Nat
    BY TopFrame DEF IInv, TypeOK, Recursing, Expanding, Handling, Depth
  <2> QED
    BY <2>1, <2>2, LimitAssumption DEF Cut
<1> QED
  BY <1>1, Invariance, PTL

-----------------------------------------------------------------------------
(* What a record costs.                                                    *)

Targets == Names \cup {Macro}

\* The lookups of a mechanism, as a function of what its target costs.
LookupsOf(rec, k, below) ==
    IF rec[k].kind = "lookup" THEN 1
    ELSE IF InForce(rec, rec[k]) THEN 1 + below[rec[k].target]
    ELSE 0

LEMMA LookupsAreNumbers ==
    ASSUME NEW rec \in Records, NEW below \in [Targets -> Nat]
    PROVE  /\ Lookups(rec, below) \in Seq(Nat)
           /\ Len(Lookups(rec, below)) = Len(rec)
           /\ \A k \in 1..Len(rec) : Lookups(rec, below)[k] = LookupsOf(rec, k, below)
<1>1. /\ rec \in Seq(Mechanisms) /\ Len(rec) \in Nat /\ DOMAIN rec = 1..Len(rec)
      /\ \A k \in 1..Len(rec) : rec[k] \in Mechanisms
  BY RecordAssumption
<1>2. \A k \in 1..Len(rec) : LookupsOf(rec, k, below) \in Nat
  <2> TAKE k \in 1..Len(rec)
  <2>1. rec[k].target \in Targets
    BY <1>1 DEF Mechanisms, Targets
  <2>2. below[rec[k].target] \in Nat
    BY <2>1
  <2> HIDE DEF Targets
  <2> QED
    BY <2>2 DEF LookupsOf
<1>3. Lookups(rec, below) = [k \in 1..Len(rec) |-> LookupsOf(rec, k, below)]
  BY <1>1, Zenon DEF Lookups, LookupsOf
<1> DEFINE L(k) == LookupsOf(rec, k, below)
           N == Len(rec)
<1> HIDE DEF L, N
<1>4. [k \in 1..N |-> L(k)] \in Seq(Nat) /\ Len([k \in 1..N |-> L(k)]) = N
  BY <1>1, <1>2 DEF L, N
<1>5. \A k \in 1..N : [j \in 1..N |-> L(j)][k] = L(k)
  OBVIOUS
<1> QED
  BY <1>3, <1>4, <1>5 DEF L, N

LEMMA SumIsNumber ==
    ASSUME NEW s \in Seq(Nat)
    PROVE  SumOf(s) \in Nat
<1>1. Len(s) \in 0..Len(s)
  OBVIOUS
<1> QED
  BY <1>1, SubtotalsAdd DEF SumOf

Worlds == [Names -> Records \cup {NoRecord}]

\* What one more level of nesting adds to what the targets cost.
OneLevel(records, below) ==
    [t \in Targets |-> IF t = Macro \/ records[t] = NoRecord THEN 0
                       ELSE SumOf(Lookups(records[t], below))]

LEMMA OneLevelCosts ==
    ASSUME NEW records \in Worlds, NEW below \in [Targets -> Nat]
    PROVE  OneLevel(records, below) \in [Targets -> Nat]
<1>1. ASSUME NEW t \in Targets, t # Macro, records[t] # NoRecord
      PROVE  SumOf(Lookups(records[t], below)) \in Nat
  <2>1. records[t] \in Records
    BY <1>1 DEF Worlds, Targets
  <2>2. Lookups(records[t], below) \in Seq(Nat)
    BY <2>1, LookupsAreNumbers
  <2> QED
    BY <2>2, SumIsNumber
<1> QED
  BY <1>1 DEF OneLevel

Levels == MaxLookups + 1

\* The recursion of Below.
LEMMA BelowByLevel ==
    ASSUME NEW records \in Worlds
    PROVE  /\ Below(records) \in [0..Levels -> [Targets -> Nat]]
           /\ \A n \in 1..Levels : Below(records)[n] = OneLevel(records, Below(records)[n - 1])
<1> DEFINE T == [Targets -> Nat]
           base == [t \in Targets |-> 0]
           After(b) == OneLevel(records, b)
           step == [n \in 1..Levels |-> [b \in T |-> After(b)]]
           Fits(f) == f = [n \in 0..Levels |->
                            [t \in Targets |->
                                IF n = 0 \/ t = Macro \/ records[t] = NoRecord THEN 0
                                ELSE SumOf(Lookups(records[t], f[n - 1]))]]
           below == CHOOSE f : Fits(f)
<1>1. Levels \in Nat /\ base \in T /\ \A b \in T : After(b) \in T
  BY OneLevelCosts, LimitAssumption DEF Levels
<1>2. Below(records) = below
  BY Zenon DEF Below, Levels, Targets
<1>3. \A f : Fits(f) <=> f = [n \in 0..Levels |-> IF n = 0 THEN base ELSE After(f[n - 1])]
  <2> TAKE f
  <2>1. ASSUME NEW n \in 0..Levels
        PROVE  [t \in Targets |->
                  IF n = 0 \/ t = Macro \/ records[t] = NoRecord THEN 0
                  ELSE SumOf(Lookups(records[t], f[n - 1]))]
               = IF n = 0 THEN base ELSE After(f[n - 1])
    <3>1. CASE n = 0
      BY <3>1
    <3>2. CASE n # 0
      BY <3>2 DEF OneLevel
    <3> QED
      BY <3>1, <3>2
  <2> QED
    BY <2>1, Zenon
<1> HIDE DEF T, base, After, Fits
<1>4. /\ step \in [1..Levels -> [T -> T]]
      /\ \A n \in 1..Levels : \A b \in T : step[n][b] = After(b)
  BY <1>1
<1> HIDE DEF step
<1>5. PICK f \in [0..Levels -> T] :
         f[0] = base /\ \A n \in 1..Levels : f[n] = step[n][f[n - 1]]
  <2>1. Solutions(Levels, T, base, step) # {}
    BY <1>1, <1>4, RecursionExists
  <2> QED
    BY <2>1 DEF Solutions
<1>6. \A n \in 1..Levels : f[n] = After(f[n - 1])
  <2> TAKE n \in 1..Levels
  <2>1. n - 1 \in 0..Levels
    BY <1>1
  <2> QED
    BY <1>4, <1>5, <2>1
<1>7. Fits(f)
  <2>1. f = [n \in 0..Levels |-> IF n = 0 THEN base ELSE After(f[n - 1])]
    BY <1>1, <1>5, <1>6
  <2> QED
    BY <1>3, <2>1
<1>8. Fits(below)
  BY <1>7
<1> HIDE DEF below
<1>9. below[0] = base /\ \A n \in 1..Levels : below[n] = After(below[n - 1])
  <2> DEFINE g == below
  <2> HIDE DEF g
  <2>1. below = [n \in 0..Levels |-> IF n = 0 THEN base ELSE After(g[n - 1])]
    BY <1>3, <1>8 DEF g
  <2> QED
    BY <1>1, <2>1 DEF g
<1>10. \A n \in 0..Levels : f[n] = below[n]
  <2>1. StartAlike(f, below, Levels)
    BY <1>1, <1>5, <1>6, <1>9 DEF StartAlike
  <2> QED
    BY <1>1, <2>1, RecursionIsUnique DEF Alike
<1>11. below \in [0..Levels -> T]
  <2>1. below = [n \in 0..Levels |-> below[n]]
    BY <1>3, <1>8
  <2> QED
    BY <1>5, <1>10, <2>1
<1> QED
  BY <1>2, <1>9, <1>11 DEF T, After

-----------------------------------------------------------------------------
(* The count, and what the calls under way still have to count.            *)

\* The lookups of a call's record, n levels below it, and those of the
\* mechanisms that the call has not handled yet.
CallLookups(records, call, n) == Lookups(call.rec, Below(records)[n])
Left(records, call, n) ==
    SumOf(CallLookups(records, call, n))
    - Subtotals(CallLookups(records, call, n))[call.pos - 1]

\* What all calls have left, each a level below the one that made it.
LeftOfAll(records, calls) ==
    [i \in 1..Len(calls) |-> Left(records, calls[i], (Levels + 1) - i)]
Owed(records, calls) == SumOf(LeftOfAll(records, calls))

Stands(call) == call.pos <= Len(call.rec) + 1
AllStand(calls) == Len(calls) <= Levels /\ \A i \in 1..Len(calls) : Stands(calls[i])

\* Within the budget, what is counted and what is left make up the cost; once
\* the walk is incomplete they are no more than it.  A complete walk leaves
\* the budget only if the cost does.
Accounts(n, whole, owed, cost) ==
    /\ n > MaxLookups /\ whole => cost > MaxLookups
    /\ n <= MaxLookups => n + owed <= cost
    /\ n <= MaxLookups /\ whole => n + owed = cost

CostIn(records, rec) == SumOf(Lookups(rec, Below(records)[Levels]))

Balance(records, rec, calls, n, whole) ==
    /\ AllStand(calls)
    /\ Accounts(n, whole, Owed(records, calls), CostIn(records, rec))

CountInv == Balance(published, root, stack, count, complete)

\* Handling a mechanism takes its lookups from what is left.
LEMMA LeftByStep ==
    ASSUME NEW records \in Worlds, NEW call \in Frames, Stands(call), NEW n \in 0..Levels
    PROVE  /\ Left(records, call, n) \in Nat
           /\ call.pos = 1 =>
                 Left(records, call, n) = SumOf(Lookups(call.rec, Below(records)[n]))
           /\ call.pos = Len(call.rec) + 1 => Left(records, call, n) = 0
           /\ call.pos <= Len(call.rec) =>
                 Left(records, call, n) = LookupsOf(call.rec, call.pos, Below(records)[n])
                                          + Left(records, [call EXCEPT !.pos = @ + 1], n)
<1> DEFINE rec == call.rec
           p == call.pos
           N == Len(rec)
           below == Below(records)[n]
           s == Lookups(rec, below)
           sum == Subtotals(s)
           next == [call EXCEPT !.pos = @ + 1]
<1>1. rec \in Records /\ p \in Nat \ {0} /\ N \in Nat /\ p <= N + 1
  BY RecordAssumption DEF Frames, Stands
<1>2. below \in [Targets -> Nat]
  BY BelowByLevel
<1>3. s \in Seq(Nat) /\ Len(s) = N /\ \A k \in 1..N : s[k] = LookupsOf(rec, k, below)
  <2> HIDE DEF rec, below
  <2> QED
    BY <1>1, <1>2, LookupsAreNumbers DEF s, N
<1>4. next.rec = rec /\ next.pos = p + 1
  BY DEF Frames
<1>5. /\ Left(records, call, n) = sum[N] - sum[p - 1]
      /\ Left(records, next, n) = sum[N] - sum[p]
      /\ SumOf(s) = sum[N]
  <2>1. (p + 1) - 1 = p
    BY <1>1
  <2> HIDE DEF next, N
  <2> QED
    BY <1>3, <1>4, <2>1, Zenon DEF Left, CallLookups, SumOf, N
<1>6. /\ sum \in [0..N -> Nat] /\ sum[0] = 0
      /\ \A k \in 1..N : sum[k] = sum[k - 1] + s[k]
      /\ \A k \in 0..N : sum[k] <= sum[N]
  <2> HIDE DEF s, N
  <2>1. /\ sum \in [0..Len(s) -> Nat] /\ AddsUp(s, sum)
        /\ \A k \in 0..Len(s) : SumIsBelow(sum, k, Len(s))
    BY <1>3, SubtotalsAdd, SubtotalsGrow
  <2> HIDE DEF sum
  <2> QED
    BY <1>3, <2>1 DEF AddsUp, SumIsBelow
<1> HIDE DEF rec, p, N, below, s, sum, next
<1>7. p - 1 \in 0..N /\ N \in 0..N
  BY <1>1
<1>8. Left(records, call, n) \in Nat
  BY <1>5, <1>6, <1>7
<1>9. p = 1 => Left(records, call, n) = SumOf(s)
  BY <1>5, <1>6, <1>7
<1>10. p = N + 1 => Left(records, call, n) = 0
  BY <1>1, <1>5, <1>6, <1>7
<1>11. p <= N => Left(records, call, n) = LookupsOf(rec, p, below) + Left(records, next, n)
  <2> SUFFICES ASSUME p <= N
               PROVE  Left(records, call, n) = LookupsOf(rec, p, below) + Left(records, next, n)
    OBVIOUS
  <2>1. p \in 1..N /\ p \in 0..N
    BY <1>1
  <2>2. sum[p] = sum[p - 1] + LookupsOf(rec, p, below)
    BY <1>3, <1>6, <2>1
  <2>3. sum[p] \in Nat /\ sum[p - 1] \in Nat /\ sum[N] \in Nat
    BY <1>6, <1>7, <2>1
  <2>4. LookupsOf(rec, p, below) \in Nat
    <3>1. \A k \in 1..Len(s) : s[k] \in Nat
      BY <1>3
    <3> QED
      BY <1>3, <2>1, <3>1
  <2> QED
    BY <1>5, <2>2, <2>3, <2>4
<1> QED
  BY <1>8, <1>9, <1>10, <1>11 DEF rec, p, N, below, s, next

LEMMA LeftNumbers ==
    ASSUME NEW records \in Worlds, NEW calls \in Seq(Frames), AllStand(calls)
    PROVE  /\ LeftOfAll(records, calls) \in Seq(Nat)
           /\ Len(LeftOfAll(records, calls)) = Len(calls)
           /\ \A i \in 1..Len(calls) :
                 LeftOfAll(records, calls)[i] = Left(records, calls[i], (Levels + 1) - i)
           /\ Owed(records, calls) \in Nat
<1> DEFINE N == Len(calls)
           L(i) == Left(records, calls[i], (Levels + 1) - i)
<1>1. N \in Nat /\ N <= Levels /\ Levels \in Nat /\ \A i \in 1..N : calls[i] \in Frames
  BY LimitAssumption DEF AllStand, Levels
<1>2. \A i \in 1..N : L(i) \in Nat
  <2> TAKE i \in 1..N
  <2>1. (Levels + 1) - i \in 0..Levels
    BY <1>1
  <2>2. Stands(calls[i])
    BY DEF AllStand
  <2> QED
    BY <1>1, <2>1, <2>2, LeftByStep
<1> HIDE DEF L, N
<1>3. /\ [i \in 1..N |-> L(i)] \in Seq(Nat) /\ Len([i \in 1..N |-> L(i)]) = N
      /\ \A i \in 1..N : [j \in 1..N |-> L(j)][i] = L(i)
  BY <1>1, <1>2
<1>4. LeftOfAll(records, calls) = [i \in 1..N |-> L(i)]
  BY Zenon DEF LeftOfAll, L, N
<1>5. Owed(records, calls) \in Nat
  BY <1>3, <1>4, SumIsNumber DEF Owed
<1> QED
  BY <1>3, <1>4, <1>5 DEF L, N

\* A call adds what it has left to what the others owe.
LEMMA OwedWithCall ==
    ASSUME NEW records \in Worlds, NEW calls \in Seq(Frames), NEW call \in Frames,
           AllStand(calls), Stands(call), Len(calls) < Levels
    PROVE  /\ AllStand(Append(calls, call))
           /\ Owed(records, Append(calls, call))
              = Owed(records, calls) + Left(records, call, Levels - Len(calls))
<1> DEFINE N == Len(calls)
           more == Append(calls, call)
           s == LeftOfAll(records, calls)
           t == LeftOfAll(records, more)
<1>1. /\ N \in Nat /\ Levels \in Nat /\ more \in Seq(Frames) /\ Len(more) = N + 1
      /\ more[N + 1] = call /\ \A i \in 1..N : more[i] = calls[i]
  BY LimitAssumption DEF Levels
<1> HIDE DEF more
<1>2. AllStand(more)
  <2>1. ASSUME NEW i \in 1..(N + 1)
        PROVE  Stands(more[i])
    <3>1. CASE i = N + 1
      BY <1>1, <3>1
    <3>2. CASE i \in 1..N
      BY <1>1, <3>2 DEF AllStand
    <3> QED
      BY <1>1, <3>1, <3>2
  <2> QED
    BY <1>1, <2>1 DEF AllStand
<1>3. /\ s \in Seq(Nat) /\ Len(s) = N
      /\ \A i \in 1..N : s[i] = Left(records, calls[i], (Levels + 1) - i)
  BY LeftNumbers
<1>4. /\ t \in Seq(Nat) /\ Len(t) = N + 1
      /\ \A i \in 1..(N + 1) : t[i] = Left(records, more[i], (Levels + 1) - i)
  BY <1>1, <1>2, LeftNumbers
<1> HIDE DEF s, t, N
<1>5. Subtotals(s)[N] = Subtotals(t)[N]
  <2>1. \A i \in 1..N : s[i] = t[i]
    <3> TAKE i \in 1..N
    <3>1. i \in 1..(N + 1)
      BY <1>1
    <3> QED
      BY <1>1, <1>3, <1>4, <3>1
  <2>2. N <= Len(s) /\ N <= Len(t)
    BY <1>1, <1>3, <1>4
  <2> QED
    BY <1>1, <1>3, <1>4, <2>1, <2>2, SubtotalsAgree
<1>6. Subtotals(t)[N + 1] = Subtotals(t)[N] + t[N + 1]
  <2>1. N + 1 \in 1..(N + 1) /\ (N + 1) - 1 = N
    BY <1>1
  <2>2. AddsUp(t, Subtotals(t))
    BY <1>4, SubtotalsAdd
  <2> QED
    BY <1>4, <2>1, <2>2 DEF AddsUp
<1>7. t[N + 1] = Left(records, call, Levels - N)
  <2>1. N + 1 \in 1..(N + 1) /\ (Levels + 1) - (N + 1) = Levels - N
    BY <1>1
  <2> QED
    BY <1>1, <1>4, <2>1
<1>8. Owed(records, calls) = Subtotals(s)[N] /\ Owed(records, more) = Subtotals(t)[N + 1]
  BY <1>3, <1>4 DEF Owed, SumOf, s, t
<1> QED
  BY <1>2, <1>5, <1>6, <1>7, <1>8 DEF N, more

\* How far the calls of walk have nested, counted from the budget.
Nest == Levels - Depth

LEMMA NestIsLevel ==
    ASSUME IInv, Handling
    PROVE  /\ ~Finished /\ count \in 0..MaxLookups
           /\ Depth \in Nat /\ Depth <= count /\ Len(stack) = Depth + 1
           /\ Nest \in 1..Levels
<1>1. ~Finished /\ count \in 0..MaxLookups
  BY HandlingWithinBudget
<1>2. Len(stack) \in Nat \ {0}
  BY <1>1, TopFrame DEF IInv
<1>3. Depth \in Nat /\ Depth <= count /\ Len(stack) = Depth + 1
  BY <1>1, <1>2 DEF IInv, TypeOK, FetchesAreCounted, FetchesBoundWalk, Depth
<1> QED
  BY <1>1, <1>3, LimitAssumption DEF Nest, Levels

\* The innermost call and the others.
LEMMA OwedByTop ==
    ASSUME TypeOK, ~Finished, AllStand(stack)
    PROVE  /\ Popped \in Seq(Frames) /\ AllStand(Popped) /\ Len(Popped) = Depth
           /\ Top \in Frames /\ Stands(Top)
           /\ Depth \in Nat /\ Depth < Levels /\ Nest \in 0..Levels
           /\ Owed(published, Popped) \in Nat
           /\ Owed(published, stack) = Owed(published, Popped) + Left(published, Top, Nest)
<1> DEFINE N == Len(stack)
<1>1. /\ stack \in Seq(Frames) /\ N \in Nat \ {0} /\ Top \in Frames /\ Top = stack[N]
      /\ Popped \in Seq(Frames) /\ Len(Popped) = N - 1
  BY TopFrame, PoppedStack DEF TypeOK, Top
<1>2. stack = Append(Popped, Top) /\ \A i \in 1..(N - 1) : Popped[i] = stack[i]
  BY <1>1 DEF Popped, Top
<1>3. N <= Levels /\ Levels \in Nat /\ \A i \in 1..N : Stands(stack[i])
  BY LimitAssumption DEF AllStand, Levels
<1>4. Depth = N - 1
  BY DEF Depth
<1> HIDE DEF N
<1>5. Depth \in Nat /\ Depth < Levels /\ Nest \in 0..Levels
  BY <1>1, <1>3, <1>4 DEF Nest
<1>6. Stands(Top)
  BY <1>1, <1>3
<1>7. AllStand(Popped)
  <2>1. \A i \in 1..(N - 1) : i \in 1..N
    BY <1>1
  <2>2. \A i \in 1..(N - 1) : Stands(Popped[i])
    BY <1>2, <1>3, <2>1
  <2> QED
    BY <1>1, <1>3, <2>2 DEF AllStand
<1>8. published \in Worlds
  BY DEF TypeOK, Worlds
<1>9. Owed(published, Append(Popped, Top))
      = Owed(published, Popped) + Left(published, Top, Levels - Len(Popped))
  BY <1>1, <1>4, <1>5, <1>6, <1>7, <1>8, OwedWithCall
<1>10. Owed(published, Popped) \in Nat
  BY <1>1, <1>7, <1>8, LeftNumbers
<1> QED
  BY <1>1, <1>2, <1>4, <1>5, <1>6, <1>7, <1>9, <1>10 DEF Nest

MechanismLookups == LookupsOf(Top.rec, Top.pos, Below(published)[Nest])

\* Moving on takes the lookups of the mechanism from what is owed.
LEMMA OwedByAdvancing ==
    ASSUME IInv, Handling, AllStand(stack)
    PROVE  /\ AllStand(Advanced)
           /\ MechanismLookups \in Nat /\ Owed(published, Advanced) \in Nat
           /\ Owed(published, stack) = MechanismLookups + Owed(published, Advanced)
<1> DEFINE next == [Top EXCEPT !.pos = @ + 1]
           below == Below(published)[Nest]
<1>1. ~Finished /\ TypeOK /\ Nest \in 1..Levels /\ Levels \in Nat
  BY NestIsLevel, LimitAssumption DEF IInv, Levels
<1>2. /\ Popped \in Seq(Frames) /\ AllStand(Popped) /\ Len(Popped) = Depth
      /\ Top \in Frames /\ Stands(Top)
      /\ Depth \in Nat /\ Depth < Levels /\ Nest \in 0..Levels
      /\ Owed(published, Popped) \in Nat
      /\ Owed(published, stack) = Owed(published, Popped) + Left(published, Top, Nest)
  BY <1>1, OwedByTop
<1>3. Top.pos <= Len(Top.rec) /\ published \in Worlds
  BY <1>1 DEF Handling, TypeOK, Worlds
<1>4. next \in Frames /\ Stands(next)
  <2>1. Top.pos \in Nat \ {0} /\ Len(Top.rec) \in Nat
    BY <1>2, RecordAssumption DEF Frames
  <2>2. next \in Frames /\ next.pos = Top.pos + 1 /\ next.rec = Top.rec
    BY <1>2, <2>1 DEF Frames
  <2> HIDE DEF next
  <2> QED
    BY <1>3, <2>1, <2>2 DEF Stands
<1>5. Left(published, Top, Nest) = MechanismLookups + Left(published, next, Nest)
  BY <1>2, <1>3, LeftByStep DEF MechanismLookups
<1> HIDE DEF next
<1>6. /\ AllStand(Append(Popped, next))
      /\ Owed(published, Append(Popped, next))
         = Owed(published, Popped) + Left(published, next, Levels - Len(Popped))
  BY <1>2, <1>3, <1>4, OwedWithCall
<1>7. Levels - Len(Popped) = Nest
  BY <1>2 DEF Nest
<1>8. Left(published, next, Nest) \in Nat
  BY <1>2, <1>3, <1>4, LeftByStep
<1>9. MechanismLookups \in Nat
  <2>1. below \in [Targets -> Nat]
    BY <1>2, <1>3, BelowByLevel
  <2>2. Top.rec \in Records /\ Top.pos \in 1..Len(Top.rec)
    BY <1>2, <1>3, RecordAssumption DEF Frames
  <2> HIDE DEF below
  <2>3. /\ Lookups(Top.rec, below) \in Seq(Nat)
        /\ Len(Lookups(Top.rec, below)) = Len(Top.rec)
        /\ Lookups(Top.rec, below)[Top.pos] = LookupsOf(Top.rec, Top.pos, below)
    BY <2>1, <2>2, LookupsAreNumbers
  <2>4. LookupsOf(Top.rec, Top.pos, below) \in Nat
    BY <2>2, <2>3
  <2> QED
    BY <2>4 DEF MechanismLookups, below
<1>10. Advanced = Append(Popped, next)
  BY DEF Advanced, next
<1> QED
  BY <1>2, <1>5, <1>6, <1>7, <1>8, <1>9, <1>10

\* The lookups of an include or redirect: its own and those of its target.
LEMMA ExpandingLookups ==
    ASSUME IInv, Expanding
    PROVE  /\ Handling /\ Mechanism.target \in Targets
           /\ Below(published)[Nest][Mechanism.target] \in Nat
           /\ MechanismLookups = 1 + Below(published)[Nest][Mechanism.target]
<1>1. Handling
  BY DEF Expanding
<1>2. ~Finished /\ Nest \in 1..Levels /\ published \in Worlds /\ Levels \in Nat
  BY <1>1, NestIsLevel, LimitAssumption DEF IInv, TypeOK, Worlds, Levels
<1>3. Top.rec \in Seq(Mechanisms) /\ Top.pos \in DOMAIN Top.rec
  BY <1>1, <1>2, TopFrame, RecordAssumption DEF IInv, Handling, Frames
<1>4. Mechanism = Top.rec[Top.pos] /\ Mechanism \in Mechanisms
  BY <1>3 DEF Mechanism
<1>5. Mechanism.target \in Targets
  BY <1>4 DEF Mechanisms, Targets
<1>6. Below(published)[Nest] \in [Targets -> Nat]
  BY <1>2, BelowByLevel
<1>7. Mechanism.kind # "lookup" /\ InForce(Top.rec, Mechanism)
  BY DEF Expanding, HasAll, InForce
<1> QED
  BY <1>1, <1>4, <1>5, <1>6, <1>7 DEF MechanismLookups, LookupsOf

\* Below one level, a target costs what its record costs a level deeper.
LEMMA BelowTarget ==
    ASSUME IInv, Handling, NEW t \in Targets
    PROVE  /\ t = Macro => Below(published)[Nest][t] = 0
           /\ t # Macro /\ published[t] # NoRecord =>
                 Below(published)[Nest][t]
                 = SumOf(Lookups(published[t], Below(published)[Nest - 1]))
<1>1. Nest \in 1..Levels /\ published \in Worlds
  BY NestIsLevel DEF IInv, TypeOK, Worlds
<1>2. Below(published)[Nest] = OneLevel(published, Below(published)[Nest - 1])
  BY <1>1, BelowByLevel
<1>3. Below(published)[Nest][t]
      = IF t = Macro \/ published[t] = NoRecord THEN 0
        ELSE SumOf(Lookups(published[t], Below(published)[Nest - 1]))
  BY <1>2 DEF OneLevel
<1> QED
  BY <1>3

-----------------------------------------------------------------------------
(* The balance is kept.                                                    *)

\* What a step that leaves the world alone has to show.
LEMMA BalanceByStep ==
    ASSUME UNCHANGED world, AllStand(stack'),
           Accounts(count', complete', Owed(published, stack'), CostIn(published, root))
    PROVE  CountInv'
  BY DEF CountInv, Balance, world

LEMMA BalanceNow ==
    ASSUME CountInv
    PROVE  /\ AllStand(stack)
           /\ Accounts(count, complete, Owed(published, stack), CostIn(published, root))
  BY DEF CountInv, Balance

LEMMA CostIsNumber ==
    ASSUME TypeOK
    PROVE  CostIn(published, root) \in Nat
<1>1. published \in Worlds /\ root \in Records /\ Levels \in 0..Levels
  BY LimitAssumption DEF TypeOK, Worlds, Levels
<1>2. Below(published)[Levels] \in [Targets -> Nat]
  BY <1>1, BelowByLevel
<1>3. Lookups(root, Below(published)[Levels]) \in Seq(Nat)
  BY <1>1, <1>2, LookupsAreNumbers
<1> QED
  BY <1>3, SumIsNumber DEF CostIn

\* The root's record at the outermost level.
LEMMA InitCount == Init => CountInv
<1> SUFFICES ASSUME Init PROVE CountInv
  OBVIOUS
<1> DEFINE call == [rec |-> root, pos |-> 1]
           none == <<>>
<1>1. /\ root \in Records /\ published \in Worlds /\ Levels \in Nat \ {0}
      /\ MaxLookups \in Nat /\ call \in Frames
  BY LimitAssumption DEF Init, Worlds, Levels, Frames
<1>2. none \in Seq(Frames) /\ Len(none) = 0 /\ stack = Append(none, call)
  BY DEF Init
<1>3. Stands(call) /\ call.pos = 1 /\ call.rec = root
  BY <1>1, RecordAssumption DEF Stands
<1> HIDE DEF none, call
<1>4. AllStand(none)
  BY <1>1, <1>2 DEF AllStand
<1>5. /\ AllStand(stack)
      /\ Owed(published, stack) = Owed(published, none) + Left(published, call, Levels)
  <2>1. Len(none) < Levels /\ Levels - Len(none) = Levels
    BY <1>1, <1>2
  <2> QED
    BY <1>1, <1>2, <1>3, <1>4, <2>1, OwedWithCall
<1>6. Owed(published, none) = 0
  <2>1. /\ LeftOfAll(published, none) \in Seq(Nat)
        /\ Len(LeftOfAll(published, none)) = 0
    BY <1>1, <1>2, <1>4, LeftNumbers
  <2> QED
    BY <2>1, SubtotalsAdd DEF Owed, SumOf, AddsUp
<1>7. Left(published, call, Levels) = CostIn(published, root)
  <2>1. Levels \in 0..Levels
    BY <1>1
  <2>2. Left(published, call, Levels) = SumOf(Lookups(call.rec, Below(published)[Levels]))
    BY <1>1, <1>3, <2>1, LeftByStep
  <2> QED
    BY <1>3, <2>2 DEF CostIn
<1>8. CostIn(published, root) \in Nat
  BY InitIInv, CostIsNumber DEF IInv
<1>9. Accounts(count, complete, Owed(published, stack), CostIn(published, root))
  BY <1>1, <1>5, <1>6, <1>7, <1>8 DEF Init, Accounts
<1> QED
  BY <1>5, <1>9 DEF CountInv, Balance

LEMMA ReturnCount ==
    ASSUME IInv, CountInv, Return
    PROVE  CountInv'
<1>1. ~Finished /\ TypeOK /\ AllStand(stack)
  BY BalanceNow DEF IInv, Return
<1>2. /\ AllStand(Popped) /\ Top \in Frames /\ Stands(Top) /\ Nest \in 0..Levels
      /\ Owed(published, Popped) \in Nat
      /\ Owed(published, stack) = Owed(published, Popped) + Left(published, Top, Nest)
  BY <1>1, OwedByTop
<1>3. Accounts(count, complete, Owed(published, stack), CostIn(published, root))
  BY BalanceNow
<1>4. Accounts(count, complete, Owed(published, Popped), CostIn(published, root))
  <2>1. CASE Over
    BY <1>1, <1>3, <2>1, LimitAssumption DEF Accounts, Over, TypeOK
  <2>2. CASE ~Over
    <3>1. Top.pos = Len(Top.rec) + 1
      BY <1>2, <2>2, RecordAssumption DEF Return, Stands, Frames
    <3>2. Left(published, Top, Nest) = 0
      <4>1. published \in Worlds
        BY <1>1 DEF TypeOK, Worlds
      <4> QED
        BY <1>2, <3>1, <4>1, LeftByStep
    <3> QED
      BY <1>2, <1>3, <3>2
  <2> QED
    BY <2>1, <2>2
<1>5. /\ AllStand(stack')
      /\ Accounts(count', complete', Owed(published, stack'), CostIn(published, root))
      /\ UNCHANGED world
  BY <1>2, <1>4 DEF Return
<1> QED
  BY <1>5, BalanceByStep

\* Only the balance is left to check of a mechanism that is handled: what was
\* owed is what it costs and what is owed after it.
LEMMA HandlingBalance ==
    ASSUME IInv, CountInv, Handling
    PROVE  /\ AllStand(Advanced) /\ AllStand(Popped)
           /\ MaxLookups \in Nat /\ count \in 0..MaxLookups
           /\ Owed(published, Popped) \in Nat /\ Owed(published, Advanced) \in Nat
           /\ MechanismLookups \in Nat /\ CostIn(published, root) \in Nat
           /\ count + MechanismLookups + Owed(published, Advanced) <= CostIn(published, root)
           /\ complete => count + MechanismLookups + Owed(published, Advanced)
                          = CostIn(published, root)
<1>1. ~Finished /\ TypeOK /\ AllStand(stack) /\ count \in 0..MaxLookups /\ MaxLookups \in Nat
  BY NestIsLevel, BalanceNow, LimitAssumption DEF IInv
<1>2. /\ AllStand(Advanced) /\ Owed(published, Advanced) \in Nat
      /\ MechanismLookups \in Nat /\ CostIn(published, root) \in Nat
      /\ Owed(published, stack) = MechanismLookups + Owed(published, Advanced)
  BY <1>1, OwedByAdvancing, CostIsNumber
<1>3. AllStand(Popped) /\ Owed(published, Popped) \in Nat
  BY <1>1, OwedByTop
<1>4. Accounts(count, complete, Owed(published, stack), CostIn(published, root))
  BY BalanceNow
<1> QED
  BY <1>1, <1>2, <1>3, <1>4 DEF Accounts

LEMMA CountLookupCount ==
    ASSUME IInv, CountInv, CountLookup
    PROVE  CountInv'
<1>1. Handling /\ Mechanism.kind = "lookup"
  BY DEF CountLookup
<1>2. MechanismLookups = 1
  BY <1>1 DEF MechanismLookups, LookupsOf, Mechanism
<1>3. Accounts(count', complete', Owed(published, stack'), CostIn(published, root))
  BY <1>1, <1>2, HandlingBalance DEF CountLookup, Accounts
<1>4. AllStand(stack') /\ UNCHANGED world
  BY <1>1, HandlingBalance DEF CountLookup
<1> QED
  BY <1>3, <1>4, BalanceByStep

LEMMA SkipCount ==
    ASSUME IInv, CountInv, SkipMechanism
    PROVE  CountInv'
<1>1. Handling /\ Mechanism.kind # "lookup" /\ ~Expanding
  BY DEF SkipMechanism
<1>2. MechanismLookups = 0
  <2>1. ~InForce(Top.rec, Mechanism)
    BY <1>1 DEF Expanding, HasAll, InForce
  <2> QED
    BY <1>1, <2>1 DEF MechanismLookups, LookupsOf, Mechanism
<1>3. Accounts(count', complete', Owed(published, stack'), CostIn(published, root))
  BY <1>1, <1>2, HandlingBalance DEF SkipMechanism, Accounts
<1>4. AllStand(stack') /\ UNCHANGED world
  BY <1>1, HandlingBalance DEF SkipMechanism
<1> QED
  BY <1>3, <1>4, BalanceByStep

\* The include that breaks the budget is part of the cost, so that is over, too.
LEMMA OverrunCount ==
    ASSUME IInv, CountInv, Overrun
    PROVE  CountInv'
<1>1. Handling /\ MechanismLookups \in Nat \ {0}
  BY ExpandingLookups DEF Overrun
<1>2. Accounts(count', complete', Owed(published, stack'), CostIn(published, root))
  BY <1>1, HandlingBalance DEF Overrun, Accounts
<1>3. AllStand(stack') /\ UNCHANGED world
  BY <1>1, HandlingBalance DEF Overrun
<1> QED
  BY <1>2, <1>3, BalanceByStep

LEMMA MacroCount ==
    ASSUME IInv, CountInv, MacroTarget
    PROVE  CountInv'
<1>1. Handling /\ count < MaxLookups /\ MechanismLookups = 1
  <2>1. Expanding /\ count < MaxLookups /\ Mechanism.target = Macro
    BY DEF MacroTarget, Recursing
  <2> QED
    BY <2>1, ExpandingLookups, BelowTarget
<1>2. Accounts(count', complete', Owed(published, stack'), CostIn(published, root))
  BY <1>1, HandlingBalance DEF MacroTarget, Accounts
<1>3. AllStand(stack') /\ UNCHANGED world
  BY <1>1, HandlingBalance DEF MacroTarget
<1> QED
  BY <1>2, <1>3, BalanceByStep

\* A target that is cut leaves an incomplete walk over the budget.
LEMMA CutCount ==
    ASSUME IInv, CountInv, CutTarget
    PROVE  CountInv'
<1>1. Handling
  BY DEF CutTarget, Recursing, Expanding
<1>2. Accounts(count', complete', Owed(published, stack'), CostIn(published, root))
  BY <1>1, HandlingBalance DEF CutTarget, Accounts
<1>3. AllStand(stack') /\ UNCHANGED world
  BY <1>1, HandlingBalance DEF CutTarget
<1> QED
  BY <1>2, <1>3, BalanceByStep

\* What a failed fetch hides is missing from the count.
LEMMA FetchFailsCount ==
    ASSUME IInv, CountInv, FetchFails
    PROVE  CountInv'
<1>1. Handling /\ count < MaxLookups /\ MechanismLookups \in Nat \ {0}
  BY ExpandingLookups DEF FetchFails, Recursing
<1>2. Accounts(count', complete', Owed(published, stack'), CostIn(published, root))
  BY <1>1, HandlingBalance DEF FetchFails, Accounts
<1>3. AllStand(stack') /\ UNCHANGED world
  BY <1>1, HandlingBalance DEF FetchFails
<1> QED
  BY <1>2, <1>3, BalanceByStep

\* The lookups of the target are now owed by its own call.
LEMMA FetchOkCount ==
    ASSUME IInv, CountInv, FetchOk
    PROVE  CountInv'
<1> DEFINE t == Mechanism.target
           call == [rec |-> published[t], pos |-> 1]
<1>1. /\ Expanding /\ Handling /\ count < MaxLookups
      /\ t \in Targets /\ t # Macro /\ published[t] # NoRecord
  BY ExpandingLookups DEF FetchOk, Recursing
<1>2. TypeOK /\ ~Finished /\ published \in Worlds
  BY <1>1, NestIsLevel DEF IInv, TypeOK, Worlds
<1>3. call \in Frames /\ Stands(call) /\ call.pos = 1 /\ call.rec = published[t]
  <2>1. published[t] \in Records
    BY <1>1, <1>2 DEF Worlds, Targets
  <2>2. Len(published[t]) \in Nat
    BY <2>1, RecordAssumption
  <2> QED
    BY <2>1, <2>2 DEF Frames, Stands
<1> HIDE DEF call, t
<1>4. /\ Advanced \in Seq(Frames) /\ Len(Advanced) = Depth + 1 /\ AllStand(Advanced)
      /\ Depth + 1 < Levels /\ Nest - 1 \in 0..Levels /\ Levels - (Depth + 1) = Nest - 1
  <2>1. /\ Depth \in Nat /\ Depth <= count /\ Len(stack) = Depth + 1
        /\ count \in Nat /\ MaxLookups \in Nat
    BY <1>1, NestIsLevel, LimitAssumption
  <2>2. Advanced \in Seq(Frames) /\ Len(Advanced) = Len(stack) /\ AllStand(Advanced)
    BY <1>1, <1>2, AdvancedStack, HandlingBalance
  <2> QED
    BY <1>1, <2>1, <2>2 DEF Nest, Levels
<1>5. /\ AllStand(Append(Advanced, call))
      /\ Owed(published, Append(Advanced, call))
         = Owed(published, Advanced) + Left(published, call, Nest - 1)
  BY <1>2, <1>3, <1>4, OwedWithCall
<1>6. /\ Left(published, call, Nest - 1) = Below(published)[Nest][t]
      /\ Left(published, call, Nest - 1) \in Nat
  <2>1. /\ Left(published, call, Nest - 1) \in Nat
        /\ Left(published, call, Nest - 1)
           = SumOf(Lookups(call.rec, Below(published)[Nest - 1]))
    BY <1>2, <1>3, <1>4, LeftByStep
  <2> QED
    BY <1>1, <1>3, <2>1, BelowTarget
<1>7. MechanismLookups = 1 + Below(published)[Nest][t]
  BY <1>1, ExpandingLookups DEF t
<1>8. /\ stack' = Append(Advanced, call) /\ count' = count + 1
      /\ UNCHANGED <<world, complete>>
  BY DEF FetchOk, call, t
<1>9. Accounts(count', complete', Owed(published, stack'), CostIn(published, root))
  <2>1. /\ Owed(published, stack')
           = Owed(published, Advanced) + Left(published, call, Nest - 1)
        /\ MechanismLookups = 1 + Left(published, call, Nest - 1)
        /\ Left(published, call, Nest - 1) \in Nat
        /\ count' = count + 1 /\ complete' = complete /\ count < MaxLookups
    BY <1>1, <1>5, <1>6, <1>7, <1>8
  <2> QED
    BY <1>1, <2>1, HandlingBalance DEF Accounts
<1> QED
  BY <1>5, <1>8, <1>9, BalanceByStep

LEMMA StutterCount ==
    ASSUME CountInv, UNCHANGED vars
    PROVE  CountInv'
  BY DEF CountInv, vars

LEMMA NextCount == IInv /\ CountInv /\ [Next]_vars => CountInv'
  BY ReturnCount, CountLookupCount, SkipCount, OverrunCount, MacroCount, CutCount,
     FetchFailsCount, FetchOkCount, StutterCount
     DEF Next

THEOREM BalanceIsKept == Spec => []CountInv
  BY InitCount, NextCount, Invariance, PTL DEF Spec
-----------------------------------------------------------------------------
\* At the end nothing is owed: within the budget the count is the cost of a
\* complete walk and at most that of an incomplete one, and a complete walk is
\* over the budget only if the cost is.
LEMMA FinalBalance ==
    ASSUME TypeOK, CountInv, Finished
    PROVE  /\ count \in Nat /\ MaxLookups \in Nat /\ Cost \in Nat
           /\ ~Over => count <= Cost
           /\ ~Over /\ complete => count = Cost
           /\ Over /\ complete => Cost > MaxLookups
<1>1. Cost = CostIn(published, root) /\ Cost \in Nat
  BY CostIsNumber DEF Cost, CostIn, Levels
<1>2. AllStand(stack) /\ Accounts(count, complete, Owed(published, stack), Cost)
  BY <1>1, BalanceNow
<1>3. Owed(published, stack) = 0
  <2>1. stack \in Seq(Frames) /\ Len(stack) = 0 /\ published \in Worlds
    BY DEF TypeOK, Finished, Worlds
  <2>2. /\ LeftOfAll(published, stack) \in Seq(Nat)
        /\ Len(LeftOfAll(published, stack)) = 0
    BY <1>2, <2>1, LeftNumbers
  <2> QED
    BY <2>2, SubtotalsAdd DEF Owed, SumOf, AddsUp
<1> QED
  BY <1>1, <1>2, <1>3, LimitAssumption DEF TypeOK, Accounts, Over

\* What a complete walk of countSPFLookups reports is what the evaluation of
\* the record costs, 11 for all that is over the budget (spf_lookup.go:25-27),
\* whatever the records are and however they include each other.
THEOREM CountIsExact == Spec => []CompleteCountIsExact
<1>1. TypeOK /\ CountInv => CompleteCountIsExact
  BY FinalBalance DEF CompleteCountIsExact, Reported, Smaller, Over
<1> QED
  BY <1>1, TypeCorrect, BalanceIsKept, PTL

\* Within the budget an incomplete walk reports no more than the evaluation
\* costs (spf_lookup.go:28-30, 100-106): a failed fetch, a macro or both can
\* hide lookups but never invent them.
THEOREM CountNeverExceeds == Spec => []InBudgetCountIsLowerBound
<1>1. TypeOK /\ CountInv => InBudgetCountIsLowerBound
  BY FinalBalance DEF InBudgetCountIsLowerBound, Reported
<1> QED
  BY <1>1, TypeCorrect, BalanceIsKept, PTL
=============================================================================
