----------------------------- MODULE ListProofs -----------------------------
(***************************************************************************)
(* Induction over numbers and sequences, and what the loops of Lists and   *)
(* FlattenSeq compute.                                                     *)
(*                                                                         *)
(* The induction rules are over sets, P being the set of the values that   *)
(* have the property; they rest on the least element of a set of numbers.  *)
(***************************************************************************)
EXTENDS Lists, FiniteSets, SequencesExt, FiniteSetTheorems, WellFoundedInduction, TLAPS

\* A set of numbers that is not empty has a least one.
LEMMA LeastExists ==
    ASSUME NEW S, S \subseteq Nat, S # {}
    PROVE  \E p \in S : \A q \in S : p <= q
<1>1. PICK p \in S : \A q \in S : <<q, p>> \notin OpToRel(<, Nat)
  BY NatLessThanWellFounded, WFMin
<1>2. ASSUME NEW q \in S
      PROVE  p <= q
  <2>1. p \in Nat /\ q \in Nat
    OBVIOUS
  <2>2. <<q, p>> \notin OpToRel(<, Nat)
    BY <1>1, <1>2
  <2>3. ~(q < p)
    BY <2>1, <2>2 DEF OpToRel
  <2> QED
    BY <2>1, <2>3
<1> QED
  BY <1>2

\* Induction over an interval.
LEMMA IntervalInduction ==
    ASSUME NEW N \in Nat, NEW P, 0 \in P, \A n \in 0..(N - 1) : n \in P => n + 1 \in P
    PROVE  \A n \in 0..N : n \in P
<1> DEFINE bad == (0..N) \ P
<1> SUFFICES ASSUME bad # {} PROVE FALSE
  OBVIOUS
<1>1. PICK p \in bad : \A q \in bad : p <= q
  <2>1. bad \subseteq Nat
    OBVIOUS
  <2> HIDE DEF bad
  <2> QED
    BY <2>1, LeastExists
<1>2. p \in 1..N /\ p - 1 \in 0..(N - 1) /\ (p - 1) + 1 = p
  OBVIOUS
<1>3. p - 1 \in P
  BY <1>1, <1>2
<1> QED
  BY <1>2, <1>3

\* What a recursion over an index may compute.
Solutions(N, T, base, step) ==
    {f \in [0..N -> T] : f[0] = base /\ \A n \in 1..N : f[n] = step[n][f[n - 1]]}

\* A recursion has a solution,
LEMMA RecursionExists ==
    ASSUME NEW N \in Nat, NEW T, NEW base \in T, NEW step \in [1..N -> [T -> T]]
    PROVE  Solutions(N, T, base, step) # {}
<1> DEFINE Fits(f, n) == /\ f \in [0..n -> T] /\ f[0] = base
                         /\ \A k \in 1..n : f[k] = step[k][f[k - 1]]
           P == {n \in 0..N : \E f \in [0..n -> T] : Fits(f, n)}
<1>1. 0 \in P
  <2> DEFINE f == [n \in 0..0 |-> base]
  <2>1. f \in [0..0 -> T] /\ f[0] = base
    OBVIOUS
  <2> HIDE DEF f
  <2>2. Fits(f, 0)
    BY <2>1
  <2> HIDE DEF Fits
  <2> QED
    BY <2>1, <2>2
<1>2. ASSUME NEW n \in 0..(N - 1), n \in P
      PROVE  n + 1 \in P
  <2>1. PICK f \in [0..n -> T] : Fits(f, n)
    BY <1>2
  <2> DEFINE g == [k \in 0..(n + 1) |-> IF k <= n THEN f[k] ELSE step[n + 1][f[n]]]
  <2>2. f[n] \in T /\ n + 1 \in 1..N /\ step[n + 1][f[n]] \in T
    OBVIOUS
  <2>3. g \in [0..(n + 1) -> T]
    BY <2>2
  <2>4. g[0] = base /\ g[n + 1] = step[n + 1][f[n]] /\ \A k \in 0..n : g[k] = f[k]
    BY <2>1
  <2> HIDE DEF g
  <2>5. \A k \in 1..(n + 1) : g[k] = step[k][g[k - 1]]
    <3> TAKE k \in 1..(n + 1)
    <3>1. CASE k = n + 1
      BY <3>1, <2>4
    <3>2. CASE k \in 1..n
      BY <3>2, <2>4, <2>1
    <3> QED
      BY <3>1, <3>2
  <2> QED
    BY <2>3, <2>4, <2>5
<1> HIDE DEF P
<1>3. \A n \in 0..N : n \in P
  BY <1>1, <1>2, IntervalInduction
<1>4. N \in P
  BY <1>3
<1> QED
  BY <1>4 DEF Solutions, P

\* Two runs of a recursion, and that they give the same.
StartAlike(f, g, N) == f[0] = g[0] /\ \A n \in 1..N : f[n - 1] = g[n - 1] => f[n] = g[n]
Alike(f, g, N) == \A n \in 0..N : f[n] = g[n]

\* and only one.
LEMMA RecursionIsUnique ==
    ASSUME NEW N \in Nat, NEW f, NEW g, StartAlike(f, g, N)
    PROVE  Alike(f, g, N)
<1> DEFINE P == {n \in 0..N : f[n] = g[n]}
<1>1. 0 \in P
  BY DEF StartAlike
<1>2. ASSUME NEW n \in 0..(N - 1), n \in P
      PROVE  n + 1 \in P
  <2>1. n + 1 \in 1..N /\ (n + 1) - 1 = n
    OBVIOUS
  <2> QED
    BY <1>2, <2>1 DEF StartAlike
<1> HIDE DEF P
<1>3. \A n \in 0..N : n \in P
  BY <1>1, <1>2, IntervalInduction
<1> QED
  BY <1>3 DEF P, Alike

\* Induction over the sequences of a set.
LEMMA ListInduction ==
    ASSUME NEW U, NEW P, <<>> \in P,
           \A s \in Seq(U) : \A x \in U : s \in P => Append(s, x) \in P
    PROVE  Seq(U) \subseteq P
<1> SUFFICES ASSUME NEW t \in Seq(U) PROVE t \in P
  OBVIOUS
<1> DEFINE N == Len(t)
           S == {n \in 0..N : SubSeq(t, 1, n) \in P}
<1>1. N \in Nat /\ SubSeq(t, 1, N) = t /\ SubSeq(t, 1, 0) = <<>>
  OBVIOUS
<1>2. \A n \in 0..(N - 1) :
         /\ SubSeq(t, 1, n) \in Seq(U) /\ t[n + 1] \in U
         /\ SubSeq(t, 1, n + 1) = Append(SubSeq(t, 1, n), t[n + 1])
  OBVIOUS
<1> HIDE DEF N
<1>3. 0 \in S
  <2>1. 0 \in 0..N
    BY <1>1
  <2>2. SubSeq(t, 1, 0) \in P
    BY <1>1, Zenon
  <2> QED
    BY <2>1, <2>2
<1>4. ASSUME NEW n \in 0..(N - 1), n \in S
      PROVE  n + 1 \in S
  <2>1. SubSeq(t, 1, n + 1) \in P
    BY <1>2, <1>4
  <2> QED
    BY <1>1, <2>1
<1> HIDE DEF S
<1>5. \A n \in 0..N : n \in S
  BY <1>1, <1>3, <1>4, IntervalInduction
<1>6. N \in S
  BY <1>1, <1>5
<1> QED
  BY <1>1, <1>6 DEF S
-----------------------------------------------------------------------------
(* The elements of a sequence.                                             *)

LEMMA ElementsOfNone == ToSet(<<>>) = {}
BY DEF ToSet

LEMMA ElementsOfAppend ==
    ASSUME NEW U, NEW s \in Seq(U), NEW x \in U
    PROVE  ToSet(Append(s, x)) = ToSet(s) \cup {x}
<1> DEFINE len == Len(s)
           t == Append(s, x)
<1>1. /\ len \in Nat /\ DOMAIN s = 1..len /\ DOMAIN t = 1..(len + 1)
      /\ t[len + 1] = x /\ \A k \in 1..len : t[k] = s[k]
  OBVIOUS
<1> HIDE DEF len, t
<1>2. \A k \in 1..(len + 1) : k \in 1..len \/ k = len + 1
  BY <1>1
<1>3. {t[k] : k \in 1..(len + 1)} = {s[k] : k \in 1..len} \cup {x}
  BY <1>1, <1>2
<1> QED
  BY <1>1, <1>3 DEF ToSet, t

LEMMA ElementsOfConcat ==
    ASSUME NEW U, NEW s \in Seq(U), NEW t \in Seq(U)
    PROVE  ToSet(s \o t) = ToSet(s) \cup ToSet(t)
<1> DEFINE m == Len(s)
           n == Len(t)
           st == s \o t
<1>1. /\ m \in Nat /\ n \in Nat /\ DOMAIN s = 1..m /\ DOMAIN t = 1..n
      /\ DOMAIN st = 1..(m + n) /\ \A k \in 1..m : st[k] = s[k]
      /\ \A k \in 1..n : st[m + k] = t[k]
  OBVIOUS
<1> HIDE DEF m, n, st
<1>2. ASSUME NEW x \in ToSet(st)
      PROVE  x \in ToSet(s) \cup ToSet(t)
  <2>1. PICK k \in 1..(m + n) : x = st[k]
    BY <1>1 DEF ToSet
  <2>2. CASE k \in 1..m
    BY <2>1, <2>2, <1>1 DEF ToSet
  <2>3. CASE k - m \in 1..n
    <3>1. k = m + (k - m)
      BY <1>1
    <3> QED
      BY <2>1, <2>3, <3>1, <1>1 DEF ToSet
  <2> QED
    BY <2>2, <2>3, <1>1
<1>3. ASSUME NEW x \in ToSet(s) \cup ToSet(t)
      PROVE  x \in ToSet(st)
  <2>1. \A k \in 1..m : k \in 1..(m + n)
    BY <1>1
  <2>2. \A k \in 1..n : m + k \in 1..(m + n)
    BY <1>1
  <2> QED
    BY <2>1, <2>2, <1>1 DEF ToSet
<1> QED
  BY <1>2, <1>3 DEF st
-----------------------------------------------------------------------------
(* Filter.                                                                 *)

FilterSteps(s, S, kept) ==
    /\ kept[0] = <<>>
    /\ \A n \in 1..Len(s) :
          kept[n] = IF s[n] \in S THEN Append(kept[n - 1], s[n]) ELSE kept[n - 1]

\* Its loop.
LEMMA FilterLoop ==
    ASSUME NEW U, NEW s \in Seq(U), NEW S
    PROVE  \E kept \in [0..Len(s) -> Seq(U)] :
              FilterSteps(s, S, kept) /\ Filter(s, S) = kept[Len(s)]
<1> DEFINE N == Len(s)
           T == Seq(U)
           base == <<>>
           After(n, l) == IF s[n] \in S THEN Append(l, s[n]) ELSE l
           step == [n \in 1..N |-> [l \in T |-> After(n, l)]]
           Fits(f) == f = [n \in 0..N |->
                            IF n = 0 THEN <<>>
                            ELSE IF s[n] \in S THEN Append(f[n - 1], s[n]) ELSE f[n - 1]]
           kept == CHOOSE f : Fits(f)
<1>1. N \in Nat /\ base \in T /\ \A n \in 1..N : \A l \in T : After(n, l) \in T
  OBVIOUS
<1>2. Filter(s, S) = kept[N]
  BY Zenon DEF Filter
<1>3. \A f : Fits(f) <=> f = [n \in 0..N |-> IF n = 0 THEN base ELSE After(n, f[n - 1])]
  OBVIOUS
<1> HIDE DEF N, T, base, After, Fits
<1>4. step \in [1..N -> [T -> T]] /\ \A n \in 1..N : \A l \in T : step[n][l] = After(n, l)
  BY <1>1
<1> HIDE DEF step
<1>5. PICK f \in [0..N -> T] : f[0] = base /\ \A n \in 1..N : f[n] = step[n][f[n - 1]]
  <2>1. Solutions(N, T, base, step) # {}
    BY <1>1, <1>4, RecursionExists
  <2> QED
    BY <2>1 DEF Solutions
<1>6. \A n \in 1..N : f[n] = After(n, f[n - 1])
  <2> TAKE n \in 1..N
  <2>1. n - 1 \in 0..N
    BY <1>1
  <2> QED
    BY <1>4, <1>5, <2>1
<1>7. Fits(f)
  <2>1. f = [n \in 0..N |-> IF n = 0 THEN base ELSE After(n, f[n - 1])]
    BY <1>1, <1>5, <1>6
  <2> QED
    BY <1>3, <2>1
<1>8. Fits(kept)
  BY <1>7
<1> HIDE DEF kept
<1>9. /\ kept[0] = base /\ \A n \in 1..N : kept[n] = After(n, kept[n - 1])
  <2>1. kept = [n \in 0..N |-> IF n = 0 THEN base ELSE After(n, kept[n - 1])]
    BY <1>3, <1>8
  <2> DEFINE k == kept
  <2> HIDE DEF k
  <2>2. kept = [n \in 0..N |-> IF n = 0 THEN base ELSE After(n, k[n - 1])]
    BY <2>1 DEF k
  <2> QED
    BY <1>1, <2>2 DEF k
<1>10. \A n \in 0..N : f[n] = kept[n]
  <2>1. StartAlike(f, kept, N)
    BY <1>1, <1>5, <1>6, <1>9 DEF StartAlike
  <2> QED
    BY <1>1, <2>1, RecursionIsUnique DEF Alike
<1>11. kept \in [0..N -> T]
  <2>1. DOMAIN kept = 0..N
    BY <1>3, <1>8
  <2>2. kept = [n \in 0..N |-> kept[n]]
    BY <1>3, <1>8
  <2> QED
    BY <1>5, <1>10, <2>2
<1> QED
  BY <1>2, <1>9, <1>11 DEF After, N, T, base, FilterSteps

LEMMA FilterNone == ASSUME NEW S PROVE Filter(<<>>, S) = <<>>
<1> DEFINE s == <<>>
<1>1. s \in Seq({}) /\ Len(s) = 0
  OBVIOUS
<1> HIDE DEF s
<1>2. PICK kept \in [0..Len(s) -> Seq({})] :
         FilterSteps(s, S, kept) /\ Filter(s, S) = kept[Len(s)]
  BY <1>1, FilterLoop
<1>3. Filter(s, S) = <<>>
  BY <1>1, <1>2, Zenon DEF FilterSteps
<1> QED
  BY <1>3 DEF s

LEMMA FilterAppend ==
    ASSUME NEW U, NEW s \in Seq(U), NEW x \in U, NEW S
    PROVE  /\ Filter(s, S) \in Seq(U)
           /\ x \in S => Filter(Append(s, x), S) = Append(Filter(s, S), x)
           /\ x \notin S => Filter(Append(s, x), S) = Filter(s, S)
<1> DEFINE t == Append(s, x)
           N == Len(s)
<1>1. /\ N \in Nat /\ t \in Seq(U) /\ Len(t) = N + 1 /\ t[N + 1] = x
      /\ \A n \in 1..N : t[n] = s[n]
  OBVIOUS
<1> HIDE DEF t, N
<1>2. PICK f \in [0..N -> Seq(U)] : FilterSteps(s, S, f) /\ Filter(s, S) = f[N]
  BY FilterLoop DEF N
<1>3. PICK g \in [0..Len(t) -> Seq(U)] : FilterSteps(t, S, g) /\ Filter(t, S) = g[Len(t)]
  BY <1>1, FilterLoop
<1>4. g[N] = f[N]
  <2>1. f[0] = g[0]
    BY <1>2, <1>3 DEF FilterSteps
  <2>2. ASSUME NEW n \in 1..N, f[n - 1] = g[n - 1]
        PROVE  f[n] = g[n]
    <3>1. n \in 1..(N + 1) /\ t[n] = s[n]
      BY <1>1
    <3>2. g[n] = IF s[n] \in S THEN Append(f[n - 1], s[n]) ELSE f[n - 1]
      BY <1>1, <1>3, <2>2, <3>1, Zenon DEF FilterSteps
    <3> QED
      BY <1>2, <3>2, Zenon DEF FilterSteps, N
  <2>3. \A n \in 0..N : f[n] = g[n]
    <3>1. StartAlike(f, g, N)
      BY <2>1, <2>2 DEF StartAlike
    <3>2. Alike(f, g, N)
      BY <1>1, <3>1, RecursionIsUnique
    <3> QED
      BY <3>2 DEF Alike
  <2> QED
    BY <1>1, <2>3
<1>5. N + 1 \in 1..(N + 1) /\ (N + 1) - 1 = N /\ N \in 0..N
  BY <1>1
<1>6. g[N + 1] = IF x \in S THEN Append(g[N], x) ELSE g[N]
  BY <1>1, <1>3, <1>5 DEF FilterSteps
<1> QED
  BY <1>1, <1>2, <1>3, <1>4, <1>5, <1>6 DEF t

\* What is kept.
LEMMA FilterKeeps ==
    ASSUME NEW U, NEW S, NEW s \in Seq(U)
    PROVE  /\ Filter(s, S) \in Seq(U) /\ ToSet(Filter(s, S)) = ToSet(s) \cap S
           /\ Len(Filter(s, S)) <= Len(s)
<1> DEFINE Good(l) == /\ ToSet(Filter(l, S)) = ToSet(l) \cap S
                      /\ Len(Filter(l, S)) <= Len(l)
           P == {l \in Seq(U) : Good(l)}
<1>1. <<>> \in P
  <2>1. Good(<<>>)
    BY FilterNone, ElementsOfNone
  <2> QED
    BY <2>1
<1>2. ASSUME NEW l \in Seq(U), NEW x \in U, l \in P
      PROVE  Append(l, x) \in P
  <2>1. /\ Filter(l, S) \in Seq(U)
        /\ x \in S => Filter(Append(l, x), S) = Append(Filter(l, S), x)
        /\ x \notin S => Filter(Append(l, x), S) = Filter(l, S)
    BY FilterAppend
  <2>2. /\ ToSet(Append(l, x)) = ToSet(l) \cup {x}
        /\ ToSet(Append(Filter(l, S), x)) = ToSet(Filter(l, S)) \cup {x}
    BY <2>1, ElementsOfAppend
  <2>3. /\ Len(Append(l, x)) = Len(l) + 1
        /\ Len(Append(Filter(l, S), x)) = Len(Filter(l, S)) + 1
        /\ Len(l) \in Nat /\ Len(Filter(l, S)) \in Nat /\ Append(l, x) \in Seq(U)
    BY <2>1
  <2>4. CASE x \in S
    <3>1. Filter(Append(l, x), S) = Append(Filter(l, S), x)
      BY <2>1, <2>4
    <3>2. Good(Append(l, x))
      BY <1>2, <2>2, <2>3, <2>4, <3>1
    <3> QED
      BY <2>3, <3>2
  <2>5. CASE x \notin S
    <3>1. Filter(Append(l, x), S) = Filter(l, S)
      BY <2>1, <2>5
    <3>2. Good(Append(l, x))
      BY <1>2, <2>2, <2>3, <2>5, <3>1
    <3> QED
      BY <2>3, <3>2
  <2> QED
    BY <2>4, <2>5
<1> HIDE DEF P
<1>3. Seq(U) \subseteq P
  BY <1>1, <1>2, ListInduction
<1>4. Filter(s, S) \in Seq(U)
  <2>1. CASE U = {}
    <3>1. s = <<>>
      BY <2>1
    <3> QED
      BY <3>1, FilterNone
  <2>2. ASSUME NEW x \in U
        PROVE  Filter(s, S) \in Seq(U)
    BY FilterAppend
  <2> QED
    BY <2>1, <2>2
<1> QED
  BY <1>3, <1>4 DEF P

\* It depends only on which of the elements are to be kept.
LEMMA FilterAgrees ==
    ASSUME NEW U, NEW S, NEW R, NEW s \in Seq(U), ToSet(s) \cap S = ToSet(s) \cap R
    PROVE  Filter(s, S) = Filter(s, R)
<1> DEFINE Good(l) == ToSet(l) \cap S = ToSet(l) \cap R => Filter(l, S) = Filter(l, R)
           P == {l \in Seq(U) : Good(l)}
<1>1. <<>> \in P
  BY FilterNone
<1>2. ASSUME NEW l \in Seq(U), NEW x \in U, l \in P
      PROVE  Append(l, x) \in P
  <2>1. SUFFICES ASSUME ToSet(Append(l, x)) \cap S = ToSet(Append(l, x)) \cap R
                 PROVE  Filter(Append(l, x), S) = Filter(Append(l, x), R)
    OBVIOUS
  <2>2. ToSet(Append(l, x)) = ToSet(l) \cup {x}
    BY ElementsOfAppend
  <2>3. Filter(l, S) = Filter(l, R) /\ (x \in S <=> x \in R)
    BY <1>2, <2>1, <2>2
  <2>4. CASE x \in S
    <3>1. Filter(l, S) \in Seq(U) /\ Filter(Append(l, x), S) = Append(Filter(l, S), x)
      BY <2>4, FilterAppend
    <3>2. Filter(l, R) \in Seq(U) /\ Filter(Append(l, x), R) = Append(Filter(l, R), x)
      BY <2>3, <2>4, FilterAppend
    <3> QED
      BY <2>3, <3>1, <3>2
  <2>5. CASE x \notin S
    <3>1. /\ Filter(Append(l, x), S) = Filter(l, S)
          /\ Filter(Append(l, x), R) = Filter(l, R)
      BY <2>3, <2>5, FilterAppend
    <3> QED
      BY <2>3, <3>1
  <2> QED
    BY <2>4, <2>5
<1> HIDE DEF P
<1>3. Seq(U) \subseteq P
  BY <1>1, <1>2, ListInduction
<1> QED
  BY <1>3 DEF P

\* One list after another.
LEMMA FilterConcat ==
    ASSUME NEW U, NEW S, NEW s \in Seq(U), NEW t \in Seq(U)
    PROVE  Filter(s \o t, S) = Filter(s, S) \o Filter(t, S)
<1> DEFINE P == {l \in Seq(U) : Filter(s \o l, S) = Filter(s, S) \o Filter(l, S)}
<1>0. Filter(s, S) \in Seq(U)
  BY FilterKeeps
<1>1. <<>> \in P
  <2>1. s \o <<>> = s /\ Filter(s, S) \o <<>> = Filter(s, S) /\ <<>> \in Seq(U)
    BY <1>0
  <2>2. Filter(s \o <<>>, S) = Filter(s, S) \o Filter(<<>>, S)
    BY <2>1, FilterNone, Zenon
  <2> QED
    BY <2>1, <2>2
<1>2. ASSUME NEW l \in Seq(U), NEW x \in U, l \in P
      PROVE  Append(l, x) \in P
  <2>1. s \o Append(l, x) = Append(s \o l, x) /\ s \o l \in Seq(U) /\ Append(l, x) \in Seq(U)
    OBVIOUS
  <2> DEFINE Good(k) == /\ Filter(k, S) \in Seq(U)
                        /\ x \in S => Filter(Append(k, x), S) = Append(Filter(k, S), x)
                        /\ x \notin S => Filter(Append(k, x), S) = Filter(k, S)
  <2>2. \A k \in Seq(U) : Good(k)
    <3>1. \A k \in Seq(U) : Filter(k, S) \in Seq(U)
      BY FilterKeeps
    <3>2. x \in S => \A k \in Seq(U) : Filter(Append(k, x), S) = Append(Filter(k, S), x)
      BY FilterAppend
    <3>3. x \notin S => \A k \in Seq(U) : Filter(Append(k, x), S) = Filter(k, S)
      BY FilterAppend
    <3> QED
      BY <3>1, <3>2, <3>3, Zenon
  <2>3. Good(l) /\ Good(s \o l)
    <3> HIDE DEF Good
    <3> QED
      BY <2>1, <2>2
  <2>4. Filter(s, S) \o Append(Filter(l, S), x) = Append(Filter(s, S) \o Filter(l, S), x)
    <3>1. Filter(l, S) \in Seq(U)
      BY FilterKeeps
    <3> QED
      BY <1>0, <3>1
  <2>5. Filter(s \o l, S) = Filter(s, S) \o Filter(l, S)
    BY <1>2
  <2>6. Filter(s \o Append(l, x), S) = Filter(s, S) \o Filter(Append(l, x), S)
    BY <2>1, <2>3, <2>4, <2>5, Zenon
  <2> QED
    BY <2>1, <2>6
<1> HIDE DEF P
<1>3. Seq(U) \subseteq P
  BY <1>1, <1>2, ListInduction
<1> QED
  BY <1>3 DEF P

\* All of them kept, and none of them.
LEMMA FilterAll ==
    ASSUME NEW U, NEW S, NEW s \in Seq(U), ToSet(s) \subseteq S
    PROVE  Filter(s, S) = s
<1> DEFINE Good(l) == ToSet(l) \subseteq S => Filter(l, S) = l
           P == {l \in Seq(U) : Good(l)}
<1>1. <<>> \in P
  BY FilterNone
<1>2. ASSUME NEW l \in Seq(U), NEW x \in U, l \in P
      PROVE  Append(l, x) \in P
  <2>1. ToSet(Append(l, x)) = ToSet(l) \cup {x} /\ Append(l, x) \in Seq(U)
    BY ElementsOfAppend
  <2>2. x \in S => Filter(Append(l, x), S) = Append(Filter(l, S), x)
    BY FilterAppend
  <2>3. Good(l)
    BY <1>2
  <2>4. Good(Append(l, x))
    BY <2>1, <2>2, <2>3
  <2> QED
    BY <2>1, <2>4
<1> HIDE DEF P
<1>3. Seq(U) \subseteq P
  BY <1>1, <1>2, ListInduction
<1> QED
  BY <1>3 DEF P

LEMMA FilterOut ==
    ASSUME NEW U, NEW S, NEW s \in Seq(U), ToSet(s) \cap S = {}
    PROVE  Filter(s, S) = <<>>
<1> DEFINE kept == Filter(s, S)
<1>1. kept \in Seq(U) /\ ToSet(kept) = {}
  BY FilterKeeps
<1> HIDE DEF kept
<1>2. Len(kept) \in Nat /\ \A k \in 1..Len(kept) : kept[k] \in ToSet(kept)
  BY <1>1 DEF ToSet
<1>3. Len(kept) = 0
  BY <1>1, <1>2
<1>4. kept = <<>>
  BY <1>1, <1>3
<1> QED
  BY <1>4 DEF kept

\* A selection from a list that grows.
LEMMA FilterGrows ==
    ASSUME NEW U, NEW K, NEW s \in Seq(U), NEW t \in Seq(U)
    PROVE  Filter(s \o t, ToSet(s \o t) \cap K) = Filter(s, ToSet(s) \cap K) \o Filter(t, K)
<1>1. s \o t \in Seq(U)
  OBVIOUS
<1>2. Filter(s \o t, ToSet(s \o t) \cap K) = Filter(s \o t, K)
  <2> DEFINE st == s \o t
  <2> HIDE DEF st
  <2>1. st \in Seq(U) /\ ToSet(st) \cap (ToSet(st) \cap K) = ToSet(st) \cap K
    BY <1>1 DEF st
  <2>2. Filter(st, ToSet(st) \cap K) = Filter(st, K)
    BY <2>1, FilterAgrees
  <2> QED
    BY <2>2 DEF st
<1>3. Filter(s, ToSet(s) \cap K) = Filter(s, K)
  <2>1. ToSet(s) \cap (ToSet(s) \cap K) = ToSet(s) \cap K
    OBVIOUS
  <2> QED
    BY <2>1, FilterAgrees
<1>4. Filter(s \o t, K) = Filter(s, K) \o Filter(t, K)
  BY FilterConcat
<1> QED
  BY <1>2, <1>3, <1>4, Zenon

LEMMA InjectiveAppend ==
    ASSUME NEW U, NEW s \in Seq(U), NEW x \in U, IsInjective(s), x \notin ToSet(s)
    PROVE  IsInjective(Append(s, x))
<1> DEFINE len == Len(s)
           t == Append(s, x)
<1>1. /\ len \in Nat /\ DOMAIN s = 1..len /\ DOMAIN t = 1..(len + 1)
      /\ t[len + 1] = x /\ \A k \in 1..len : t[k] = s[k]
  OBVIOUS
<1>2. \A k \in 1..len : s[k] # x
  BY <1>1 DEF ToSet
<1>3. \A k \in 1..(len + 1) : k \in 1..len \/ k = len + 1
  BY <1>1
<1> HIDE DEF t, len
<1> QED
  BY <1>1, <1>2, <1>3 DEF IsInjective, t

LEMMA InjectivePrefix ==
    ASSUME NEW U, NEW s \in Seq(U), NEW x \in U, IsInjective(Append(s, x))
    PROVE  IsInjective(s) /\ x \notin ToSet(s)
<1> DEFINE len == Len(s)
           t == Append(s, x)
<1>1. /\ len \in Nat /\ DOMAIN s = 1..len /\ DOMAIN t = 1..(len + 1)
      /\ t[len + 1] = x /\ \A k \in 1..len : t[k] = s[k]
  OBVIOUS
<1> HIDE DEF t, len
<1>2. \A k \in 1..len : k \in 1..(len + 1) /\ k # len + 1 /\ len + 1 \in 1..(len + 1)
  BY <1>1
<1>3. \A j, k \in 1..(len + 1) : t[j] = t[k] => j = k
  BY <1>1 DEF IsInjective, t
<1> QED
  BY <1>1, <1>2, <1>3 DEF IsInjective, ToSet

\* What comes once is kept once.
LEMMA FilterInjective ==
    ASSUME NEW U, NEW S, NEW s \in Seq(U), IsInjective(s)
    PROVE  IsInjective(Filter(s, S))
<1> DEFINE P == {l \in Seq(U) : IsInjective(l) => IsInjective(Filter(l, S))}
<1>1. <<>> \in P
  BY FilterNone
<1>2. ASSUME NEW l \in Seq(U), NEW x \in U, l \in P
      PROVE  Append(l, x) \in P
  <2>1. SUFFICES ASSUME IsInjective(Append(l, x))
                 PROVE  IsInjective(Filter(Append(l, x), S))
    OBVIOUS
  <2>2. IsInjective(Filter(l, S)) /\ x \notin ToSet(l)
    BY <1>2, <2>1, InjectivePrefix
  <2>3. Filter(l, S) \in Seq(U) /\ x \notin ToSet(Filter(l, S))
    BY <2>2, FilterKeeps
  <2>4. IsInjective(Append(Filter(l, S), x))
    BY <2>2, <2>3, InjectiveAppend
  <2>5. /\ Filter(l, S) \in Seq(U)
        /\ x \in S => Filter(Append(l, x), S) = Append(Filter(l, S), x)
        /\ x \notin S => Filter(Append(l, x), S) = Filter(l, S)
    BY FilterAppend
  <2> QED
    BY <2>2, <2>4, <2>5, Zenon
<1> HIDE DEF P
<1>3. Seq(U) \subseteq P
  BY <1>1, <1>2, ListInduction
<1> QED
  BY <1>3 DEF P
-----------------------------------------------------------------------------
(* Distinct.                                                               *)

\* Every element comes a first time.
LEMMA FirstPlace ==
    ASSUME NEW U, NEW s \in Seq(U), NEW x \in ToSet(s)
    PROVE  \E k \in 1..Len(s) : s[k] = x /\ \A j \in 1..(k - 1) : s[j] # x
<1> DEFINE places == {k \in 1..Len(s) : s[k] = x}
<1>1. Len(s) \in Nat /\ DOMAIN s = 1..Len(s)
  OBVIOUS
<1>2. places \subseteq Nat /\ places # {}
  BY <1>1 DEF ToSet
<1>3. PICK k \in places : \A j \in places : k <= j
  <2> HIDE DEF places
  <2> QED
    BY <1>2, LeastExists
<1>4. \A j \in 1..(k - 1) : j \in 1..Len(s) /\ ~(k <= j)
  BY <1>1
<1>5. \A j \in 1..(k - 1) : s[j] # x
  BY <1>3, <1>4
<1> QED
  BY <1>3, <1>5

LEMMA DistinctKeeps ==
    ASSUME NEW U, NEW s \in Seq(U)
    PROVE  /\ Distinct(s) \in Seq(U) /\ ToSet(Distinct(s)) = ToSet(s)
           /\ IsInjective(Distinct(s))
<1> DEFINE N == Len(s)
           first == {k \in 1..N : \A j \in 1..(k - 1) : s[j] # s[k]}
           index == [k \in 1..N |-> k]
           places == Filter(index, first)
           d == [k \in 1..Len(places) |-> s[places[k]]]
<1>1. N \in Nat /\ DOMAIN s = 1..N /\ \A k \in 1..N : s[k] \in U
  OBVIOUS
<1>2. Distinct(s) = d
  BY DEF Distinct
<1>3. index \in Seq(1..N) /\ IsInjective(index) /\ ToSet(index) = 1..N
  <2>1. index \in Seq(1..N) /\ DOMAIN index = 1..N /\ \A k \in 1..N : index[k] = k
    BY <1>1
  <2> HIDE DEF index
  <2> QED
    BY <2>1 DEF IsInjective, ToSet
<1> HIDE DEF index, N
<1>4. places \in Seq(1..N) /\ ToSet(places) = first /\ IsInjective(places)
  <2>1. places \in Seq(1..N) /\ ToSet(places) = ToSet(index) \cap first
    BY <1>3, FilterKeeps
  <2>2. IsInjective(places)
    BY <1>3, FilterInjective
  <2> QED
    BY <1>3, <2>1, <2>2
<1> HIDE DEF places
<1>5. /\ Len(places) \in Nat /\ DOMAIN places = 1..Len(places)
      /\ \A i \in 1..Len(places) : places[i] \in 1..N
  <2> DEFINE R == 1..N
  <2>1. places \in Seq(R)
    BY <1>4
  <2> HIDE DEF R
  <2>2. /\ Len(places) \in Nat /\ DOMAIN places = 1..Len(places)
        /\ \A i \in 1..Len(places) : places[i] \in R
    BY <2>1
  <2> QED
    BY <2>2 DEF R
<1>6. /\ d \in Seq(U) /\ DOMAIN d = 1..Len(places)
      /\ \A i \in 1..Len(places) : d[i] = s[places[i]]
  BY <1>1, <1>5
<1> HIDE DEF d
<1>7. \A i \in 1..Len(places) : places[i] \in first
  BY <1>4, <1>5 DEF ToSet
<1>8. \A k \in first : \E i \in 1..Len(places) : places[i] = k
  BY <1>4, <1>5 DEF ToSet
<1>9. ToSet(d) = ToSet(s)
  <2>1. ASSUME NEW x \in ToSet(s)
        PROVE  x \in ToSet(d)
    <3>1. PICK k \in 1..N : s[k] = x /\ \A j \in 1..(k - 1) : s[j] # x
      BY FirstPlace DEF N
    <3>2. PICK i \in 1..Len(places) : places[i] = k
      BY <1>8, <3>1
    <3> QED
      BY <1>6, <3>1, <3>2 DEF ToSet
  <2>2. \A x \in ToSet(d) : x \in ToSet(s)
    BY <1>1, <1>5, <1>6 DEF ToSet
  <2> QED
    BY <2>1, <2>2
<1>10. IsInjective(d)
  <2>1. ASSUME NEW i \in 1..Len(places), NEW j \in 1..Len(places), d[i] = d[j]
        PROVE  i = j
    <3>1. places[i] \in first /\ places[j] \in first /\ s[places[i]] = s[places[j]]
      BY <1>6, <1>7, <2>1
    <3>2. ~(places[i] < places[j]) /\ ~(places[j] < places[i])
      BY <1>1, <3>1
    <3>3. places[i] = places[j]
      BY <1>1, <1>5, <3>2
    <3> QED
      BY <1>4, <1>5, <3>3 DEF IsInjective
  <2> QED
    BY <1>6, <2>1 DEF IsInjective
<1> QED
  BY <1>2, <1>6, <1>9, <1>10
-----------------------------------------------------------------------------
(* FlattenSeq.                                                             *)

FlattenSteps(ss, flat) ==
    flat[0] = <<>> /\ \A n \in 1..Len(ss) : flat[n] = flat[n - 1] \o ss[n]

\* Its loop.
LEMMA FlattenLoop ==
    ASSUME NEW U, NEW ss \in Seq(Seq(U))
    PROVE  \E flat \in [0..Len(ss) -> Seq(U)] :
              FlattenSteps(ss, flat) /\ FlattenSeq(ss) = flat[Len(ss)]
<1> DEFINE N == Len(ss)
           T == Seq(U)
           base == <<>>
           After(n, l) == l \o ss[n]
           step == [n \in 1..N |-> [l \in T |-> After(n, l)]]
           Fits(f) == f = [n \in 1..N |->
                            IF n = 1 THEN ss[n] ELSE f[n - 1] \o ss[n]]
           flat == CHOOSE f : Fits(f)
<1>1. /\ N \in Nat /\ base \in T /\ \A n \in 1..N : \A l \in T : After(n, l) \in T
      /\ \A n \in 1..N : ss[n] \in T /\ After(n, base) = ss[n]
  OBVIOUS
<1>2. N # 0 => FlattenSeq(ss) = flat[N]
  BY Zenon DEF FlattenSeq
<1>3. N = 0 => FlattenSeq(ss) = base
  <2>1. N = 0 => ss = <<>>
    OBVIOUS
  <2> QED
    BY <2>1 DEF FlattenSeq
<1>4. \A f : Fits(f) <=> f = [n \in 1..N |-> IF n = 1 THEN ss[n] ELSE After(n, f[n - 1])]
  OBVIOUS
<1> HIDE DEF N, T, base, After, Fits
<1>5. step \in [1..N -> [T -> T]] /\ \A n \in 1..N : \A l \in T : step[n][l] = After(n, l)
  BY <1>1
<1> HIDE DEF step
<1>6. PICK f \in [0..N -> T] : f[0] = base /\ \A n \in 1..N : f[n] = step[n][f[n - 1]]
  <2>1. Solutions(N, T, base, step) # {}
    BY <1>1, <1>5, RecursionExists
  <2> QED
    BY <2>1 DEF Solutions
<1>7. \A n \in 1..N : f[n] = After(n, f[n - 1])
  <2> TAKE n \in 1..N
  <2>1. n - 1 \in 0..N
    BY <1>1
  <2> QED
    BY <1>5, <1>6, <2>1
<1> DEFINE g == [n \in 1..N |-> f[n]]
<1>8. Fits(g)
  <2>1. \A n \in 1..N : f[n] = IF n = 1 THEN ss[n] ELSE After(n, g[n - 1])
    <3> TAKE n \in 1..N
    <3>1. CASE n = 1
      BY <1>1, <1>6, <1>7, <3>1
    <3>2. CASE n # 1
      <4>1. n - 1 \in 1..N
        BY <1>1, <3>2
      <4>2. g[n - 1] = f[n - 1]
        BY <4>1
      <4> QED
        BY <1>7, <3>2, <4>2
    <3> QED
      BY <3>1, <3>2
  <2>2. g = [n \in 1..N |-> IF n = 1 THEN ss[n] ELSE After(n, g[n - 1])]
    BY <2>1
  <2> QED
    BY <1>4, <2>2
<1>9. Fits(flat)
  <2> HIDE DEF g
  <2> QED
    BY <1>8
<1> HIDE DEF flat
<1>10. \A n \in 1..N : flat[n] = IF n = 1 THEN ss[n] ELSE After(n, flat[n - 1])
  <2>1. flat = [n \in 1..N |-> IF n = 1 THEN ss[n] ELSE After(n, flat[n - 1])]
    BY <1>4, <1>9
  <2> DEFINE k == flat
  <2> HIDE DEF k
  <2>2. flat = [n \in 1..N |-> IF n = 1 THEN ss[n] ELSE After(n, k[n - 1])]
    BY <2>1 DEF k
  <2> QED
    BY <2>2 DEF k
<1>11. N # 0 => flat[N] = f[N]
  <2> DEFINE h == [n \in 0..N |-> IF n = 0 THEN base ELSE flat[n]]
  <2>1. \A n \in 1..N : h[n - 1] = f[n - 1] => h[n] = f[n]
    <3> TAKE n \in 1..N
    <3>1. CASE n = 1
      BY <1>1, <1>6, <1>7, <1>10, <3>1
    <3>2. CASE n # 1
      <4>1. n - 1 \in 1..N /\ n \in 0..N /\ n # 0 /\ n - 1 # 0 /\ n - 1 \in 0..N
        BY <1>1, <3>2
      <4>2. h[n] = flat[n] /\ h[n - 1] = flat[n - 1]
        BY <4>1
      <4> QED
        BY <1>7, <1>10, <3>2, <4>2
    <3> QED
      BY <3>1, <3>2
  <2>2. h[0] = f[0] /\ (N # 0 => h[N] = flat[N])
    BY <1>1, <1>6
  <2> HIDE DEF h
  <2>3. StartAlike(h, f, N)
    BY <2>1, <2>2 DEF StartAlike
  <2>4. Alike(h, f, N)
    BY <1>1, <2>3, RecursionIsUnique
  <2> QED
    BY <1>1, <2>2, <2>4 DEF Alike
<1>12. FlattenSeq(ss) = f[N]
  BY <1>2, <1>3, <1>6, <1>11
<1> QED
  BY <1>6, <1>7, <1>12 DEF After, N, T, base, FlattenSteps

\* What is in the list of all.
LEMMA FlattenKeeps ==
    ASSUME NEW U, NEW ss \in Seq(Seq(U))
    PROVE  /\ FlattenSeq(ss) \in Seq(U)
           /\ ToSet(FlattenSeq(ss)) = UNION {ToSet(ss[k]) : k \in 1..Len(ss)}
<1> DEFINE N == Len(ss)
           Parts(n) == UNION {ToSet(ss[k]) : k \in 1..n}
<1>1. N \in Nat /\ \A n \in 1..N : ss[n] \in Seq(U)
  OBVIOUS
<1>2. PICK flat \in [0..N -> Seq(U)] : FlattenSteps(ss, flat) /\ FlattenSeq(ss) = flat[N]
  BY FlattenLoop
<1> DEFINE P == {n \in 0..N : ToSet(flat[n]) = Parts(n)}
<1>3. 0 \in P
  <2>1. flat[0] = <<>> /\ Parts(0) = {}
    BY <1>2 DEF FlattenSteps
  <2> QED
    BY <1>1, <2>1, ElementsOfNone
<1>4. ASSUME NEW n \in 0..(N - 1), n \in P
      PROVE  n + 1 \in P
  <2>1. n + 1 \in 1..N /\ (n + 1) - 1 = n /\ n \in 0..N /\ 1..(n + 1) = (1..n) \cup {n + 1}
    BY <1>1
  <2>2. flat[n + 1] = flat[n] \o ss[n + 1]
    BY <1>2, <2>1 DEF FlattenSteps
  <2>3. ToSet(flat[n] \o ss[n + 1]) = ToSet(flat[n]) \cup ToSet(ss[n + 1])
    <3>1. flat[n] \in Seq(U) /\ ss[n + 1] \in Seq(U)
      BY <1>1, <1>2, <2>1
    <3> QED
      BY <3>1, ElementsOfConcat
  <2>4. Parts(n + 1) = Parts(n) \cup ToSet(ss[n + 1])
    BY <2>1
  <2>5. ToSet(flat[n]) = Parts(n)
    BY <1>4
  <2>6. ToSet(flat[n + 1]) = Parts(n + 1)
    BY <2>2, <2>3, <2>4, <2>5, Zenon
  <2> QED
    BY <2>1, <2>6
<1> HIDE DEF P
<1>5. N \in P
  <2>1. \A n \in 0..N : n \in P
    BY <1>1, <1>3, <1>4, IntervalInduction
  <2> QED
    BY <1>1, <2>1
<1> QED
  BY <1>1, <1>2, <1>5 DEF P

LEMMA InjectiveConcat ==
    ASSUME NEW U, NEW s \in Seq(U), NEW t \in Seq(U), IsInjective(s), IsInjective(t),
           ToSet(s) \cap ToSet(t) = {}
    PROVE  IsInjective(s \o t)
<1> DEFINE m == Len(s)
           n == Len(t)
           st == s \o t
<1>1. /\ m \in Nat /\ n \in Nat /\ DOMAIN s = 1..m /\ DOMAIN t = 1..n
      /\ DOMAIN st = 1..(m + n) /\ \A k \in 1..m : st[k] = s[k]
      /\ \A k \in (m + 1)..(m + n) : st[k] = t[k - m]
  OBVIOUS
<1> HIDE DEF m, n, st
<1>2. \A j \in 1..m : \A k \in 1..n : s[j] # t[k]
  BY <1>1 DEF ToSet
<1>3. \A k \in 1..(m + n) : k \in 1..m \/ (k \in (m + 1)..(m + n) /\ k - m \in 1..n)
  BY <1>1
<1>4. ASSUME NEW j \in 1..(m + n), NEW k \in 1..(m + n), st[j] = st[k]
      PROVE  j = k
  <2>1. CASE j \in 1..m /\ k \in 1..m
    BY <1>1, <1>4, <2>1 DEF IsInjective
  <2>2. CASE j \in (m + 1)..(m + n) /\ j - m \in 1..n /\ k \in (m + 1)..(m + n) /\ k - m \in 1..n
    <3>1. t[j - m] = t[k - m]
      BY <1>1, <1>4, <2>2
    <3>2. j - m = k - m
      BY <1>1, <2>2, <3>1 DEF IsInjective
    <3> QED
      BY <1>1, <3>2
  <2>3. ~(j \in 1..m /\ k \in (m + 1)..(m + n) /\ k - m \in 1..n)
    BY <1>1, <1>2, <1>4
  <2>4. ~(k \in 1..m /\ j \in (m + 1)..(m + n) /\ j - m \in 1..n)
    BY <1>1, <1>2, <1>4
  <2> QED
    BY <1>3, <2>1, <2>2, <2>3, <2>4
<1> QED
  BY <1>1, <1>4 DEF IsInjective, st

\* Each of them distinct and none in two: all are distinct.
LEMMA FlattenInjective ==
    ASSUME NEW U, NEW ss \in Seq(Seq(U)), \A k \in 1..Len(ss) : IsInjective(ss[k]),
           \A j, k \in 1..Len(ss) : j # k => ToSet(ss[j]) \cap ToSet(ss[k]) = {}
    PROVE  IsInjective(FlattenSeq(ss))
<1> DEFINE N == Len(ss)
           Parts(n) == UNION {ToSet(ss[k]) : k \in 1..n}
<1>1. N \in Nat /\ \A n \in 1..N : ss[n] \in Seq(U)
  OBVIOUS
<1>2. PICK flat \in [0..N -> Seq(U)] : FlattenSteps(ss, flat) /\ FlattenSeq(ss) = flat[N]
  BY FlattenLoop
<1> DEFINE P == {n \in 0..N : ToSet(flat[n]) = Parts(n) /\ IsInjective(flat[n])}
<1>3. 0 \in P
  <2>1. flat[0] = <<>> /\ Parts(0) = {} /\ IsInjective(<<>>)
    BY <1>2 DEF FlattenSteps, IsInjective
  <2> QED
    BY <1>1, <2>1, ElementsOfNone
<1>4. ASSUME NEW n \in 0..(N - 1), n \in P
      PROVE  n + 1 \in P
  <2>1. /\ n + 1 \in 1..N /\ (n + 1) - 1 = n /\ n \in 0..N /\ 1..(n + 1) = (1..n) \cup {n + 1}
        /\ \A k \in 1..n : k \in 1..N /\ k # n + 1
    BY <1>1
  <2>2. flat[n + 1] = flat[n] \o ss[n + 1]
    BY <1>2, <2>1 DEF FlattenSteps
  <2>3. /\ flat[n] \in Seq(U) /\ ss[n + 1] \in Seq(U)
        /\ ToSet(flat[n]) = Parts(n) /\ IsInjective(flat[n]) /\ IsInjective(ss[n + 1])
    BY <1>1, <1>2, <1>4, <2>1
  <2>4. ToSet(flat[n] \o ss[n + 1]) = ToSet(flat[n]) \cup ToSet(ss[n + 1])
    BY <2>3, ElementsOfConcat
  <2>5. Parts(n + 1) = Parts(n) \cup ToSet(ss[n + 1])
    BY <2>1
  <2>6. ToSet(flat[n]) \cap ToSet(ss[n + 1]) = {}
    <3>1. \A k \in 1..n : ToSet(ss[k]) \cap ToSet(ss[n + 1]) = {}
      BY <2>1
    <3> QED
      BY <2>3, <3>1
  <2>7. IsInjective(flat[n] \o ss[n + 1])
    BY <2>3, <2>6, InjectiveConcat
  <2>8. ToSet(flat[n + 1]) = Parts(n + 1) /\ IsInjective(flat[n + 1])
    BY <2>2, <2>3, <2>4, <2>5, <2>7, Zenon
  <2> QED
    BY <2>1, <2>8
<1> HIDE DEF P
<1>5. N \in P
  <2>1. \A n \in 0..N : n \in P
    BY <1>1, <1>3, <1>4, IntervalInduction
  <2> QED
    BY <1>1, <2>1
<1> QED
  BY <1>1, <1>2, <1>5 DEF P

\* The first element and the others.
LEMMA ElementsOfTail ==
    ASSUME NEW U, NEW s \in Seq(U), s # <<>>
    PROVE  /\ Head(s) \in U /\ Tail(s) \in Seq(U)
           /\ ToSet(s) = {Head(s)} \cup ToSet(Tail(s))
<1> DEFINE len == Len(s)
           t == Tail(s)
<1>1. /\ DOMAIN s = 1..len /\ len \in Nat \ {0} /\ DOMAIN t = 1..(len - 1)
      /\ Head(s) = s[1] /\ \A k \in 1..(len - 1) : t[k] = s[k + 1]
  OBVIOUS
<1> HIDE DEF len, t
<1>2. ASSUME NEW x \in ToSet(s)
      PROVE  x = s[1] \/ x \in ToSet(t)
  <2>1. PICK k \in 1..len : x = s[k]
    BY <1>1 DEF ToSet
  <2>2. CASE k # 1
    <3>1. k - 1 \in 1..(len - 1) /\ (k - 1) + 1 = k
      BY <1>1, <2>2
    <3>2. x = t[k - 1]
      BY <1>1, <2>1, <3>1
    <3> QED
      BY <1>1, <3>1, <3>2 DEF ToSet
  <2> QED
    BY <2>1, <2>2
<1>3. 1 \in 1..len /\ \A k \in 1..(len - 1) : k + 1 \in 1..len
  BY <1>1
<1>4. s[1] \in ToSet(s) /\ \A x \in ToSet(t) : x \in ToSet(s)
  BY <1>1, <1>3 DEF ToSet
<1>5. Head(s) \in U /\ t \in Seq(U)
  BY DEF t
<1> QED
  BY <1>1, <1>2, <1>4, <1>5 DEF t

\* Two selections after each other are one.
LEMMA FilterTwice ==
    ASSUME NEW U, NEW S, NEW R, NEW s \in Seq(U)
    PROVE  Filter(Filter(s, S), R) = Filter(s, S \cap R)
<1> DEFINE Good(l) == Filter(Filter(l, S), R) = Filter(l, S \cap R)
           P == {l \in Seq(U) : Good(l)}
<1>1. <<>> \in P
  <2>1. Good(<<>>)
    BY FilterNone, Zenon
  <2> QED
    BY <2>1
<1>2. ASSUME NEW l \in Seq(U), NEW x \in U, l \in P
      PROVE  Append(l, x) \in P
  <2> DEFINE m == Append(l, x)
             f == Filter(l, S)
  <2>1. f \in Seq(U) /\ l \in Seq(U)
    BY FilterAppend
  <2>2. x \in S => Filter(Append(l, x), S) = Append(Filter(l, S), x)
    BY FilterAppend
  <2>3. x \notin S => Filter(Append(l, x), S) = Filter(l, S)
    BY FilterAppend
  <2>4. x \in S \cap R => Filter(m, S \cap R) = Append(Filter(l, S \cap R), x)
    <3>1. \A K : x \in K => Filter(Append(l, x), K) = Append(Filter(l, K), x)
      BY FilterAppend
    <3> QED
      BY <3>1, Zenon
  <2>5. x \notin S \cap R => Filter(m, S \cap R) = Filter(l, S \cap R)
    BY FilterAppend
  <2>6. Good(l) /\ m \in Seq(U)
    BY <1>2
  <2> HIDE DEF m, f
  <2>8. x \in R => Filter(Append(f, x), R) = Append(Filter(f, R), x)
    BY <2>1, FilterAppend
  <2>9. x \notin R => Filter(Append(f, x), R) = Filter(f, R)
    BY <2>1, FilterAppend
  <2>10. Filter(f, R) = Filter(l, S \cap R)
    BY <2>6 DEF f
  <2>7. Good(m)
    BY <2>2, <2>3, <2>4, <2>5, <2>8, <2>9, <2>10 DEF m, f
  <2> QED
    BY <2>6, <2>7 DEF m
<1> HIDE DEF P
<1>3. Seq(U) \subseteq P
  BY <1>1, <1>2, ListInduction
<1> QED
  BY <1>3 DEF P

\* What is read off each element.
Image(s, f) == [k \in DOMAIN s |-> f[s[k]]]

LEMMA ImageKeeps ==
    ASSUME NEW U, NEW V, NEW f \in [U -> V], NEW s \in Seq(U)
    PROVE  /\ Image(s, f) \in Seq(V) /\ Len(Image(s, f)) = Len(s)
           /\ \A k \in 1..Len(s) : Image(s, f)[k] = f[s[k]]
           /\ ToSet(Image(s, f)) = {f[x] : x \in ToSet(s)}
<1> DEFINE i == [k \in 1..Len(s) |-> f[s[k]]]
<1>1. DOMAIN s = 1..Len(s) /\ Len(s) \in Nat /\ \A k \in 1..Len(s) : s[k] \in U /\ f[s[k]] \in V
  OBVIOUS
<1>2. Image(s, f) = i
  BY <1>1 DEF Image
<1>3. i \in Seq(V) /\ Len(i) = Len(s) /\ DOMAIN i = 1..Len(s) /\ \A k \in 1..Len(s) : i[k] = f[s[k]]
  BY <1>1
<1> HIDE DEF i
<1>4. ToSet(i) = {f[x] : x \in ToSet(s)}
  BY <1>1, <1>3 DEF ToSet
<1> QED
  BY <1>2, <1>3, <1>4

LEMMA ImageNone == ASSUME NEW f PROVE Image(<<>>, f) = <<>>
BY DEF Image

LEMMA ImageAppend ==
    ASSUME NEW U, NEW V, NEW f \in [U -> V], NEW s \in Seq(U), NEW x \in U
    PROVE  Image(Append(s, x), f) = Append(Image(s, f), f[x])
<1> DEFINE t == Append(s, x)
           i == Image(s, f)
           j == Image(t, f)
           k == Append(i, f[x])
<1>1. /\ t \in Seq(U) /\ Len(t) = Len(s) + 1 /\ t[Len(s) + 1] = x /\ Len(s) \in Nat
      /\ \A n \in 1..Len(s) : t[n] = s[n]
  OBVIOUS
<1> HIDE DEF t
<1>2. /\ i \in Seq(V) /\ Len(i) = Len(s) /\ \A n \in 1..Len(s) : i[n] = f[s[n]]
      /\ j \in Seq(V) /\ Len(j) = Len(t) /\ \A n \in 1..Len(t) : j[n] = f[t[n]]
  BY <1>1, ImageKeeps
<1> HIDE DEF i, j
<1>3. f[x] \in V
  OBVIOUS
<1>4. k \in Seq(V) /\ Len(k) = Len(i) + 1 /\ k[Len(i) + 1] = f[x] /\ \A n \in 1..Len(i) : k[n] = i[n]
  BY <1>2, <1>3
<1> HIDE DEF k
<1>5. j = k
  BY <1>1, <1>2, <1>4
<1> QED
  BY <1>5 DEF t, i, j, k

\* The first of one list goes to the end of the other.
LEMMA HeadMoves ==
    ASSUME NEW U, NEW s \in Seq(U), NEW t \in Seq(U), t # <<>>
    PROVE  Append(s, Head(t)) \o Tail(t) = s \o t
<1> DEFINE a == Append(s, Head(t))
           b == Tail(t)
           ab == a \o b
           st == s \o t
           m == Len(s)
           n == Len(t)
<1>1. /\ m \in Nat /\ n \in Nat \ {0} /\ Head(t) = t[1] /\ Head(t) \in U
      /\ b \in Seq(U) /\ Len(b) = n - 1 /\ \A k \in 1..(n - 1) : b[k] = t[k + 1]
  OBVIOUS
<1>2. a \in Seq(U) /\ Len(a) = m + 1 /\ a[m + 1] = t[1] /\ \A k \in 1..m : a[k] = s[k]
  BY <1>1
<1> HIDE DEF a, b
<1>3. /\ ab \in Seq(U) /\ Len(ab) = m + n
      /\ \A k \in 1..(m + 1) : ab[k] = a[k]
      /\ \A k \in (m + 2)..(m + n) : ab[k] = b[k - (m + 1)]
  <2>1. a \in Seq(U) /\ b \in Seq(U)
    BY <1>1, <1>2
  <2>2. /\ ab \in Seq(U) /\ Len(ab) = Len(a) + Len(b)
        /\ \A k \in 1..Len(a) : ab[k] = a[k]
        /\ \A k \in (Len(a) + 1)..(Len(a) + Len(b)) : ab[k] = b[k - Len(a)]
    BY <2>1
  <2> HIDE DEF ab, m, n
  <2> QED
    BY <1>1, <1>2, <2>2
<1>4. /\ st \in Seq(U) /\ Len(st) = m + n
      /\ \A k \in 1..m : st[k] = s[k]
      /\ \A k \in (m + 1)..(m + n) : st[k] = t[k - m]
  OBVIOUS
<1> HIDE DEF ab, st, m, n
<1>5. ASSUME NEW k \in 1..(m + n) PROVE ab[k] = st[k]
  <2>1. CASE k \in 1..m
    BY <1>1, <1>2, <1>3, <1>4, <2>1
  <2>2. CASE k = m + 1
    <3>1. k - m = 1 /\ k \in 1..(m + 1) /\ k \in (m + 1)..(m + n)
      BY <1>1, <2>2
    <3> QED
      BY <1>2, <1>3, <1>4, <2>2, <3>1
  <2>3. CASE k \in (m + 2)..(m + n)
    <3>1. k - (m + 1) \in 1..(n - 1) /\ (k - (m + 1)) + 1 = k - m /\ k \in (m + 1)..(m + n)
      BY <1>1, <2>3
    <3> QED
      BY <1>1, <1>3, <1>4, <2>3, <3>1
  <2> QED
    BY <1>1, <2>1, <2>2, <2>3
<1>6. ab = st
  <2>1. Len(ab) = Len(st) /\ \A k \in 1..Len(ab) : ab[k] = st[k]
    BY <1>1, <1>3, <1>4, <1>5
  <2> QED
    BY <1>3, <1>4, <2>1
<1> QED
  BY <1>6 DEF ab, st, a, b

\* A selection that only the first part has a share in.
LEMMA FilterFirst ==
    ASSUME NEW U, NEW S, NEW a \in Seq(U), NEW b \in Seq(U), NEW c \in Seq(U), NEW d \in Seq(U),
           ToSet(b) \cap S = {}, ToSet(c) \cap S = {}, ToSet(d) \cap S = {}
    PROVE  Filter(a \o b \o c \o d, S) = Filter(a, S)
<1> DEFINE ab == a \o b
           abc == ab \o c
           abcd == abc \o d
           kept == Filter(a, S)
<1>1. ab \in Seq(U) /\ abc \in Seq(U) /\ kept \in Seq(U)
  BY FilterKeeps
<1>2. Filter(b, S) = <<>> /\ Filter(c, S) = <<>> /\ Filter(d, S) = <<>>
  BY FilterOut
<1>3. Filter(ab, S) = kept \o Filter(b, S)
  BY FilterConcat
<1>4. abc = ab \o c /\ abcd = abc \o d
  OBVIOUS
<1> HIDE DEF ab, abc, abcd, kept
<1> DEFINE Joined(s, t) == Filter(s \o t, S) = Filter(s, S) \o Filter(t, S)
<1>5. \A s, t \in Seq(U) : Joined(s, t)
  BY FilterConcat, Zenon
<1> HIDE DEF Joined
<1>6. Joined(ab, c) /\ Joined(abc, d)
  BY <1>1, <1>5
<1>7. kept \o <<>> = kept
  BY <1>1
<1>8. Filter(abcd, S) = kept
  BY <1>2, <1>3, <1>4, <1>6, <1>7 DEF Joined
<1> QED
  BY <1>8 DEF abcd, abc, ab, kept

\* A list of which at most the first element is selected.
LEMMA FirstHas ==
    ASSUME NEW U, NEW S, NEW m \in U, NEW b \in Seq(U), NEW c \in Seq(U), NEW d \in Seq(U),
           ToSet(b) \cap S = {}, ToSet(c) \cap S = {}, ToSet(d) \cap S = {}
    PROVE  Filter(<<m>> \o b \o c \o d, S) = IF m \in S THEN <<m>> ELSE <<>>
<1> DEFINE a == <<m>>
<1>1. a \in Seq(U) /\ ToSet(a) = {m}
  BY DEF ToSet
<1> HIDE DEF a
<1>2. Filter(a \o b \o c \o d, S) = Filter(a, S)
  BY <1>1, FilterFirst
<1>3. m \in S => Filter(a, S) = a
  BY <1>1, FilterAll
<1>4. m \notin S => Filter(a, S) = <<>>
  BY <1>1, FilterOut
<1> QED
  BY <1>2, <1>3, <1>4 DEF a

\* A list with one element or none.
LEMMA Maybe ==
    ASSUME NEW U, NEW m \in U, NEW S, m \notin S, NEW l, l = <<>> \/ l = <<m>>
    PROVE  l \in Seq(U) /\ ToSet(l) \cap S = {}
<1>1. CASE l = <<>>
  BY <1>1, ElementsOfNone
<1>2. CASE l = <<m>>
  <2>1. ToSet(<<m>>) = {m}
    BY DEF ToSet
  <2> QED
    BY <1>2, <2>1
<1> QED
  BY <1>1, <1>2

\* What a list's image tells.
LEMMA ImageElements ==
    ASSUME NEW U, NEW V, NEW f \in [U -> V], NEW s \in Seq(U)
    PROVE  ToSet(Image(s, f)) = {f[x] : x \in ToSet(s)}
<1>1. \A k \in 1..Len(s) : Image(s, f)[k] = f[s[k]]
  BY DEF Image
<1>2. DOMAIN Image(s, f) = 1..Len(s) /\ DOMAIN s = 1..Len(s)
  BY DEF Image
<1> QED
  BY <1>1, <1>2 DEF ToSet

\* What a list's image tells of each element is among what it tells.
LEMMA ImageTells ==
    ASSUME NEW U, NEW V, NEW f \in [U -> V], NEW s \in Seq(U), NEW k \in 1..Len(s)
    PROVE  f[s[k]] \in ToSet(Image(s, f))
<1>1. ToSet(Image(s, f)) = {f[x] : x \in ToSet(s)}
  BY ImageElements
<1>2. s[k] \in ToSet(s)
  BY DEF ToSet
<1> QED
  BY <1>1, <1>2

\* Of a list in which nothing is repeated the parts have nothing in common.
LEMMA InjectiveParts ==
    ASSUME NEW U, NEW s \in Seq(U), NEW t \in Seq(U), IsInjective(s \o t)
    PROVE  ToSet(s) \cap ToSet(t) = {}
<1> DEFINE m == Len(s)
           n == Len(t)
           st == s \o t
<1>1. /\ m \in Nat /\ n \in Nat /\ DOMAIN s = 1..m /\ DOMAIN t = 1..n
      /\ DOMAIN st = 1..(m + n) /\ \A k \in 1..m : st[k] = s[k]
      /\ \A k \in 1..n : st[m + k] = t[k]
  OBVIOUS
<1> HIDE DEF m, n, st
<1>2. ASSUME NEW j \in 1..m, NEW k \in 1..n, s[j] = t[k] PROVE FALSE
  <2>1. j \in 1..(m + n) /\ m + k \in 1..(m + n) /\ j # m + k
    BY <1>1
  <2>2. st[j] = st[m + k]
    BY <1>1, <1>2
  <2>3. \A a, b \in DOMAIN st : st[a] = st[b] => a = b
    BY DEF IsInjective, st
  <2> QED
    BY <1>1, <2>1, <2>2, <2>3
<1> QED
  BY <1>1, <1>2 DEF ToSet

\* The image has a place for each of the list's.
LEMMA ImagePlaces ==
    ASSUME NEW U, NEW s \in Seq(U), NEW f
    PROVE  Len(Image(s, f)) = Len(s) /\ \A k \in 1..Len(s) : Image(s, f)[k] = f[s[k]]
<1>1. DOMAIN s = 1..Len(s) /\ Len(s) \in Nat
  OBVIOUS
<1>2. Image(s, f) = [k \in 1..Len(s) |-> f[s[k]]]
  BY <1>1 DEF Image
<1> QED
  BY <1>1, <1>2

\* The image of two lists, one after the other.
LEMMA ImageConcat ==
    ASSUME NEW U, NEW V, NEW f \in [U -> V], NEW s \in Seq(U), NEW t \in Seq(U)
    PROVE  Image(s \o t, f) = Image(s, f) \o Image(t, f)
<1> DEFINE st == s \o t
           i == Image(s, f)
           j == Image(t, f)
           m == Len(s)
           n == Len(t)
           whole == Image(st, f)
           both == i \o j
<1>1. /\ st \in Seq(U) /\ m \in Nat /\ n \in Nat /\ Len(st) = m + n
      /\ \A k \in 1..m : st[k] = s[k]
      /\ \A k \in 1..n : st[m + k] = t[k]
  OBVIOUS
<1> HIDE DEF st, m, n
<1>2. i \in Seq(V) /\ Len(i) = m /\ \A k \in 1..m : i[k] = f[s[k]]
  BY ImagePlaces, ImageKeeps DEF m
<1>3. j \in Seq(V) /\ Len(j) = n /\ \A k \in 1..n : j[k] = f[t[k]]
  BY ImagePlaces, ImageKeeps DEF n
<1>4. whole \in Seq(V) /\ Len(whole) = m + n /\ \A k \in 1..(m + n) : whole[k] = f[st[k]]
  <2>1. \A l \in Seq(U) : Image(l, f) \in Seq(V)
    BY ImageKeeps
  <2>2. \A l \in Seq(U) : Len(Image(l, f)) = Len(l)
    BY ImagePlaces
  <2>3. \A l \in Seq(U) : \A k \in 1..Len(l) : Image(l, f)[k] = f[l[k]]
    BY ImagePlaces
  <2> QED
    BY <1>1, <2>1, <2>2, <2>3
<1> HIDE DEF i, j, whole
<1>5. /\ both \in Seq(V) /\ Len(both) = m + n
      /\ \A k \in 1..m : both[k] = i[k]
      /\ \A k \in 1..n : both[m + k] = j[k]
  <2>1. \A a, c \in Seq(V) : /\ a \o c \in Seq(V) /\ Len(a \o c) = Len(a) + Len(c)
                             /\ \A k \in 1..Len(a) : (a \o c)[k] = a[k]
                             /\ \A k \in 1..Len(c) : (a \o c)[Len(a) + k] = c[k]
    OBVIOUS
  <2> QED
    BY <1>2, <1>3, <2>1
<1> HIDE DEF both
<1>6. ASSUME NEW k \in 1..(m + n) PROVE whole[k] = both[k]
  <2>1. CASE k \in 1..m
    <3>1. whole[k] = f[s[k]]
      BY <1>1, <1>4, <2>1
    <3>2. both[k] = f[s[k]]
      BY <1>2, <1>5, <2>1
    <3> QED
      BY <3>1, <3>2
  <2>2. CASE k \notin 1..m
    <3>1. PICK l \in 1..n : k = m + l
      <4>1. k - m \in 1..n /\ k = m + (k - m)
        BY <1>1, <2>2
      <4> QED
        BY <4>1
    <3>2. whole[k] = f[t[l]]
      BY <1>1, <1>4, <3>1
    <3>3. both[k] = f[t[l]]
      BY <1>1, <1>3, <1>5, <3>1
    <3> QED
      BY <3>2, <3>3
  <2> QED
    BY <2>1, <2>2
<1> QED
  BY <1>4, <1>5, <1>6 DEF whole, both, st, i, j
-----------------------------------------------------------------------------
(* How many different things a list's elements tell.                       *)

\* No two places of a list have elements of a set of which the same is read off.
OneEach(s, S, f) ==
    \A j, k \in 1..Len(s) : (s[j] \in S /\ s[k] \in S /\ f[s[j]] = f[s[k]]) => j = k

LEMMA OneEachAppend ==
    ASSUME NEW U, NEW l \in Seq(U), NEW x \in U, NEW S, NEW f, OneEach(l, S, f),
           x \in S => \A k \in 1..Len(l) : l[k] \in S => f[l[k]] # f[x]
    PROVE  OneEach(Append(l, x), S, f)
<1> DEFINE m == Append(l, x)
           n == Len(l)
<1>1. n \in Nat /\ Len(m) = n + 1 /\ m[n + 1] = x /\ \A k \in 1..n : m[k] = l[k]
  OBVIOUS
<1> HIDE DEF m, n
<1>2. \A k \in 1..(n + 1) : k \in 1..n \/ k = n + 1
  BY <1>1
<1>3. \A j, k \in 1..(n + 1) : (m[j] \in S /\ m[k] \in S /\ f[m[j]] = f[m[k]]) => j = k
  BY <1>1, <1>2 DEF OneEach, n
<1> QED
  BY <1>1, <1>3 DEF OneEach, m

\* What is read off a selection of a list.
LEMMA SelectionReads ==
    ASSUME NEW U, NEW V, NEW f \in [U -> V], NEW S, NEW s \in Seq(U)
    PROVE  ToSet(Image(Filter(s, S), f)) = {f[x] : x \in ToSet(s) \cap S}
<1> DEFINE t == Filter(s, S)
<1>1. t \in Seq(U) /\ ToSet(t) = ToSet(s) \cap S
  BY FilterKeeps
<1> HIDE DEF t
<1>2. ToSet(Image(t, f)) = {f[x] : x \in ToSet(t)}
  BY <1>1, ImageElements
<1> QED
  BY <1>1, <1>2 DEF t

\* So it is when what is read off the elements of the set is not repeated.
LEMMA InjectiveReads ==
    ASSUME NEW U, NEW V, NEW f \in [U -> V], NEW S, NEW s \in Seq(U),
           IsInjective(Image(Filter(s, S), f))
    PROVE  OneEach(s, S, f)
<1> DEFINE i(l) == Image(Filter(l, S), f)
           P == {l \in Seq(U) : IsInjective(i(l)) => OneEach(l, S, f)}
<1>1. <<>> \in P
  BY DEF OneEach
<1>2. ASSUME NEW l \in Seq(U), NEW x \in U, l \in P
      PROVE  Append(l, x) \in P
  <2> SUFFICES ASSUME IsInjective(i(Append(l, x)))
               PROVE  OneEach(Append(l, x), S, f)
    OBVIOUS
  <2>1. /\ Filter(l, S) \in Seq(U)
        /\ x \in S => Filter(Append(l, x), S) = Append(Filter(l, S), x)
        /\ x \notin S => Filter(Append(l, x), S) = Filter(l, S)
    BY FilterAppend
  <2>2. i(l) \in Seq(V) /\ f[x] \in V
    BY <2>1, ImageKeeps
  <2>3. CASE x \in S
    <3>1. i(Append(l, x)) = Append(i(l), f[x])
      BY <2>1, <2>3, ImageAppend
    <3>2. IsInjective(Append(i(l), f[x]))
      BY <3>1
    <3> HIDE DEF i
    <3>3. IsInjective(i(l)) /\ f[x] \notin ToSet(i(l))
      BY <2>2, <3>2, InjectivePrefix
    <3>4. ASSUME NEW k \in 1..Len(l), l[k] \in S PROVE f[l[k]] # f[x]
      <4>1. l[k] \in ToSet(l) \cap S
        BY <3>4 DEF ToSet
      <4>2. l[k] \in ToSet(Filter(l, S))
        BY <4>1, FilterKeeps
      <4>3. PICK j \in 1..Len(Filter(l, S)) : Filter(l, S)[j] = l[k]
        <5>1. \A t \in Seq(U) : \A y \in ToSet(t) : \E j \in 1..Len(t) : t[j] = y
          BY DEF ToSet
        <5> QED
          BY <2>1, <4>2, <5>1
      <4>4. f[Filter(l, S)[j]] \in ToSet(Image(Filter(l, S), f))
        BY <2>1, ImageTells
      <4> QED
        BY <3>3, <4>3, <4>4 DEF i
    <3>5. OneEach(l, S, f)
      BY <1>2, <3>3
    <3> QED
      BY <3>4, <3>5, OneEachAppend
  <2>4. CASE x \notin S
    <3>1. i(Append(l, x)) = i(l)
      BY <2>1, <2>4
    <3>2. OneEach(l, S, f)
      BY <1>2, <3>1
    <3> QED
      BY <2>4, <3>2, OneEachAppend
  <2> QED
    BY <2>3, <2>4
<1> HIDE DEF P
<1>3. Seq(U) \subseteq P
  BY <1>1, <1>2, ListInduction
<1> QED
  BY <1>3 DEF P

\* Another list that has no element of the set changes nothing.
LEMMA OneEachConcat ==
    ASSUME NEW U, NEW s \in Seq(U), NEW t \in Seq(U), NEW S, NEW f,
           OneEach(s, S, f), OneEach(t, S, f),
           ToSet(s) \cap S = {} \/ ToSet(t) \cap S = {}
    PROVE  OneEach(s \o t, S, f)
<1> DEFINE m == Len(s)
           n == Len(t)
           st == s \o t
<1>1. /\ m \in Nat /\ n \in Nat /\ Len(st) = m + n
      /\ \A k \in 1..m : st[k] = s[k]
      /\ \A k \in (m + 1)..(m + n) : st[k] = t[k - m]
  OBVIOUS
<1> HIDE DEF st
<1>2. ASSUME NEW k \in 1..Len(st)
      PROVE  \/ k \in 1..m /\ st[k] = s[k] /\ st[k] \in ToSet(s)
             \/ k - m \in 1..n /\ st[k] = t[k - m] /\ st[k] \in ToSet(t)
  <2>1. CASE k \in 1..m
    BY <1>1, <2>1 DEF ToSet
  <2>2. CASE k \notin 1..m
    <3>1. k - m \in 1..n /\ st[k] = t[k - m]
      BY <1>1, <2>2
    <3> QED
      BY <3>1 DEF ToSet
  <2> QED
    BY <2>1, <2>2
<1>3. ASSUME NEW j \in 1..Len(st), NEW k \in 1..Len(st),
             st[j] \in S, st[k] \in S, f[st[j]] = f[st[k]]
      PROVE  j = k
  <2>1. CASE ToSet(s) \cap S = {}
    <3>1. /\ j - m \in 1..n /\ st[j] = t[j - m]
          /\ k - m \in 1..n /\ st[k] = t[k - m]
      BY <1>2, <1>3, <2>1
    <3>2. j - m = k - m
      BY <1>3, <3>1 DEF OneEach
    <3> QED
      BY <1>1, <3>2
  <2>2. CASE ToSet(t) \cap S = {}
    <3>1. /\ j \in 1..m /\ st[j] = s[j] /\ k \in 1..m /\ st[k] = s[k]
      BY <1>2, <1>3, <2>2
    <3> QED
      BY <1>3, <3>1 DEF OneEach
  <2> QED
    BY <2>1, <2>2
<1> QED
  BY <1>3 DEF OneEach, st

\* The places of a list that have elements of a set, and what is read off them.
PlacesOf(s, S) == {k \in 1..Len(s) : s[k] \in S}
ReadsOf(s, S, f) == {f[x] : x \in ToSet(s) \cap S}

\* There are as many of the one as of the other.
LEMMA PlacesAndReads ==
    ASSUME NEW U, NEW s \in Seq(U), NEW S, NEW T, T \subseteq S, NEW f, OneEach(s, S, f)
    PROVE  /\ IsFiniteSet(ReadsOf(s, T, f))
           /\ Cardinality(PlacesOf(s, T)) = Cardinality(ReadsOf(s, T, f))
<1> DEFINE P == PlacesOf(s, T)
           R == ReadsOf(s, T, f)
           g == [k \in P |-> f[s[k]]]
<1>1. IsFiniteSet(P)
  <2>1. Len(s) \in Nat /\ IsFiniteSet(1..Len(s))
    BY FS_Interval
  <2> QED
    BY <2>1, FS_Subset DEF PlacesOf
<1>2. \A k \in P : f[s[k]] \in R
  BY DEF ToSet, PlacesOf, ReadsOf
<1>3. \A y \in R : \E k \in P : f[s[k]] = y
  BY DEF ToSet, PlacesOf, ReadsOf
<1>4. \A j, k \in P : f[s[j]] = f[s[k]] => j = k
  BY DEF OneEach, PlacesOf
<1> HIDE DEF P, R
<1>5. g \in [P -> R] /\ DOMAIN g = P /\ \A k \in P : g[k] = f[s[k]]
  BY <1>2
<1> HIDE DEF g
<1>6. g \in Injection(P, R)
  BY <1>4, <1>5 DEF Injection, IsInjective
<1>7. g \in Surjection(P, R)
  BY <1>3, <1>5 DEF Surjection
<1>8. ExistsBijection(P, R)
  BY <1>6, <1>7 DEF ExistsBijection, Bijection
<1>9. IsFiniteSet(R) /\ Cardinality(R) = Cardinality(P)
  BY <1>1, <1>8, FS_Bijection
<1> QED
  BY <1>9 DEF P, R
-----------------------------------------------------------------------------
(* Sums.                                                                   *)

AddsUp(s, sum) == sum[0] = 0 /\ \A n \in 1..Len(s) : sum[n] = sum[n - 1] + s[n]

\* What the loop of Subtotals computes.
LEMMA SubtotalsAdd ==
    ASSUME NEW s \in Seq(Nat)
    PROVE  Subtotals(s) \in [0..Len(s) -> Nat] /\ AddsUp(s, Subtotals(s))
<1> DEFINE N == Len(s)
           step == [n \in 1..N |-> [m \in Nat |-> m + s[n]]]
           Fits(f) == f = [n \in 0..N |-> IF n = 0 THEN 0 ELSE f[n - 1] + s[n]]
           sum == CHOOSE f : Fits(f)
<1>1. N \in Nat /\ \A n \in 1..N : s[n] \in Nat
  OBVIOUS
<1>2. Subtotals(s) = sum
  BY Zenon DEF Subtotals
<1> HIDE DEF N
<1>3. step \in [1..N -> [Nat -> Nat]] /\ \A n \in 1..N : \A m \in Nat : step[n][m] = m + s[n]
  BY <1>1
<1> HIDE DEF step
<1>4. PICK f \in [0..N -> Nat] : f[0] = 0 /\ \A n \in 1..N : f[n] = step[n][f[n - 1]]
  <2>1. Solutions(N, Nat, 0, step) # {}
    BY <1>1, <1>3, RecursionExists
  <2> QED
    BY <2>1 DEF Solutions
<1>5. \A n \in 1..N : f[n] = f[n - 1] + s[n]
  <2> TAKE n \in 1..N
  <2>1. n - 1 \in 0..N
    BY <1>1
  <2> QED
    BY <1>3, <1>4, <2>1
<1>6. Fits(f)
  BY <1>1, <1>4, <1>5
<1>7. Fits(sum)
  BY <1>6
<1> HIDE DEF sum
<1>8. sum[0] = 0 /\ \A n \in 1..N : sum[n] = sum[n - 1] + s[n]
  <2> DEFINE g == sum
  <2> HIDE DEF g
  <2>1. sum = [n \in 0..N |-> IF n = 0 THEN 0 ELSE g[n - 1] + s[n]]
    BY <1>7 DEF g
  <2> QED
    BY <1>1, <2>1 DEF g
<1>9. \A n \in 0..N : f[n] = sum[n]
  <2>1. StartAlike(f, sum, N)
    BY <1>1, <1>4, <1>5, <1>8 DEF StartAlike
  <2> QED
    BY <1>1, <2>1, RecursionIsUnique DEF Alike
<1>10. sum \in [0..N -> Nat]
  <2>1. sum = [n \in 0..N |-> sum[n]]
    BY <1>7
  <2> QED
    BY <1>4, <1>9, <2>1
<1> QED
  BY <1>2, <1>8, <1>10 DEF AddsUp, N

SumIsBelow(sum, n, N) == sum[n] <= sum[N]

\* A subtotal is no more than the sum.
LEMMA SubtotalsGrow ==
    ASSUME NEW s \in Seq(Nat)
    PROVE  \A n \in 0..Len(s) : SumIsBelow(Subtotals(s), n, Len(s))
<1> DEFINE N == Len(s)
           sum == Subtotals(s)
           P == {d \in 0..N : sum[N - d] <= sum[N]}
<1>1. N \in Nat /\ \A n \in 1..N : s[n] \in Nat
  OBVIOUS
<1>2. sum \in [0..N -> Nat] /\ \A n \in 1..N : sum[n] = sum[n - 1] + s[n]
  BY SubtotalsAdd DEF AddsUp
<1> HIDE DEF N, sum
<1>3. 0 \in P
  BY <1>1, <1>2
<1>4. ASSUME NEW d \in 0..(N - 1), d \in P
      PROVE  d + 1 \in P
  <2>1. N - d \in 1..N /\ (N - d) - 1 = N - (d + 1) /\ d + 1 \in 0..N /\ N - (d + 1) \in 0..N
    BY <1>1
  <2>2. sum[N - d] = sum[N - (d + 1)] + s[N - d]
    BY <1>2, <2>1
  <2>3. s[N - d] \in Nat /\ sum[N - (d + 1)] \in Nat /\ sum[N - d] \in Nat /\ sum[N] \in Nat
    BY <1>1, <1>2, <2>1
  <2>4. sum[N - d] <= sum[N]
    BY <1>4
  <2>5. sum[N - (d + 1)] <= sum[N]
    BY <2>2, <2>3, <2>4
  <2> QED
    BY <2>1, <2>5
<1> HIDE DEF P
<1>5. \A d \in 0..N : d \in P
  BY <1>1, <1>3, <1>4, IntervalInduction
<1>6. ASSUME NEW n \in 0..N
      PROVE  sum[n] <= sum[N]
  <2>1. N - n \in 0..N /\ N - (N - n) = n
    BY <1>1
  <2>2. N - n \in P
    BY <1>5, <2>1
  <2>3. sum[N - (N - n)] <= sum[N]
    BY <2>2 DEF P
  <2> QED
    BY <2>1, <2>3
<1> QED
  BY <1>6 DEF SumIsBelow, N, sum

\* Lists that begin alike have the same subtotal there.
LEMMA SubtotalsAgree ==
    ASSUME NEW s \in Seq(Nat), NEW t \in Seq(Nat), NEW m \in Nat,
           m <= Len(s), m <= Len(t), \A n \in 1..m : s[n] = t[n]
    PROVE  Subtotals(s)[m] = Subtotals(t)[m]
<1> DEFINE f == Subtotals(s)
           g == Subtotals(t)
<1>1. /\ f[0] = 0 /\ \A n \in 1..m : f[n] = f[n - 1] + s[n]
      /\ g[0] = 0 /\ \A n \in 1..m : g[n] = g[n - 1] + t[n]
  BY SubtotalsAdd DEF AddsUp
<1> HIDE DEF f, g
<1>2. StartAlike(f, g, m)
  BY <1>1 DEF StartAlike
<1>3. Alike(f, g, m)
  BY <1>2, RecursionIsUnique
<1> QED
  BY <1>3 DEF Alike, f, g
=============================================================================
