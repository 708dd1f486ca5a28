------------------------------- MODULE Lists -------------------------------
(***************************************************************************)
(* Loops over a slice that keep some of its elements.  They are recursive  *)
(* functions of the index, as SelectSeq and FoldLeft are, but over sets,   *)
(* so that the provers can use them.                                       *)
(***************************************************************************)
EXTENDS Integers, Sequences

\* The elements of a sequence that are in a set, in its order.
Filter(s, S) ==
    LET kept[n \in 0..Len(s)] ==
            IF n = 0 THEN <<>>
            ELSE IF s[n] \in S THEN Append(kept[n - 1], s[n]) ELSE kept[n - 1]
    IN  kept[Len(s)]

\* Its elements, each the first time that it comes.
Distinct(s) ==
    LET first == {k \in 1..Len(s) : \A j \in 1..(k - 1) : s[j] # s[k]}
        places == Filter([k \in 1..Len(s) |-> k], first)
    IN  [k \in 1..Len(places) |-> s[places[k]]]

\* Of a list of numbers, the sums of its first elements: Subtotals(s)[n] of n.
Subtotals(s) ==
    LET sum[n \in 0..Len(s)] == IF n = 0 THEN 0 ELSE sum[n - 1] + s[n]
    IN  sum

SumOf(s) == Subtotals(s)[Len(s)]
=============================================================================
