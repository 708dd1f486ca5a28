----------------------------- MODULE SPFCounter -----------------------------
(***************************************************************************)
(* countSPFLookups (prober/spf_lookup.go): the depth-first walk that       *)
(* counts the DNS lookups an SPF record costs, with its three guards: the  *)
(* lookup budget, the set of targets already expanded, and the depth cap.  *)
(* The recursion walk / recurse is an explicit stack of frames; one step   *)
(* handles one mechanism.                                                  *)
(*                                                                         *)
(* A record is the sequence of its parsed mechanisms; a target name is     *)
(* canonical (lower case, no trailing dot), or Macro.                      *)
(***************************************************************************)
EXTENDS Lists, FiniteSets

CONSTANTS
    Names,          \* include and redirect targets
    Macro,          \* a target that embeds a %{...} macro
    Records,        \* the records that may be published
    NoRecord,       \* a name without an SPF record
    MaxLookups,     \* spfMaxLookups
    MaxDepth        \* spfMaxDepth

Mechanisms == [kind : {"lookup", "include", "redirect", "all", "other"},
               target : Names \cup {Macro}]

ASSUME RecordAssumption ==
    /\ Records \subseteq Seq(Mechanisms)
    /\ NoRecord \notin Records
    /\ Macro \notin Names
ASSUME LimitAssumption ==
    /\ MaxLookups \in Nat \ {0} /\ MaxDepth \in Nat
    /\ MaxLookups <= MaxDepth

VARIABLES
    root,       \* the record that is evaluated
    published,  \* the record published at each name
    stack,      \* the calls of walk: [rec, pos], innermost last
    count, complete, visited,   \* spfCounter
    fetches     \* number of calls of fetch (auxiliary)

vars == <<root, published, stack, count, complete, visited, fetches>>
world == <<root, published>>

Frames == [rec : Records, pos : Nat \ {0}]

Init ==
    /\ root \in Records
    /\ published \in [Names -> Records \cup {NoRecord}]
    /\ stack = <<[rec |-> root, pos |-> 1]>>
    /\ count = 0
    /\ complete = TRUE
    /\ visited = {}
    /\ fetches = 0

Finished == stack = <<>>

Over == count > MaxLookups

Depth == Len(stack) - 1

Top == stack[Len(stack)]

Popped == SubSeq(stack, 1, Len(stack) - 1)

\* The current call of walk moves on to its next mechanism.
Advanced == Append(Popped, [Top EXCEPT !.pos = @ + 1])

\* walk has a mechanism to handle: the budget is checked before each.
Handling == ~Finished /\ ~Over /\ Top.pos <= Len(Top.rec)

Mechanism == Top.rec[Top.pos]

\* Mutant: only an `all` at the head of the record is seen.
BugHasAll(rec) == rec # <<>> /\ rec[1].kind = "all"

HasAll(rec) == \E k \in DOMAIN rec : rec[k].kind = "all"

\* An include, or a redirect in a record without `all`.
Expanding ==
    /\ Handling
    /\ \/ Mechanism.kind = "include"
       \/ Mechanism.kind = "redirect" /\ ~HasAll(Top.rec)
-----------------------------------------------------------------------------
\* walk returns: no mechanism left, or over budget.
Return ==
    /\ ~Finished
    /\ Over \/ Top.pos > Len(Top.rec)
    /\ stack' = Popped
    /\ UNCHANGED <<world, count, complete, visited, fetches>>

\* Mutant: the budget is not checked before the mechanism.
BugCountLookup ==
    /\ ~Finished /\ Top.pos <= Len(Top.rec)
    /\ Mechanism.kind = "lookup"
    /\ count' = count + 1
    /\ stack' = Advanced
    /\ UNCHANGED <<world, complete, visited, fetches>>

\* a, mx, ptr, exists: one lookup, nothing to fetch.
CountLookup ==
    /\ Handling
    /\ Mechanism.kind = "lookup"
    /\ count' = count + 1
    /\ stack' = Advanced
    /\ UNCHANGED <<world, complete, visited, fetches>>

\* all, other, or a redirect that `all` makes void.
SkipMechanism ==
    /\ Handling
    /\ Mechanism.kind # "lookup"
    /\ ~Expanding
    /\ stack' = Advanced
    /\ UNCHANGED <<world, count, complete, visited, fetches>>

\* The include or redirect itself takes the count over the budget.
Overrun ==
    /\ Expanding
    /\ count = MaxLookups
    /\ count' = count + 1
    /\ stack' = Popped
    /\ UNCHANGED <<world, complete, visited, fetches>>

\* The guard of the four outcomes of recurse: the mechanism is counted and
\* leaves the count within the budget.
Recursing == Expanding /\ count < MaxLookups

MacroTarget ==
    /\ Recursing
    /\ Mechanism.target = Macro
    /\ count' = count + 1
    /\ complete' = FALSE
    /\ stack' = Advanced
    /\ UNCHANGED <<world, visited, fetches>>

Cut == Mechanism.target \in visited \/ Depth >= MaxDepth

CutTarget ==
    /\ Recursing
    /\ Mechanism.target # Macro
    /\ Cut
    /\ count' = MaxLookups + 1
    /\ complete' = FALSE
    /\ stack' = Advanced
    /\ UNCHANGED <<world, visited, fetches>>

\* Mutant: the walk counts as complete although a target was not expanded.
BugFetchFails ==
    /\ Recursing
    /\ Mechanism.target # Macro
    /\ ~Cut
    /\ count' = count + 1
    /\ fetches' = fetches + 1
    /\ stack' = Advanced
    /\ UNCHANGED <<world, complete, visited>>

\* No SPF record at the target, or it could not be resolved this time.
FetchFails ==
    /\ Recursing
    /\ Mechanism.target # Macro
    /\ ~Cut
    /\ count' = count + 1
    /\ complete' = FALSE
    /\ fetches' = fetches + 1
    /\ stack' = Advanced
    /\ UNCHANGED <<world, visited>>

\* Mutant: an expanded target is fetched before the budget is checked.
BugFetchOk ==
    /\ Expanding
    /\ Mechanism.target # Macro
    /\ ~Cut
    /\ published[Mechanism.target] # NoRecord
    /\ count' = count + 1
    /\ fetches' = fetches + 1
    /\ visited' = visited \cup {Mechanism.target}
    /\ stack' = Append(Advanced, [rec |-> published[Mechanism.target], pos |-> 1])
    /\ UNCHANGED <<world, complete>>

FetchOk ==
    /\ Recursing
    /\ Mechanism.target # Macro
    /\ ~Cut
    /\ published[Mechanism.target] # NoRecord
    /\ count' = count + 1
    /\ fetches' = fetches + 1
    /\ visited' = visited \cup {Mechanism.target}
    /\ stack' = Append(Advanced, [rec |-> published[Mechanism.target], pos |-> 1])
    /\ UNCHANGED <<world, complete>>

Next == \/ Return \/ CountLookup \/ SkipMechanism \/ Overrun
        \/ MacroTarget \/ CutTarget \/ FetchFails \/ FetchOk

Spec == Init /\ [][Next]_vars

\* What countSPFLookups returns when the walk is over.
Reported == IF Over THEN MaxLookups + 1 ELSE count
-----------------------------------------------------------------------------
TypeOK ==
    /\ root \in Records
    /\ published \in [Names -> Records \cup {NoRecord}]
    /\ stack \in Seq(Frames)
    /\ count \in 0..(MaxLookups + 1)
    /\ complete \in BOOLEAN
    /\ visited \subseteq Names
    /\ fetches \in Nat

\* The budget bounds the work whatever is published, cycles included: at most
\* MaxLookups records are fetched, each at most once when it is there, and the
\* recursion is no deeper than the number of fetches (spf_lookup.go:9-13, 32-33).
BudgetBoundsWork ==
    /\ fetches <= MaxLookups
    /\ Depth <= fetches
    /\ Cardinality(visited) <= fetches
-----------------------------------------------------------------------------
(* What the evaluation of a record costs by RFC 7208, section 4.6.4.       *)

\* Every include counts, and every redirect of a record without `all`.
InForce(rec, term) ==
    \/ term.kind = "include"
    \/ term.kind = "redirect" /\ \A k \in DOMAIN rec : rec[k].kind # "all"

\* The lookups of each mechanism, below being those of each target.
Lookups(rec, below) ==
    [k \in DOMAIN rec |->
        IF rec[k].kind = "lookup" THEN 1
        ELSE IF InForce(rec, rec[k]) THEN 1 + below[rec[k].target]
        ELSE 0]

\* The lookups of each target, counted as often as it is evaluated and without
\* what is nested more than n levels deeper: at MaxLookups + 1 levels that is
\* over the budget in any case.
Below(records) ==
    LET below[n \in 0..(MaxLookups + 1)] ==
            [t \in Names \cup {Macro} |->
                IF n = 0 \/ t = Macro \/ records[t] = NoRecord THEN 0
                ELSE SumOf(Lookups(records[t], below[n - 1]))]
    IN  below

Cost == SumOf(Lookups(root, Below(published)[MaxLookups + 1]))

Smaller(m, n) == IF m < n THEN m ELSE n

\* "count: the exact total for an in-budget record (0-10)", 11 for one that is
\* over (spf_lookup.go:25-27): what a complete walk reports is what the
\* evaluation costs.
CompleteCountIsExact ==
    (Finished /\ complete) => Reported = Smaller(Cost, MaxLookups + 1)

\* An incomplete count within the budget is a lower bound: a branch that could
\* not be fetched, or depends on the sender, contributes at most what it costs
\* (spf_lookup.go:28-30, 100-106).
InBudgetCountIsLowerBound == (Finished /\ ~Over) => Reported <= Cost

\* "complete: false iff ... so count/exceeded are a lower bound"
\* (spf_lookup.go:28-30): no walk reports more than the evaluation costs.
CountIsLowerBound == Finished => Reported <= Smaller(Cost, MaxLookups + 1)
=============================================================================
