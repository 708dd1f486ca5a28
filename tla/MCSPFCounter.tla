---------------------------- MODULE MCSPFCounter ----------------------------
(* All small worlds of SPF records. *)
EXTENDS SPFCounter

CONSTANTS x, y, z

Term(k, t) == [kind |-> k, target |-> t]
Address == Term("lookup", Macro)
All == Term("all", Macro)

SmallRecords == {
    <<>>, <<Address, Address, Term("other", Macro)>>,
    <<Term("include", x)>>, <<Term("include", z)>>,
    <<Term("include", x), Term("include", y)>>,
    <<Address, Term("include", y), Address>>,
    <<Term("redirect", y), All>>,
    <<Term("include", z), Term("redirect", x)>>,
    <<Term("include", Macro), Address, Term("redirect", y), All>> }
=============================================================================
