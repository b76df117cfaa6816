----------------------------- MODULE MCQueries -----------------------------
EXTENDS Queries

here  == <<"d", "here">>
other == <<"e", "other">>
AllStreams == {here, <<"d", "more">>, other}
Both == {here, other}
Keys == {<<here, "c">>}

x == [f \in {"f"} |-> "x"]

\* v1: any combination of an equality, a subset and a handler on one kind,
\* alone or beside another kind.
OneKind == [eq : {{}, {<<"f", "x">>}}, match : {{}, {x}}, on : BOOLEAN]
Other == {[eq |-> {}, match |-> {}, on |-> TRUE], [eq |-> {<<"f", "x">>}, match |-> {}, on |-> TRUE]}
V1 == {<<>>} \cup [{"k"} -> OneKind]
        \cup {b \in [Kind -> OneKind \cup Other] : b["l"] \in Other}

\* query2: up to two clauses, of the same or of different kinds, with
\* handlers missing here and there.
OnKind(k, each, subsets) == [kind |-> k, each |-> each, subsets |-> subsets]
Clauses == {OnKind("k", FALSE, <<>>), OnKind("l", TRUE, <<>>),
            OnKind("k", TRUE, <<[doc |-> x, on |-> TRUE]>>),
            OnKind("k", FALSE, <<[doc |-> x, on |-> FALSE], [doc |-> <<>>, on |-> TRUE]>>)}
UpTo(n) == UNION {[1..m -> Clauses] : m \in 0..n}
R2 == [kinds : UpTo(2), ids : {<<>>}, after : {-1, 0, 1}]
        \cup [kinds : UpTo(1), ids : {<<[id |-> 1, on |-> b]>> : b \in BOOLEAN}, after : {-1, 1}]
=============================================================================
