---------------------------- MODULE MCRecordText ----------------------------
(***************************************************************************)
(* Instances of RecordText for TLC: behind a head with two fields, every   *)
(* tree of up to four elements in the body of a table, structures in       *)
(* structures down to the depth of the stack and beyond it, and the unions *)
(* with and without a flag.                                                *)
(***************************************************************************)
EXTENDS RecordText

MCLength == "number" :> 1 @@ "text" :> 3 @@ "short" :> 1

HeadKind == <<"interface", "table", "head", "struct", "number", "short", "body">>
HeadDepth == <<0, 1, 2, 3, 4, 4, 2>>

Template(k, d, f) ==
    [kind |-> HeadKind \o k, depth |-> HeadDepth \o d, flags |-> {n + Len(HeadKind) : n \in f}]

\* The depths of the trees of n elements below the body, whatever their kinds are.
Shapes(n, kind) ==
    {d \in [1..n -> 3..(n + 2)] :
        /\ d[1] = 3
        /\ \A i \in 2..n : d[i] <= d[i - 1] + (IF kind[i - 1] \in Nested THEN 1 ELSE 0)}

Trees(n, kinds) == UNION {{Template(k, d, {}) : d \in Shapes(n, k)} : k \in [1..n -> kinds]}

\* Every union has two members at least.
Filled(t) ==
    \A u \in DOMAIN t.kind : t.kind[u] = "union" =>
        Cardinality({m \in DOMAIN t.kind : IsBelow(t, m, u) /\ t.depth[m] = t.depth[u] + 1}) >= 2

Small == UNION {Trees(n, {"number", "text", "short", "untyped", "struct", "other"}) : n \in 1..3}
Plain == Trees(4, {"number", "text", "struct"})
Deep == Trees(5, {"number", "struct"})
Unions == {t \in Trees(4, {"number", "text", "struct", "union"}) : Filled(t)}
             \union {t \in Trees(5, {"number", "union"}) : Filled(t)}

\* A flag before a union of two columns, alone, behind a field and before one, and a flag
\* before a plain column.
WithFlags ==
    {Template(<<"struct", "number", "union", m, "number">>, <<3, 4, 4, 5, 5>>, {2}) :
        m \in {"number", "text"}}
    \union
    {Template(<<"struct", a, "number", "union", "number", "number", b>>,
              <<3, 4, 4, 4, 5, 5, 4>>, {3}) : a \in {"number", "text"}, b \in {"number", "text"}}
    \union {Template(<<"struct", "number", "text">>, <<3, 4, 4>>, {2})}

MCTemplates == Small \union Plain \union Deep \union Unions \union WithFlags
=============================================================================
