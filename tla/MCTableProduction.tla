------------------------- MODULE MCTableProduction -------------------------
(***************************************************************************)
(* Instances of TableProduction for TLC: three tables, with every graph of *)
(* dependencies between them and every choice of one to three files each.  *)
(***************************************************************************)
EXTENDS TableProduction, TLC

CONSTANTS ta, tb, tc

NameOrder == <<ta, tb, tc>>
TextOrder == <<tc, ta, tb>>

\* m_beDependedTables is filled in the order of the template's text.
BeDepended(deps) == [t \in Tables |-> SelectSeq(TextOrder, LAMBDA u : t \in deps[u])]

Rows == (ta :> 1) @@ (tb :> 2) @@ (tc :> 1)

OwnIds == (ta :> 0) @@ (tb :> 1) @@ (tc :> 2)
SharedIds == (ta :> 0) @@ (tb :> 1) @@ (tc :> 1)

\* No table depends on itself.
Graphs == {g \in [Tables -> SUBSET Tables] : \A t \in Tables : t \notin g[t]}

Built(deps, fileNum, id, stream) ==
    [deps |-> deps, beDepended |-> BeDepended(deps), fileNum |-> fileNum, id |-> id, stream |-> stream]

AnyGraph == {Built(g, n, OwnIds, b) : g \in Graphs, n \in [Tables -> 1..3], b \in BOOLEAN}

\* The templates nothing forbids: a table that depends on itself, no file at all, a
\* tableid used twice, and two columns that depend on the same table.
Odd ==
    LET NoDeps == [t \in Tables |-> {}]
        OnOne == [t \in Tables |-> IF t = ta THEN {} ELSE {ta}]
    IN  UNION {{Built([t \in Tables |-> {ta}], Rows, OwnIds, b),
                Built(NoDeps, [t \in Tables |-> 0], OwnIds, b),
                Built(NoDeps, Rows, SharedIds, b),
                [Built(OnOne, Rows, OwnIds, b) EXCEPT !.beDepended[ta] = <<tb, tc, tb>>]}
               : b \in BOOLEAN}

AllTemplates == AnyGraph \union Odd

StreamTemplates == {x \in AnyGraph : x.stream}
=============================================================================
