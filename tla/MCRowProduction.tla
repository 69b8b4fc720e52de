---------------------------- MODULE MCRowProduction ----------------------------
(***************************************************************************)
(* Instances of RowProduction for TLC: tables of two rows with a head and  *)
(* a body of up to three columns; words of four bits, halves of two.       *)
(***************************************************************************)
EXTENDS RowProduction

Plain(kind, parent) ==
    [kind |-> kind, parent |-> parent, type |-> "other", func |-> "None", bitLen |-> 0, percent |-> FALSE]
Column(parent, func, type) == [Plain("Column", parent) EXCEPT !.func = func, !.type = type]
Sub(parent, func, type, bits) ==
    [Plain("SubColumn", parent) EXCEPT !.func = func, !.type = type, !.bitLen = bits]

Table == <<Plain("Table", 0), Plain("Head", 1), Plain("Column", 2), Plain("Body", 1)>>
Of(elements) == [rows |-> 2, elements |-> elements]

\* A column of two subcolumns between one that keeps its seed and one that fails or does not.
Merges ==
    {Of(Table \o <<Column(4, "None", "uint64"), Column(4, "Merge", type),
                   Sub(6, "Number", "uint32", low), Sub(6, func, "uint32", high)>>) :
        type \in {"uint64", "uint32"}, func \in {"Number", "None"}, low \in 0..5, high \in {0, 2, 4}}

\* Subcolumns that merge their own; more of them than a word has bits; functions in the head.
Nested ==
    {Of(Table \o <<Column(4, "Merge", "uint64"), Sub(5, "Merge", "uint64", 3), Sub(6, "Number", "uint32", 1),
                   Sub(6, "Number", "uint32", 2), Plain("Parameter", 5)>>),
     Of(Table \o <<Column(4, "Merge", "uint64"), Sub(5, "Number", "uint32", 2), Sub(5, "None", "uint32", 2),
                   Sub(5, "None", "uint32", 4)>>),
     [Of(Table \o <<Column(4, "None", "uint64")>>) EXCEPT !.elements[3] = Column(2, "Number", "uint64")],
     [Of(Table) EXCEPT !.elements[3] = Column(2, "Number", "uint64")]}

\* Percentages, bits, a column of another type.
Others ==
    {Of(Table \o <<[Column(4, "Number", "uint64") EXCEPT !.percent = percent],
                   [Column(4, "Number", "other") EXCEPT !.kind = "Bit"]>>) : percent \in BOOLEAN}
    \union {Of(Table \o <<Column(4, "Number", "other"), Column(4, "None", "uint64"),
                          Column(4, "Number", "uint32")>>)}

MCTemplates == Merges \union Nested \union Others
=============================================================================
