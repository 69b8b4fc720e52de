--------------------------- MODULE MCRandomFunc ---------------------------
(***************************************************************************)
(* Instances of RandomFunc for TLC: one to three columns, files of up to   *)
(* three lines, percentages out of four.                                   *)
(***************************************************************************)
EXTENDS RandomFunc

\* Parameters.
P(tag, text, says) == [tag |-> tag, text |-> text, says |-> says]
Source(type) == P("SourceType", "word", type)
Range2(low, high) == <<P("LowRange", "digits", low), P("HighRange", "digits", high)>>
Dim(d, percent, number) ==
    P("Value", "word", [dim |-> d, percent |-> percent, number |-> number, table |-> NoReference])
Key(d) == P("DepKey", "word", [dim |-> d])
Ref(tag, t) == P(tag, "word", [dim |-> NoReference, percent |-> 0, number |-> 0, table |-> t])

Col(type, parameters) == [type |-> type, parameters |-> parameters]

\* Two columns of A have the same index, one is of a type that is not loaded, and C is a file
\* that is nowhere.
Dims ==
    [a1 |-> [file |-> "A", idx |-> 1, type |-> "number"],
     a2 |-> [file |-> "A", idx |-> 2, type |-> "text"],
     a2n |-> [file |-> "A", idx |-> 2, type |-> "number"],
     a3 |-> [file |-> "A", idx |-> 3, type |-> "other"],
     b1 |-> [file |-> "B", idx |-> 1, type |-> "number"],
     c1 |-> [file |-> "C", idx |-> 1, type |-> "number"]]

Whole(fields) == [begins |-> TRUE, newline |-> TRUE, fields |-> fields]
\* A line that the buffer takes in two reads.
Cut(front, rest) == <<[Whole(front) EXCEPT !.newline = FALSE], [Whole(rest) EXCEPT !.begins = FALSE]>>
\* The last line of a file, if no end of line is behind it.
Unended(fields) == [Whole(fields) EXCEPT !.newline = FALSE]

Line == Whole(<<"plain", "plain", "plain">>)
FullLines(n) == [i \in 1..n |-> Line]

Template ==
    [columns |-> <<>>, dim |-> Dims, reads |-> [A |-> FullLines(3), B |-> FullLines(2)],
     rows |-> 2, files |-> 2,
     tables |-> [own |-> [rows |-> 2, sameFiles |-> TRUE, cell |-> 2],
                 other |-> [rows |-> 2, sameFiles |-> TRUE, cell |-> 3],
                 shorter |-> [rows |-> 1, sameFiles |-> TRUE, cell |-> 0],
                 empty |-> [rows |-> 0, sameFiles |-> TRUE, cell |-> 1],
                 uneven |-> [rows |-> 2, sameFiles |-> FALSE, cell |-> 1]]]

One(type, parameters) == [Template EXCEPT !.columns = <<Col(type, parameters)>>]

Numbers ==
    {One(t, <<Source(k)>> \o r) :
        t \in {"number", "string"}, k \in {"Nature", "Pseudo", "Percent"},
        r \in {<<>>, Range2(1, 3), Range2(2, 1), Range2(0, 0), Range2(9, 10), Range2(3, 9),
               <<P("Percent", "digits", 0)>>, <<P("Percent", "digits", 3)>>}}

Defaults == {One("text", <<Source("Default")>> \o v) :
                v \in {<<>>, <<P("Value", "empty", 0)>>, <<P("Value", "word", 3), P("Value", "word", 1)>>}}

FromTables ==
    {One(ty, <<Source(k), Ref("Value", t), Ref("DepColumn", t)>> \o r) :
        ty \in {"number", "string"}, k \in {"Table", "Less", "More"},
        t \in DOMAIN Template.tables \union {"nowhere", NoReference}, r \in {<<>>, Range2(1, 9)}}

\* The lines of A: whole, with fields that are empty, quoted or not there, none, and lines that
\* are longer than the buffer, cut in a field, behind one, and between quotes.
LinesOfA ==
    {FullLines(3), <<>>, <<Line, Whole(<<"plain">>)>>, <<Line, Unended(<<"plain", "empty">>)>>,
     <<Line, Whole(<<"plain", "empty", "plain">>)>>, <<Whole(<<"empty", "plain", "plain">>)>>,
     <<Line, Whole(<<"quoted", "quoted", "plain">>)>>, <<Whole(<<"plain", "quoted", "plain">>)>>,
     <<Whole(<<"quoted">>), Unended(<<"quoted">>)>>, <<Whole(<<"inner", "plain", "plain">>), Line>>,
     <<Line>> \o Cut(<<"plain", "plain">>, <<"plain", "plain">>),
     <<Line>> \o Cut(<<"plain", "plain">>, <<"plain">>), Cut(<<"plain", "empty">>, <<"plain", "plain">>),
     Cut(<<"plain", "broken">>, <<"inner", "plain">>)}

FromFiles ==
    {[One("number", <<Source("File"), Dim(d, 0, 0)>> \o r) EXCEPT !.reads.A = ls] :
        d \in {"a1", "a2", "a2n", "a3", "c1", "unknown", NoReference},
        r \in {<<>>, Range2(1, 1), Range2(1, 9), Range2(2, 1)}, ls \in LinesOfA}

\* Columns that ask for columns of one file, in every order.
Sharing ==
    {[Template EXCEPT !.columns = [i \in 1..3 |-> Col(Dims[ds[i]].type, <<Source("File"), Dim(ds[i], 0, 0)>>)],
                      !.files = 1, !.reads.A = ls] :
        ds \in [1..3 -> {"a1", "a2", "a2n"}], ls \in {FullLines(2), <<Line, Whole(<<"plain", "quoted", "plain">>)>>}}

Multi(n, m, dims) ==
    [One("number", <<Source("MultiFile")>> \o dims) EXCEPT !.rows = n, !.files = m]

\* One file or two, with windows of some of their lines, of all and of more.  The percentages
\* count twice.
MultiFiles ==
    {Multi(9, 1, <<Dim("a1", p, n), Dim("b1", 2 - p, m)>>) :
        p \in {1, 2}, n \in {0, 2}, m \in {1, 9}}
    \union {Multi(5, 2, <<Dim("a1", 2, n)>>) : n \in {0, 1, 2, 3, 4}}
    \union {[Multi(4, 1, <<Dim("a1", 1, 2), Dim("b1", 1, 1)>>) EXCEPT !.reads.B = <<>>],
            [Multi(4, 1, <<Dim("a1", 0, 0), Dim("b1", 2, 1)>>) EXCEPT !.reads.A = <<>>],
            Multi(4, 1, <<>>), Multi(4, 1, <<Dim("a1", 1, 1), Dim("a2n", 1, 0)>>),
            Multi(4, 1, <<Dim("a1", 1, 1), Dim("a2", 1, 0)>>)}
    \* More files than a byte can number.
    \union {[Multi(5, 1, [i \in 1..5 |-> Dim("b1", IF i < 5 THEN 0 ELSE 2, 0)]) EXCEPT !.reads.B = <<Line>>]}
    \* Percentages that are too few, too many, and more than a byte.
    \union {Multi(2, 1, <<Dim("a1", p, 0), Dim("b1", q, 0)>>) : p \in {1, 4, 12}, q \in {0, 2, 3, 8}}

Odd ==
    {One("number", ps) : ps \in {
        <<>>, <<Source("Invalid")>>, <<Dim("a1", 0, 0)>>, <<P("Invalid", "word", 0)>>,
        <<P("Step", "word", 0), Source("Nature")>>, <<P("IMSIType", "word", 0)>>,
        <<Source("Nature"), P("Percent", "word", 0)>>, <<Source("Nature"), P("LowRange", "empty", 0)>>,
        <<P("byte_array_right_align", "digits", 1)>>, <<P("byte_array_right_align", "word", 1)>>,
        <<Source("File"), P("Value", "empty", 0)>>, <<Source("File"), Key("a1")>>,
        <<Source("Mapping"), Key(NoReference)>>, <<Source("Mapping"), Key("unknown")>>,
        <<Source("Mapping"), Key("a1"), Key("b1")>>,
        <<Source("Mapping"), Dim("a2", 0, 0), Key("a1"), Ref("DepColumn", "own")>>,
        <<Source("Mapping"), Dim("a2", 0, 0), Ref("DepColumn", "own")>>,
        <<Source("Mapping"), Dim("a2", 0, 0), Key("a1")>>}}

MCTemplates ==
    Numbers \union Defaults \union FromTables \union FromFiles \union Sharing \union MultiFiles \union Odd
=============================================================================
