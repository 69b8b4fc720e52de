-------------------------- MODULE MCTemplateParser --------------------------
(***************************************************************************)
(* Instances of TemplateParser for TLC: a model of one interface with up   *)
(* to three tables, a function that gives them rows, a column with its     *)
(* parameters and a dimension file; percentages out of ten, a word of 16.  *)
(***************************************************************************)
EXTENDS TemplateParser

\* An element as it is when its text says nothing; parameters of the template are made of it.
Element0 ==
    [kind |-> "Other", parent |-> 1, name |-> "x", unknown |-> FALSE, lacks |-> {}, uses |-> "none",
     func |-> "none", wraps |-> 1, seed |-> [kind |-> "none", lines |-> 0],
     rowNum |-> [kind |-> "none", n |-> 0], fileNum |-> 1, size |-> 1, mode |-> "none",
     processes |-> TRUE, asks |-> {}, address |-> FALSE, tag |-> "none", text |-> "word", says |-> 0,
     numbers |-> <<>>]

Model == [Element0 EXCEPT !.kind = "AligndataModel", !.parent = 0]
Function(name, func) == [Element0 EXCEPT !.kind = "Function", !.name = name, !.func = func, !.wraps = Word]
Parameter(parent, tag, says) ==
    [Element0 EXCEPT !.kind = "Parameter", !.parent = parent, !.tag = tag, !.says = says]
Percent(parent, numbers) == [Parameter(parent, "Percent", "ok") EXCEPT !.numbers = numbers]
Interface == [Element0 EXCEPT !.kind = "Interface"]
Table(parent, name, seed, rowNum) ==
    [Element0 EXCEPT !.kind = "Table", !.parent = parent, !.name = name, !.seed = seed, !.rowNum = rowNum]
Rows(kind, n) == [kind |-> kind, n |-> n]
Seed(kind, lines) == [kind |-> kind, lines |-> lines]
GivenRows(e, n) == [e EXCEPT !.rowNum = Rows("function", 0), !.uses = "f", !.fileNum = n]
Column(parent, kind, func) == [Element0 EXCEPT !.kind = kind, !.parent = parent, !.func = func]

Template == [readable |-> TRUE, onDisk |-> {"d"}, elements |-> <<Model>>]
Of(elements) == [Template EXCEPT !.elements = elements]

EmptySeed(name) == Table(6, name, Seed("empty", 0), Rows("number", 1))

\* A function and the tables it gives rows; each table has as many files as there are tables,
\* or one more.
Divided(total, percents, source, tabs, n) ==
    Of(<<Model, Function("f", "RedefineRow"), Parameter(2, "SourceType", source),
         Parameter(2, "TotNumber", total), Percent(2, percents), Interface>>
       \o [i \in 1..tabs |-> GivenRows(EmptySeed(<<"a", "b", "c">>[i]), n)])

Shares == {Divided(total, percents, "Default", tabs, n) :
              total \in {0, 7, 10, 20}, percents \in {<<>>, <<3>>, <<8, 5>>, <<5, 5, 5, 5>>},
              tabs \in {2, 3}, n \in {2, 3}}
          \union {Divided(40, <<5>>, "Default", 2, 2), Divided(7, <<>>, "Other", 1, 1),
                  Divided(7, <<0>>, "File", 1, 1), Divided(7, <<0>>, "File", 1, 2),
                  [Divided(7, <<0>>, "File", 1, 1) EXCEPT !.elements[5].says = "unknown"],
                  Divided(7, <<>>, "Invalid", 1, 1)}

\* Functions that are not where, or what, the table expects.
Odd1 == Divided(7, <<3>>, "Default", 1, 1).elements
Functions ==
    {Of(es) : es \in {
        [Odd1 EXCEPT ![2].name = "g"], [Odd1 EXCEPT ![2].func = "Base"], [Odd1 EXCEPT ![2].wraps = 4],
        [Odd1 EXCEPT ![4].text = "empty"], [Odd1 EXCEPT ![4].tag = "Other"],
        [Odd1 EXCEPT ![3].tag = "Other"], [Odd1 EXCEPT ![2].lacks = {"type"}],
        [Odd1 EXCEPT ![2].processes = FALSE], [Odd1 EXCEPT ![7].unknown = TRUE],
        [Odd1 EXCEPT ![6].uses = "g"],
        Append(Odd1, [Function("f", "Base") EXCEPT !.parent = 1]),
        <<Model, Interface, [GivenRows(EmptySeed("a"), 1) EXCEPT !.parent = 2],
          Function("f", "RedefineRow"), Parameter(4, "TotNumber", 7)>>,
        <<Model, Interface, Table(2, "a", Seed("empty", 0), Rows("number", 1)),
          [Function("f", "RedefineRow") EXCEPT !.parent = 3], Parameter(4, "SourceType", "Default"),
          Parameter(4, "TotNumber", 7), Percent(4, <<5>>),
          [GivenRows(EmptySeed("b"), 3) EXCEPT !.parent = 2]>>}}

\* A table with its seed, of all the ways to say how many rows it has and how it is copied.
Seeds ==
    {Of(<<Model, Interface, [Table(2, "a", seed, rowNum) EXCEPT !.mode = mode]>>) :
        seed \in {Seed("file", 0), Seed("file", 2), Seed("file", 3), Seed("directory", 2), Seed("none", 0),
                  Seed("nowhere", 0), Seed("badType", 0), Seed("empty", 0), Seed("noBody", 1)},
        rowNum \in {Rows("number", n) : n \in {-2, -1, 0, 1, 2, 5, 7, Word, Word + 1}}
                   \union {Rows("perFlow", 3), Rows("none", 0)},
        mode \in {"true", "false", "none"}}
    \union {Of(<<Model, Interface,
                [Table(2, "a", Seed("directory", 1), Rows("number", 5)) EXCEPT !.mode = "false"],
                [Table(2, name, Seed("directory", 2), Rows("number", 4)) EXCEPT !.mode = "false", !.size = 2]>>) :
               name \in {"a", "b"}}

\* A column, with subcolumns and parameters, and a dimension file.
Columns ==
    {Of(<<Model, [Element0 EXCEPT !.kind = "DimensionalFile", !.name = "d"],
          [Element0 EXCEPT !.kind = "FileColumn", !.parent = 2, !.name = "c"],
          Interface, Table(4, "a", Seed("empty", 0), Rows("number", 1)),
          [Element0 EXCEPT !.kind = "Body", !.parent = 5], Column(6, "Column", func),
          [Parameter(7, "Value", 0) EXCEPT !.asks = asks, !.processes = processes],
          Column(7, "SubColumn", "Random"), Parameter(9, "Value", 0), Parameter(7, "Value", 1)>>) :
        func \in {"Merge", "Random"}, asks \in {{}, {"d"}, {"nowhere"}}, processes \in BOOLEAN}

\* Subcolumns that lack their type or their bits, of addresses and of others, and astray.
Subcolumns ==
    {Of(<<Model, Interface, Table(2, "a", Seed("empty", 0), Rows("number", 1)),
          [Column(3, kind, "Merge") EXCEPT !.address = address],
          [Column(4, "SubColumn", "Random") EXCEPT !.lacks = lacks, !.processes = processes]>>) :
        kind \in {"Column", "Body"}, address \in BOOLEAN,
        lacks \in {{}, {"type"}, {"bitLen"}}, processes \in BOOLEAN}

OddElements ==
    {Of(es) : es \in {
        <<Model, [Element0 EXCEPT !.kind = "Invalid"]>>, <<[Model EXCEPT !.kind = "Interface"]>>,
        <<Model, Table(1, "a", Seed("empty", 0), Rows("number", 1))>>,
        <<Table(0, "a", Seed("empty", 0), Rows("number", 1))>>,
        <<Model, Interface, [Table(2, "a", Seed("directory", 2), Rows("number", 1)) EXCEPT !.lacks = {"interval"}]>>,
        <<Model, Interface, [Table(2, "a", Seed("directory", 2), Rows("number", 1)) EXCEPT !.unknown = TRUE]>>,
        <<Model, [Element0 EXCEPT !.kind = "DimensionalFile", !.lacks = {"sourceType"}]>>,
        <<Model, [Element0 EXCEPT !.kind = "DimensionalFile"],
          [Element0 EXCEPT !.kind = "FileColumn", !.parent = 2, !.lacks = {"colIdx"}]>>,
        <<Model, Column(1, "Bit", "Random")>>,
        <<Model, Column(1, "Column", "Random")>>, <<Model, Interface, Parameter(2, "Value", 0)>>,
        <<Model, [Interface EXCEPT !.unknown = TRUE],
          [Table(2, "a", Seed("empty", 0), Rows("number", 1)) EXCEPT !.processes = FALSE]>>,
        <<Model, [Element0 EXCEPT !.kind = "DimensionalFile", !.name = "d"],
          [Element0 EXCEPT !.kind = "DimensionalFile", !.name = "d"]>>}}
    \union {[Template EXCEPT !.readable = FALSE]}

MCTemplates == Shares \union Functions \union Seeds \union Columns \union Subcolumns \union OddElements
=============================================================================
