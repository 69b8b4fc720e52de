--------------------------- MODULE MCAcculateFunc ---------------------------
(***************************************************************************)
(* Instances of AcculateFunc for TLC, from the parameters of the template: *)
(* 6 bit integers, three files of six rows, and of four where rows are     *)
(* left out.                                                               *)
(***************************************************************************)
EXTENDS AcculateParameters

Parameter(tag, text, n) == [tag |-> tag, text |-> text, n |-> n, digits |-> IF n \in 10..99 THEN 2 ELSE 1]
Digits(tag, n) == Parameter(tag, "digits", n)
Text(tag, text) == Parameter(tag, text, 0)

Count(low, high, init, step) ==
    <<Digits("LowRange", low), Digits("HighRange", high), Digits("Init", init), Digits("Step", step)>>
Units(u, r) == <<Digits("DuplicatedUnit", u), Digits("Reset", r)>>
Batches(b, p) == <<Digits("RowsInBatch", b), Digits("PercentInBatch", p)>>

\* A file with a field of the column's type in each line.
Lines(n) == [lines |-> n, holes |-> {}, fits |-> TRUE]

\* Ranges the count passes the end of, more than once, and never.
Counting ==
    UNION {ColumnsOf(Count(3, h, i, s) \o Units(u, r), 6, Lines(4)) :
        h \in {3, 9, 31}, i \in {0, 5, 20}, s \in {1, 2, 4}, u \in {0, 2, 3}, r \in {0, 1}}

\* Some rows get no number: the files are shorter, because every choice of rows is tried.
Skipping ==
    UNION {ColumnsOf(Count(3, 6, 5, 1) \o Units(u, r) \o <<Digits("Percent", 50)>> \o Batches(b, 50), 4, Lines(4)) :
        u \in {0, 2}, r \in {0, 1}, b \in {0, 2}}

\* Batches with every kind of jump, in a range that ends in the file and in one that does not.
Jumping ==
    UNION {ColumnsOf(Count(3, h, 5, s) \o Units(u, r) \o Batches(b, p), 6, Lines(4)) :
        h \in {9, 31}, s \in {1, 2}, u \in {1, 2}, r \in {0, 1},
        b \in {2, 3, 4}, p \in {0, 25, 50, 75, Byte + 25, 200}}

\* The lines of a file, which is named after the kind of source or before it.
FromFile ==
    UNION {ColumnsOf(Units(u, 0) \o <<Text(tags[1][1], tags[1][2]), Text(tags[2][1], tags[2][2])>>, n, Lines(l)) :
        tags \in {<<<<"SourceType", "FileAcculate">>, <<"Value", value>>>> : value \in {"column", "nowhere", "word"}}
                 \union {<<<<"Value", "column">>, <<"SourceType", "FileAcculate">>>>,
                         <<<<"SourceType", "word">>, <<"Value", "column">>>>},
        l \in {1, 4, 7}, u \in {0, 2, 3}, n \in {5, 6}}

AFile == <<Text("SourceType", "FileAcculate"), Text("Value", "column")>>

\* Files begun at another line, or past the last: by an Init behind the kind of source or
\* before it, by a prefix, by a time.  Files without lines or without a field in one of them,
\* and of another type.
FromLine ==
    UNION {ColumnsOf(params, 5, source) :
        params \in {AFile \o <<Digits("Init", i)>> : i \in {1, 3, 9}}
                   \union {<<Digits("Init", 2), Digits("DuplicatedUnit", 2)>> \o AFile,
                           <<Digits("Prefix", 3)>> \o AFile, <<Digits("Prefix", 1), Digits("DuplicatedUnit", 2)>> \o AFile,
                           <<Text("Prefix", "current_+")>> \o AFile, AFile},
        source \in {Lines(l) : l \in {0, 1, 3, 4, 12}}
                   \union {[lines |-> 4, holes |-> h, fits |-> b] : h \in {{}, {2}, {3, 0}}, b \in BOOLEAN}}

\* First numbers with a prefix, one that is a time, and one that does not fit.
Prefixed ==
    UNION {ColumnsOf(<<prefix, Digits("Init", i), Digits("Step", 1)>>, 6, Lines(4)) :
        prefix \in {Text("Prefix", text) : text \in {"0", "word", "current_+", "empty"}}
                   \union {Digits("Prefix", 2), Parameter("Prefix", "current_-", 2),
                           [Text("Prefix", "current_-") EXCEPT !.n = -1]},
        i \in {3, 12}}

\* Bounds exchanged, no step, no number at all, the end of the integers, alignments.
Odd ==
    UNION {ColumnsOf(params, 6, Lines(4)) : params \in {
        Count(9, 2, 5, 1), Count(3, 60, 5, 0), Append(Count(3, 60, 5, 1), Digits("Percent", 0)),
        <<Digits("Init", 29), Digits("Step", 9)>>, <<Digits("Step", 1)>>,
        <<Text("Init", "word")>>, <<Text("Invalid", "word")>>, Append(Count(3, 60, 5, 1), Digits("byte_array_right_align", 1)),
        Append(Count(3, 60, 5, 1), Text("IMSIType", "word"))}}

AllColumns == Counting \union Skipping \union Jumping \union FromFile \union FromLine \union Prefixed \union Odd

=============================================================================
