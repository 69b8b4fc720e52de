------------------------- MODULE MCUniqueRandomFunc -------------------------
(***************************************************************************)
(* Instances of UniqueRandomFunc for TLC, from the parameters of the       *)
(* template: batches of one to five rows, the file a multiple of the batch *)
(* and not, every share of different numbers that a batch this small tells *)
(* apart, a range that is wide enough, one that is too narrow and one      *)
(* whose bounds are exchanged.                                             *)
(***************************************************************************)
EXTENDS UniqueParameters

Parameter(tag, text, n) == [tag |-> tag, text |-> text, n |-> n]
Digits(tag, n) == Parameter(tag, "digits", n)

Numbered(low, high, reset) ==
    <<Digits("LowRange", low), Digits("HighRange", high), Digits("Reset", reset)>>
Batches(b, s) == <<Digits("RowsInBatch", b), Digits("PercentInBatch", s)>>

SmallColumns ==
    UNION {ColumnsOf(Numbered(1, h, r) \o <<Digits("Percent", p)>> \o Batches(b, s), {3, 4, 5}) :
        h \in {3, 8}, r \in {0, 1}, p \in {50, 100}, b \in {1, 2, 4, 5}, s \in {50, 75, 100}}

\* Bounds exchanged, no numbers, the defaults, batches that cannot be made, and percentages and
\* rows of which some bits are left.
OddColumns ==
    UNION {ColumnsOf(params, {3, 4}) : params \in {
        Numbered(5, 2, 0) \o Batches(2, 75), Append(Numbered(1, 8, Byte), Digits("Percent", 0)),
        <<>>, Batches(0, 100), Append(Batches(0, 100), Digits("Percent", 50)), Batches(2, 49),
        Batches(Narrow + 2, Byte + 75), Batches(2, 101), <<Digits("Invalid", 1)>>,
        <<Parameter("Percent", "word", 0)>>, <<Parameter("Reset", "empty", 0)>>,
        <<Digits("Step", 1), Digits("LowRange", MaxUint64), Parameter("Reset", "word", 0)>>,
        <<Digits("byte_array_right_align", 1)>>}}

AllColumns == SmallColumns \union OddColumns
=============================================================================
