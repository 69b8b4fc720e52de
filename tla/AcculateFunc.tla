----------------------------- MODULE AcculateFunc -----------------------------
(***************************************************************************)
(* The column function AcculateFunc (src/fun/BaseFuncClass.cc): a number   *)
(* that runs from row to row and from file to file.  A column of the kind  *)
(* "number" counts by m_step between two bounds; it may start again with   *)
(* each file, give each number to several rows, leave rows out, and jump   *)
(* back in each batch of rows so that a part of them repeats.  A column of *)
(* the kind "file" (SourceType FileAcculate) counts through the lines of a *)
(* dimension file instead.                                                 *)
(***************************************************************************)
EXTENDS Integers, Sequences, FiniteSets, FiniteSetsExt

CONSTANTS
    Columns,      \* the columns: records of the kind of Column
    MaxFiles,     \* bound: files of the table
    Modulus       \* the number of values of a uint64_t

(* What process leaves of the column's parameters, the rows m_rownum of    *)
(* its table, and of the dimension file the lines, those that have no      *)
(* field for the column (holes, counted from 0), and whether its fields    *)
(* are of the column's type (fits).  Without a SourceType m_type is not    *)
(* initialised: the column is of the kind "number", or of the kind "none"  *)
(* if m_type happens to be FileAcculate, whose Calculate then finds no     *)
(* file and sets no value.                                                 *)
Column ==
    [kind : {"number", "file", "none"}, low : 0..(Modulus - 1), high : 0..(Modulus - 1),
     init : 0..(Modulus - 1), step : Nat, unit : Nat, reset : BOOLEAN, percent : 0..100,
     rowsInBatch : Nat, percentInBatch : 0..100, rows : Nat \ {0},
     lines : Nat, holes : SUBSET Nat, fits : BOOLEAN]

ASSUME ColumnsAssumption ==
    /\ Modulus \in Nat \ {0} /\ MaxFiles \in Nat \ {0}
    /\ Columns \subseteq Column

VARIABLES
    col,          \* the column
    row,          \* m_curFilledCount of the table: rows the file has
    file,         \* the number of the file
    last,         \* m_lastnumber
    rowIdx,       \* m_rowIdx: numbers the file has taken
    unit,         \* duplicatedUnit: rows the number has been given to, and one
    numbers,      \* the numbers of the file's rows
    dead,         \* the program ended in a row
    first,        \* history: the numbers of the first file
    drawn         \* history: the rows of all files that got a number

vars == <<col, row, file, last, rowIdx, unit, numbers, dead, first, drawn>>

Blank == -1       \* a row that is left without a number

Init ==
    /\ col \in Columns
    /\ row = 0 /\ file = 1
    /\ last = col.init
    /\ rowIdx = 0 /\ unit = 1
    /\ numbers = <<>> /\ dead = FALSE /\ first = <<>> /\ drawn = 0

-----------------------------------------------------------------------------
(* The parts of Calculate.                                                 *)

\* Fault: the upper bound is not looked at.
ClampedBelow(n) == IF n < col.low THEN col.low ELSE n

\* Fault: the end of the range is left out.
ClampedExclusive(n) == IF n < col.low \/ n >= col.high THEN col.low ELSE n

\* Outside its bounds the number starts again at the lower one.
Clamped(n) == IF n < col.low \/ n > col.high THEN col.low ELSE n

\* Fault: the count of numbers goes on from file to file.
RowIdxGoesOn == rowIdx

\* The first row of a file: numbers are counted again, and start again if the column says so.
RowIdxAt == IF row = 0 THEN 0 ELSE rowIdx
LastAt == Clamped(IF row = 0 /\ col.reset THEN col.init ELSE last)

Batched == col.rowsInBatch # 0 /\ col.percentInBatch # 100

\* Fault: the jump is as long as the part of the batch that counts on.
JumpOfHead == (col.rowsInBatch * col.percentInBatch) \div 100

\* The rows of a batch that count on, and the jump back after them.
HeadRows == (col.rowsInBatch * col.percentInBatch) \div 100
Jump == (col.rowsInBatch * (100 - col.percentInBatch)) \div 100

\* The number of the row.  The jump is an unsigned subtraction, made on every row that has
\* the index, and the bounds are not looked at again.
Number ==
    IF Batched /\ RowIdxAt % col.rowsInBatch = HeadRows
    THEN (LastAt - Jump) % Modulus
    ELSE LastAt

\* All the rows of a number have it.
UnitEnds == col.unit <= 1 \/ unit = col.unit

-----------------------------------------------------------------------------
(* Calculate.                                                              *)

\* Rows are made of a column of this kind.
Calculates(kind) == ~dead /\ row < col.rows /\ col.kind = kind

\* The row gets n; the number goes on to next when it has had its rows.
Give(n, next) ==
    /\ numbers' = Append(numbers, n)
    /\ row' = row + 1
    /\ drawn' = drawn + 1
    /\ last' = IF UnitEnds THEN next ELSE n
    /\ unit' = IF col.unit <= 1 THEN unit ELSE IF UnitEnds THEN 1 ELSE unit + 1
    /\ UNCHANGED <<col, file, dead, first>>

\* The row gets nothing.
Leave ==
    /\ numbers' = Append(numbers, Blank)
    /\ row' = row + 1
    /\ UNCHANGED <<col, file, unit, dead, first, drawn>>

\* The random number of the row is within the percentage.
Draw ==
    /\ Calculates("number") /\ col.percent > 0
    /\ Give(Number, (Number + col.step) % Modulus)
    /\ rowIdx' = IF UnitEnds THEN RowIdxAt + 1 ELSE RowIdxAt

\* It is not.
Skip ==
    /\ Calculates("number") /\ col.percent < 100
    /\ Leave
    /\ last' = LastAt /\ rowIdx' = RowIdxAt

\* FileAcculateCalculate: the lines one after another, and over again.
LineAt == IF last > col.lines - 1 THEN 0 ELSE last

FileAcculate ==
    /\ Calculates("file") /\ col.lines > 0 /\ LineAt \notin col.holes /\ col.fits
    /\ Give(LineAt, (LineAt + 1) % Modulus)
    /\ UNCHANGED rowIdx

\* It asks the type of a field that was not read.
Die ==
    /\ Calculates("file") /\ col.lines > 0 /\ LineAt \in col.holes
    /\ dead' = TRUE
    /\ UNCHANGED <<col, row, file, last, rowIdx, unit, numbers, first, drawn>>

\* It returns false, which Calculate does not look at: a field of another type,
Misfit ==
    /\ Calculates("file") /\ col.lines > 0 /\ LineAt \notin col.holes /\ ~col.fits
    /\ Leave
    /\ last' = LineAt /\ UNCHANGED rowIdx

\* a file without lines, or no file.
NoLines ==
    /\ Calculates("none") \/ (Calculates("file") /\ col.lines = 0)
    /\ Leave
    /\ UNCHANGED <<last, rowIdx>>

Calculate == Draw \/ Skip \/ FileAcculate \/ Die \/ Misfit \/ NoLines

\* The table starts its next file.
NextFile ==
    /\ ~dead /\ row = col.rows /\ file < MaxFiles
    /\ row' = 0 /\ file' = file + 1
    /\ numbers' = <<>>
    /\ first' = IF file = 1 THEN numbers ELSE first
    /\ UNCHANGED <<col, last, rowIdx, unit, dead, drawn>>

Next == Calculate \/ NextFile

Spec == Init /\ [][Next]_vars

-----------------------------------------------------------------------------
(* What the function promises its column.                                  *)

(* The state has its types, and a number never has more rows than its unit. *)
TypeOK ==
    /\ col \in Columns /\ row \in 0..col.rows /\ file \in 1..MaxFiles
    /\ last \in 0..(Modulus - 1) /\ rowIdx \in 0..(IF row = 0 THEN col.rows ELSE row)
    /\ unit \in 1..(IF col.unit <= 1 THEN 1 ELSE col.unit)
    /\ numbers \in Seq((0..(Modulus - 1)) \union {Blank}) /\ Len(numbers) = row
    /\ first \in Seq((0..(Modulus - 1)) \union {Blank})
    /\ dead \in BOOLEAN /\ drawn \in Nat

Given == {i \in DOMAIN numbers : numbers[i] # Blank}

(* Every number is within the column's bounds, if they are in order and    *)
(* there is no jump, whatever init, step and the end of the integers do.   *)
InRange ==
    col.kind = "number" /\ ~Batched /\ col.low <= col.high =>
        \A i \in Given : numbers[i] \in col.low..col.high

\* The bounds, the step and the first number of the count.  A file is begun at the line that
\* Init or a prefix says, if it has that line.
Lowest == IF col.kind = "file" THEN 0 ELSE col.low
Highest == IF col.kind = "file" THEN col.lines - 1 ELSE col.high
Step == IF col.kind = "file" THEN 1 ELSE col.step
Start ==
    IF col.kind # "file" THEN Clamped(col.init) ELSE IF col.init > Highest THEN Lowest ELSE col.init

\* The q-th number of a count: from Start up to the higher bound, then from the lower bound
\* up, over and over.
Nth(q) ==
    LET toEnd == (Highest - Start) \div Step + 1
        round == (Highest - Lowest) \div Step + 1
    IN  IF q < toEnd THEN Start + q * Step ELSE Lowest + ((q - toEnd) % round) * Step

\* The count passes the end of its range before the end of the integers.
EndsInTime == Highest + Step < Modulus

(* The count does not notice that a file ends: the n-th row that gets a    *)
(* number, counted over all files, has the number that the range, the step *)
(* and the unit say, whichever rows are left out.                          *)
CountsOn ==
    /\ col.kind = "file" \/ (col.kind = "number" /\ ~Batched /\ ~col.reset)
    /\ Lowest <= Highest /\ Step > 0 /\ EndsInTime
    /\ Given # {}
    => numbers[Max(Given)] = Nth((drawn - 1) \div (IF col.unit <= 1 THEN 1 ELSE col.unit))

(* A column that starts again with each file gives every file the numbers  *)
(* of the first, jumps included, if the last number has all its rows when  *)
(* the file ends.                                                          *)
SameEveryFile ==
    /\ col.kind = "number" /\ col.reset /\ col.percent = 100
    /\ col.rows % (IF col.unit <= 1 THEN 1 ELSE col.unit) = 0
    /\ file > 1
    => numbers = SubSeq(first, 1, row)

\* The jump is a whole number of rows, lands inside the batch, and the file does not pass
\* the end of the range.
PlainBatches ==
    /\ col.kind = "number" /\ Batched /\ col.percent = 100 /\ col.step = 1 /\ col.unit <= 1
    /\ (col.rowsInBatch * col.percentInBatch) % 100 = 0 /\ col.percentInBatch >= 50
    /\ col.reset /\ Clamped(col.init) + col.rows <= col.high

(* Of each whole batch of the file the rows that count on have different   *)
(* numbers, the others repeat the last of these, and no number of the      *)
(* batch comes again in another.                                           *)
ShareInBatch ==
    PlainBatches =>
        \A k \in 1..(row \div col.rowsInBatch) :
            LET batch == ((k - 1) * col.rowsInBatch + 1)..(k * col.rowsInBatch)
                values == {numbers[i] : i \in batch}
            IN  /\ Cardinality(values) = HeadRows
                /\ \A i \in (1..row) \ batch : numbers[i] \notin values

=============================================================================
