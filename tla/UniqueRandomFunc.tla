--------------------------- MODULE UniqueRandomFunc ---------------------------
(***************************************************************************)
(* The column function UniqueRandomFunc (src/fun/BaseFuncClass.cc): what   *)
(* its Calculate, called once for each row of each file of its table,      *)
(* gives the column.  The numbers come in batches of rowsInBatch rows.     *)
(* When a batch begins the function puts fresh numbers into three pools:   *)
(* those of uniqPool are meant for one row, those of the two dupPools for  *)
(* two.  The function's state outlives the file, so what a file leaves in  *)
(* the pools is still there when the next begins.                          *)
(***************************************************************************)
EXTENDS Integers, Sequences, FiniteSets, SequencesExt

CONSTANTS
    Columns,      \* the columns: records of the kind of Column
    MaxFiles      \* bound: files of the table

\* What process leaves of the column's parameters, and the rows m_rownum of its table.
Column ==
    [low : Nat, high : Nat, reset : BOOLEAN, percent : 0..100,
     rowsInBatch : Nat, percentInBatch : 0..100, rows : Nat \ {0}]

ASSUME ColumnsAssumption == Columns \subseteq Column /\ MaxFiles \in Nat \ {0}

VARIABLES
    col,          \* the column
    row,          \* m_curFilledCount of the table: rows the file has
    file,         \* the number of the file
    last,         \* m_lastnumber: the next fresh number
    rowIdx,       \* m_rowIdx
    uniq,         \* uniqPool
    dup,          \* <<dupPool[0], dupPool[1]>>
    numbers,      \* the numbers of the file's rows
    dead          \* the program ended in a row

pools == <<uniq, dup>>
vars == <<col, row, file, last, rowIdx, pools, numbers, dead>>

Blank == -1       \* a row the percentage leaves without a number

Init ==
    /\ col \in Columns
    /\ row = 0 /\ file = 1
    /\ last = col.low
    /\ rowIdx = 0
    /\ uniq = <<>> /\ dup = << <<>>, <<>> >>
    /\ numbers = <<>>
    /\ dead = FALSE

-----------------------------------------------------------------------------
(* A batch.                                                                *)

\* The k-th number after v: they run from low to high, and over again.
After(v, k) ==
    IF col.low <= col.high THEN col.low + ((v - col.low + k) % (col.high - col.low + 1)) ELSE col.low

Fresh(v, n) == [i \in 1..n |-> After(v, i - 1)]

\* Fault: the numbers for two rows begin where those for one row began.
DupNumbersOverlap(v, n, m) == Fresh(v, m)

\* The m numbers for two rows come after the n for one row.
DupNumbers(v, n, m) == Fresh(After(v, n), m)

\* uniqRowNum and dupRowNum.
UniqRows == (col.rowsInBatch * (2 * col.percentInBatch - 100)) \div 100

DupRows == (col.rowsInBatch - UniqRows) \div 2

\* The first row of a file starts the numbers again if the column says so, and the batch
\* in any case.
LastAt == IF row = 0 /\ col.reset THEN col.low ELSE last
RowIdxAt == IF row = 0 THEN 0 ELSE rowIdx

\* process accepts columns with which a batch cannot be made: without rows a division by zero,
\* and below 50 percent a product that wraps, so that the pools are to hold billions of numbers.
Survives == col.rowsInBatch > 0 /\ col.percentInBatch >= 50

\* Fault: every row of a file but the first goes on with the batch.
BatchBeginsOnce == RowIdxAt = 0

BatchBegins == RowIdxAt % col.rowsInBatch = 0

UniqAt == IF BatchBegins THEN uniq \o Fresh(LastAt, UniqRows) ELSE uniq
DupAt(i) == IF BatchBegins THEN dup[i] \o DupNumbers(LastAt, UniqRows, DupRows) ELSE dup[i]
FreshAt == IF BatchBegins THEN After(LastAt, UniqRows + DupRows) ELSE LastAt

-----------------------------------------------------------------------------
(* Calculate, by the pool its number comes from.                           *)

\* The random number of the row is within the percentage: it gets a number.
Draws == ~dead /\ row < col.rows /\ col.percent > 0 /\ Survives

\* The first row that is to get a number ends a program that cannot make a batch.
Die ==
    /\ ~dead /\ row < col.rows /\ col.percent > 0 /\ ~Survives
    /\ dead' = TRUE
    /\ UNCHANGED <<col, row, file, last, rowIdx, pools, numbers>>

\* The row is numbered; the pools are as the batch left them, but for the one drawn from.
Give(v) ==
    /\ numbers' = Append(numbers, v)
    /\ row' = row + 1
    /\ last' = FreshAt
    /\ rowIdx' = RowIdxAt + 1
    /\ UNCHANGED <<col, file, dead>>

\* A second random number chooses between uniqPool and the dupPools: either may come, but
\* at 100 percent it is always uniqPool.
PrefersDup == col.percentInBatch < 100
DupsEmpty == DupAt(1) = <<>> /\ DupAt(2) = <<>>

\* Fault: the number stays in the pool.
TakeUniqAndKeep ==
    /\ Draws /\ UniqAt # <<>>
    /\ Give(Last(UniqAt))
    /\ uniq' = UniqAt
    /\ dup' = <<DupAt(1), DupAt(2)>>

\* From uniqPool: chosen, or all that is left.
TakeUniq ==
    /\ Draws /\ UniqAt # <<>>
    /\ Give(Last(UniqAt))
    /\ uniq' = Front(UniqAt)
    /\ dup' = <<DupAt(1), DupAt(2)>>

\* Fault: the second pool is copied to the first, and both keep it.
TakeDupCopies ==
    /\ Draws
    /\ PrefersDup \/ UniqAt = <<>>
    /\ LET d == IF DupAt(1) = <<>> THEN DupAt(2) ELSE DupAt(1)
       IN  d # <<>> /\ Give(Last(d)) /\ dup' = <<Front(d), DupAt(2)>>
    /\ uniq' = UniqAt

\* From the dupPools: chosen, or uniqPool is empty.  The second pool is moved into the
\* first when that is empty.
TakeDup ==
    /\ Draws
    /\ PrefersDup \/ UniqAt = <<>>
    /\ \/ DupAt(1) # <<>> /\ Give(Last(DupAt(1))) /\ dup' = <<Front(DupAt(1)), DupAt(2)>>
       \/ DupAt(1) = <<>> /\ DupAt(2) # <<>> /\ Give(Last(DupAt(2))) /\ dup' = << Front(DupAt(2)), <<>> >>
    /\ uniq' = UniqAt

\* All the pools are empty: the error is logged, and the number is 0.
TakeNothing ==
    /\ Draws
    /\ UniqAt = <<>> /\ DupsEmpty
    /\ Give(0)
    /\ uniq' = <<>> /\ dup' = << <<>>, <<>> >>

\* The percentage gives the row no number.
Skip ==
    /\ ~dead /\ row < col.rows /\ col.percent < 100
    /\ numbers' = Append(numbers, Blank)
    /\ row' = row + 1
    /\ last' = LastAt
    /\ rowIdx' = RowIdxAt
    /\ UNCHANGED <<col, file, pools, dead>>

Calculate == TakeUniq \/ TakeDup \/ TakeNothing \/ Skip \/ Die

\* The table starts its next file.
NextFile ==
    /\ ~dead /\ row = col.rows /\ file < MaxFiles
    /\ row' = 0 /\ file' = file + 1
    /\ numbers' = <<>>
    /\ UNCHANGED <<col, last, rowIdx, pools, dead>>

Next == Calculate \/ NextFile

Spec == Init /\ [][Next]_vars

-----------------------------------------------------------------------------
(* What the function promises its column.                                  *)

\* The numbers of the column: only the first, if the bounds are exchanged.
Numerals == IF col.low <= col.high THEN col.low..col.high ELSE {col.low}

Given == {i \in DOMAIN numbers : numbers[i] # Blank}

\* The numbers a full file takes.
FreshPerFile == (UniqRows + DupRows) * ((col.rows + col.rowsInBatch - 1) \div col.rowsInBatch)

\* Unless the column has fewer numbers than its file takes, they do not come round in a file.
EnoughNumbers == Survives /\ FreshPerFile <= col.high - col.low + 1

\* At 100 percent in batch no two rows of a file have the same number, whatever an earlier
\* file left in the pool, and whether or not the numbers start again with each file.
UniqueInFile ==
    col.percentInBatch = 100 /\ EnoughNumbers =>
        \A i, j \in Given : numbers[i] = numbers[j] => i = j

\* The batches of a file are whole: every row gets a number, and the last batch is full.
WholeBatches == Survives /\ col.percent = 100 /\ col.rows % col.rowsInBatch = 0

\* The rows a batch has for numbers come out even.
EvenShare == (col.rowsInBatch - UniqRows) % 2 = 0

\* The k-th batch of the file.
Batch(k) == ((k - 1) * col.rowsInBatch + 1)..(k * col.rowsInBatch)

\* In whole batches each number of a batch is on one row or on two, and the share of different
\* numbers in a batch is percentInBatch, in whatever order the pools were drawn from.
ShareInBatch ==
    WholeBatches /\ EvenShare /\ EnoughNumbers =>
        \A k \in 1..(row \div col.rowsInBatch) :
            /\ Cardinality({numbers[i] : i \in Batch(k)}) = UniqRows + DupRows
            /\ \A i \in Batch(k) : Cardinality({j \in 1..row : numbers[j] = numbers[i]}) <= 2

\* The pools are never all empty when a row needs a number, so that no row gets the 0 of the
\* error branch, if the share comes out even.
InRange == EvenShare => \A i \in Given : numbers[i] \in Numerals

\* The pools outlive the file.  They hold at most the batch under way and what each earlier
\* file left: nothing if its batches were whole.
PoolsBounded ==
    LET left == IF WholeBatches \/ ~Survives THEN 0 ELSE col.rowsInBatch - 1
    IN  Len(uniq) + Len(dup[1]) + Len(dup[2]) <=
            (IF row = 0 THEN 0 ELSE col.rowsInBatch) + (file - 1) * left
=============================================================================
