-------------------------- MODULE UniqueParameters --------------------------
(***************************************************************************)
(* What UniqueRandomFunc::process makes of the parameters of a column: the *)
(* columns of UniqueRandomFunc.  A parameter is a record of its tag, what  *)
(* its text is and the number it says.  All of a column's parameters are   *)
(* read twice (see TemplateParser).                                        *)
(***************************************************************************)
EXTENDS UniqueRandomFunc

CONSTANTS
    MaxUint64,       \* 2^64 - 1
    Narrow,          \* 2^32
    Byte,            \* 2^8: percentages are not scaled
    MaxRowsInBatch   \* MAX_ROWS_IN_BATCH

ASSUME ParametersAssumption ==
    Narrow \in 1..MaxUint64 /\ Byte > 100 /\ MaxRowsInBatch \in 1..(Narrow - 1)

NewFunction ==
    [refused |-> FALSE, low |-> 0, high |-> MaxUint64, reset |-> FALSE, percent |-> 100,
     rowsInBatch |-> MaxRowsInBatch, percentInBatch |-> 100]

\* atol: what does not fit a signed number is the largest one.
Atol(n) == Min({n, MaxUint64 \div 2})

Numbers == {"LowRange", "HighRange", "IMSIType", "Percent", "PercentInBatch", "RowsInBatch"}

\* A percentage is looked at when it has only a byte left; CBaseFunc::process wants an
\* alignment that is no number.
Refused(p) ==
    \/ p.text = "empty" \/ p.tag = "Invalid"
    \/ p.tag \in Numbers /\ p.text # "digits"
    \/ p.tag \in {"Percent", "PercentInBatch"} /\ p.n % Byte > 100
    \/ p.tag = "byte_array_right_align" /\ p.text = "digits"

\* One round of the loop over the parameters; those of other functions are passed over.
ReadParameter(f, p) ==
    IF f.refused \/ Refused(p) THEN [f EXCEPT !.refused = TRUE]
    ELSE CASE p.tag = "LowRange" -> [f EXCEPT !.low = Atol(p.n)]
           [] p.tag = "HighRange" -> [f EXCEPT !.high = Atol(p.n)]
           [] p.tag = "Reset" -> [f EXCEPT !.reset = p.text = "digits" /\ p.n % Byte # 0]
           [] p.tag = "Percent" -> [f EXCEPT !.percent = p.n % Byte]
           [] p.tag = "PercentInBatch" -> [f EXCEPT !.percentInBatch = p.n % Byte]
           [] p.tag = "RowsInBatch" -> [f EXCEPT !.rowsInBatch = p.n % Narrow]
           [] OTHER -> f

\* The columns in tables of so many rows: none if a parameter is refused.
ColumnsOf(params, rows) ==
    LET f == FoldLeft(ReadParameter, NewFunction, params \o params)
    IN  {[low |-> f.low, high |-> f.high, reset |-> f.reset, percent |-> f.percent,
          rowsInBatch |-> f.rowsInBatch, percentInBatch |-> f.percentInBatch, rows |-> n] :
            n \in IF f.refused THEN {} ELSE rows}
=============================================================================
