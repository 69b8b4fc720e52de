-------------------------- MODULE AcculateParameters --------------------------
(***************************************************************************)
(* What AcculateFunc::process makes of the parameters of a column: the     *)
(* columns of AcculateFunc.  A parameter is a record of its tag, what its  *)
(* text is, the number it says and how many digits that has.  All of a     *)
(* column's parameters are read twice (see TemplateParser).                *)
(***************************************************************************)
EXTENDS AcculateFunc, SequencesExt

CONSTANTS
    Narrow,       \* 2^32
    Byte,         \* 2^8: percentages are not scaled
    Now,          \* the time with which the table begins
    Second        \* 1000000

ASSUME ParametersAssumption ==
    Narrow \in 1..Modulus /\ Byte > 100 /\ {Now, Second} \subseteq Nat

\* The members of a new function.  m_type has no value: it may happen to be FileAcculate.
NewFunction(isFile) ==
    [refused |-> FALSE, isFile |-> isFile, asks |-> FALSE, low |-> 0, high |-> Modulus - 1, step |-> 0, unit |-> 1,
     reset |-> FALSE, percent |-> 100, rowsInBatch |-> 0, percentInBatch |-> 100,
     initial |-> [text |-> "empty"], prefix |-> [text |-> "empty"]]

\* atol, of digits: what does not fit a signed number is the largest one.
Atol(n) == Min({n, Modulus \div 2 - 1})

\* CBaseFunc::process: the alignment must not be a number.
RefusedByBase(p) ==
    \/ p.tag = "IMSIType" /\ p.text # "digits"
    \/ p.tag = "byte_array_right_align" /\ p.text = "digits"

Numbers == {"Init", "Step", "DuplicatedUnit", "LowRange", "HighRange", "Percent", "PercentInBatch", "RowsInBatch"}

\* A percentage is looked at when it has only a byte left.
RefusedHere(f, p) ==
    \/ p.text = "empty" \/ p.tag = "Invalid"
    \/ p.tag \in Numbers /\ p.text # "digits"
    \/ p.tag \in {"Percent", "PercentInBatch"} /\ p.text = "digits" /\ p.n % Byte > 100
    \/ p.tag = "SourceType" /\ p.text # "FileAcculate"
    \/ p.tag = "Value" /\ f.isFile /\ p.text = "nowhere"

\* One round of the loop over the parameters.
ReadParameter(f, p) ==
    IF f.refused \/ RefusedHere(f, p) THEN [f EXCEPT !.refused = TRUE]
    ELSE CASE p.tag = "Prefix" /\ p.text # "0" -> [f EXCEPT !.prefix = p]
           [] p.tag = "Init" -> [f EXCEPT !.initial = p]
           [] p.tag = "Step" -> [f EXCEPT !.step = p.n % Narrow]
           [] p.tag = "DuplicatedUnit" -> [f EXCEPT !.unit = p.n % Narrow]
           [] p.tag = "LowRange" -> [f EXCEPT !.low = Atol(p.n)]
           [] p.tag = "HighRange" -> [f EXCEPT !.high = Atol(p.n)]
           [] p.tag = "Reset" -> [f EXCEPT !.reset = p.text = "digits" /\ p.n % Byte # 0]
           [] p.tag = "Percent" -> [f EXCEPT !.percent = p.n % Byte]
           [] p.tag = "PercentInBatch" -> [f EXCEPT !.percentInBatch = p.n % Byte]
           [] p.tag = "RowsInBatch" -> [f EXCEPT !.rowsInBatch = p.n % Narrow]
           [] p.tag = "SourceType" ->
                 [f EXCEPT !.isFile = TRUE, !.initial = [text |-> "digits", n |-> 0, digits |-> 1]]
           [] p.tag = "Value" /\ f.isFile /\ p.text = "column" -> [f EXCEPT !.asks = TRUE]
           [] OTHER -> f

\* The prefix asks for a time before that of the table and says no number, or -1 here, of seconds.
NoGap(f) == f.prefix.text = "current_-" /\ f.prefix.n < 0

\* The prefix stands before the digits of the first number, or says that it is a time.  A
\* prefix that is no number makes it 0.
FirstNumber(f) ==
    CASE f.prefix.text = "current_+" -> (Now * Second) % Modulus
      [] f.prefix.text = "current_-" -> (Now * Second - f.prefix.n * Second) % Modulus
      [] f.prefix.text = "digits" -> Atol(f.prefix.n * 10 ^ f.initial.digits + f.initial.n)
      [] f.prefix.text = "empty" -> Atol(f.initial.n)
      [] OTHER -> 0

Processed(params) ==
    LET read == {FoldLeft(ReadParameter, NewFunction(isFile), params \o params) : isFile \in BOOLEAN}
    IN  IF \E p \in Range(params) : RefusedByBase(p) THEN {}
        ELSE {f \in read : ~f.refused /\ f.initial.text # "empty" /\ ~NoGap(f)}

\* The column of a function, in a table of n rows, of a file.
ColumnOf(f, n, source) ==
    [kind |-> IF ~f.isFile THEN "number" ELSE IF f.asks THEN "file" ELSE "none",
     low |-> f.low, high |-> f.high, init |-> FirstNumber(f), step |-> f.step, unit |-> f.unit,
     reset |-> f.reset, percent |-> f.percent, rowsInBatch |-> f.rowsInBatch,
     percentInBatch |-> f.percentInBatch, rows |-> n,
     lines |-> source.lines, holes |-> source.holes, fits |-> source.fits]

ColumnsOf(params, n, source) == {ColumnOf(f, n, source) : f \in Processed(params)}
=============================================================================
