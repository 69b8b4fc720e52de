----------------------------- MODULE RandomFunc -----------------------------
(***************************************************************************)
(* The column function RandomFunc (fun/BaseFuncClass.cc): how it reads its *)
(* parameters, which other tables and dimension files it comes to depend   *)
(* on, and what it draws for each row of each file of its table.           *)
(*                                                                         *)
(* A template gives the columns of the table, each with its type and its   *)
(* parameters in their order.  A parameter has a tag, a text that is       *)
(* "empty", "digits" or a "word", and what the text says: a range, a       *)
(* percentage, a kind of RandomFunc, a reference to a dimension column or  *)
(* to a column of a table.  Numbers are scaled: percentages are out of     *)
(* Hundred, which also is RANDOM_ARR_SIZE.                                 *)
(***************************************************************************)
EXTENDS DimensionFiles

CONSTANTS
    Templates,    \* the templates
    Hundred,      \* RANDOM_ARR_SIZE, and what percentages are out of
    Byte,         \* 2^8: percentages and their sum wrap there
    Unsigned,     \* 2^32: what the type of the pseudo random numbers wraps at
    MaxUint64,    \* the range a column without HighRange has
    RandMax       \* RAND_MAX, and Random::MAX_RAND

ASSUME RandomAssumption ==
    /\ {Hundred, Byte, Unsigned, MaxUint64, RandMax} \subseteq Nat \ {0}
    /\ Hundred < Byte /\ RandMax < MaxUint64

FileKinds == {"File", "Mapping", "MultiFile"}

\* A table has a column at least and a row, a range of digits is a number and so is what a
\* reference to a dimension file has behind it, the rows of a table are an unsigned one, and a
\* file has reads of fields.
ASSUME TemplatesAssumption ==
    \A t \in Templates :
        /\ t.columns \in Seq(Range(t.columns)) /\ t.columns # <<>> /\ t.rows \in Nat \ {0}
        /\ \A c \in Range(t.columns) :
              /\ c.parameters \in Seq(Range(c.parameters))
              /\ \A p \in Range(c.parameters) :
                    p.tag \in {"LowRange", "HighRange"} /\ p.text = "digits" => p.says \in Nat
              /\ (\E p \in Range(c.parameters) : p.tag = "SourceType" /\ p.says \in FileKinds)
                 => \A p \in Range(c.parameters) :
                       p.tag = "Value" /\ p.text # "empty"
                       => p.says.percent \in Nat /\ p.says.number \in Nat
        /\ \A u \in DOMAIN t.tables : t.tables[u].rows \in 0..(Unsigned - 1)
        /\ \A file \in DOMAIN t.reads :
              /\ t.reads[file] \in Seq(Range(t.reads[file]))
              /\ \A read \in Range(t.reads[file]) :
                    read.fields \in Seq(FieldKinds) /\ read.begins \in BOOLEAN /\ read.newline \in BOOLEAN

VARIABLES
    phase,        \* how far the template has come
    at,           \* the column, and its parameter
    fn,           \* the RandomFunc of each column
    value,        \* m_value of each column
    row,          \* m_curFilledCount of the table
    rows,         \* rows made, in all files
    picked        \* of each column, the files and rows that MultiFile picked

vars == <<tpl, dimensions, phase, at, fn, value, row, rows, picked>>

Unread == -1      \* m_percent as the constructor leaves it: unspecified
Nothing == <<>>   \* no value
NoReference == "none"     \* a text without "[" and "]", and a key that was not given

Function ==
    [type |-> "Invalid", values |-> 0, low |-> 0, high |-> MaxUint64, percent |-> Unread,
     deps |-> <<>>, dims |-> <<>>, key |-> NoReference,
     picks |-> [i \in 1..Hundred |-> 1], pick |-> 1, windows |-> FALSE]

Init ==
    /\ tpl \in Templates
    /\ DimensionInit
    /\ phase = "process" /\ at = <<1, 1>>
    /\ fn = [c \in DOMAIN tpl.columns |-> Function]
    /\ value = [c \in DOMAIN tpl.columns |-> Nothing]
    /\ row = 0 /\ rows = 0
    /\ picked = [c \in DOMAIN tpl.columns |-> <<>>]

column == tpl.columns[at[1]]

\* m_parameterlist: the parameters of a column give themselves to its function when they are
\* read, and once more when the table is laid out.
Parameters(c) == tpl.columns[c].parameters \o tpl.columns[c].parameters

parameter == Parameters(at[1])[at[2]]
f == fn[at[1]]

Halts(how) == phase' = how /\ UNCHANGED <<tpl, dimensions, at, value, row, rows>>

Ends(how) == Halts(how) /\ UNCHANGED <<fn, picked>>

-----------------------------------------------------------------------------
(* RandomFunc::process, parameter by parameter, with CBaseFunc::process.   *)

NoSuchDimension(says) == says.dim \notin DOMAIN tpl.dim \union {NoReference}

Refused(p) ==
    \/ p.text = "empty" /\ p.tag # "Value"
    \/ p.tag = "byte_array_right_align" /\ p.text = "digits"
    \/ p.tag \in {"LowRange", "HighRange", "Percent", "IMSIType"} /\ p.text # "digits"
    \/ p.tag = "SourceType" /\ p.says = "Invalid"
    \/ p.tag = "Value" /\ f.type = "Invalid"
    \/ p.tag = "Value" /\ f.type \in FileKinds /\ p.text # "empty" /\ NoSuchDimension(p.says)
    \/ p.tag = "DepKey" /\ (f.type # "Mapping" \/ NoSuchDimension(p.says))
    \/ p.tag = "DepKey" /\ f.key # NoReference /\ p.says.dim # NoReference /\ File(p.says.dim) # f.key
    \/ p.tag = "Invalid"

\* An empty value has no first token; a key that is no reference is looked up all the same.
Undefined(p) ==
    \/ p.tag = "Value" /\ f.type \in FileKinds /\ p.text = "empty"
    \/ p.tag = "DepKey" /\ p.says.dim = NoReference

\* parseDimensionInfo, the percentage as the byte it is kept in.
Dependency(says) ==
    [dim |-> says.dim, percent |-> says.percent % Byte, number |-> says.number,
     init |-> 0, end |-> 0, last |-> 0]

Read(p) ==
    CASE p.tag = "SourceType" -> [f EXCEPT !.type = p.says]
      [] p.tag = "Value" /\ f.type = "Default" -> [f EXCEPT !.values = @ + p.says]
      [] p.tag = "Value" /\ f.type \in FileKinds /\ p.says.dim # NoReference ->
            [f EXCEPT !.dims = Append(@, Dependency(p.says))]
      [] p.tag = "LowRange" -> [f EXCEPT !.low = p.says]
      [] p.tag = "HighRange" -> [f EXCEPT !.high = p.says]
      [] p.tag = "Percent" -> [f EXCEPT !.percent = p.says]
      [] p.tag = "DepKey" -> [f EXCEPT !.key = File(p.says.dim)]
      [] OTHER -> f

\* The parameter asks for a column of a dimension file.
Asks(p) ==
    \/ p.tag = "Value" /\ f.type \in FileKinds /\ p.says.dim # NoReference
    \/ p.tag = "DepKey"

ProcessParameter ==
    /\ phase = "process" /\ at[2] \in DOMAIN Parameters(at[1])
    /\ \/ Refused(parameter) /\ Ends("refused")
       \/ ~Refused(parameter) /\ Undefined(parameter) /\ Ends("undefined")
       \/ /\ ~Refused(parameter) /\ ~Undefined(parameter)
          /\ fn' = [fn EXCEPT ![at[1]] = Read(parameter)]
          /\ IF Asks(parameter)
             THEN AddDimensionInfo(parameter.says.dim) ELSE UNCHANGED dimensions
          /\ at' = [at EXCEPT ![2] = @ + 1]
          /\ UNCHANGED <<tpl, phase, value, row, rows, picked>>

-----------------------------------------------------------------------------
(* The end of RandomFunc::process: the array the picks of files go by.     *)

\* total_percentage when k files have been counted: a byte.
Total(dims, k) ==
    LET total[i \in Nat] == IF i = 0 THEN 0 ELSE (total[i - 1] + dims[i].percent) % Byte
    IN  total[k]

\* Where file k stands before the array is shuffled.
Places(dims, k) == Total(dims, k - 1) + 1 .. Total(dims, k - 1) + dims[k].percent

PastArray(dims) == \E k \in DOMAIN dims : \E i \in Places(dims, k) : i > Hundred

\* fileIdx, a byte as well.
FileIdx(k) == ((k - 1) % Byte) + 1

Filled(dims) ==
    [i \in 1..Hundred |->
        LET ks == {k \in DOMAIN dims : i \in Places(dims, k)}
        IN  IF ks = {} THEN 1 ELSE FileIdx(Max(ks))]

\* Fault: RandomArray draws a place and leaves what is there where it is.
ShuffledByCopy(a) == [1..Hundred -> {a[i] : i \in 1..Hundred}]

\* RandomArray
Shuffled(a) ==
    {b \in [1..Hundred -> {a[i] : i \in 1..Hundred}] :
        \A v \in {a[i] : i \in 1..Hundred} :
            Cardinality({i \in 1..Hundred : b[i] = v}) = Cardinality({i \in 1..Hundred : a[i] = v})}

EndParameters ==
    /\ phase = "process" /\ at[2] = Len(Parameters(at[1])) + 1
    /\ IF f.type = "MultiFile"
       THEN \/ PastArray(f.dims) /\ Ends("undefined")
            \/ /\ ~PastArray(f.dims)
               /\ f.dims # <<>> /\ Total(f.dims, Len(f.dims)) # Hundred
               /\ Ends("refused")
            \/ /\ ~PastArray(f.dims)
               /\ f.dims = <<>> \/ Total(f.dims, Len(f.dims)) = Hundred
               /\ \E picks \in Shuffled(Filled(f.dims)) : fn' = [fn EXCEPT ![at[1]].picks = picks]
               /\ phase' = "depend"
               /\ UNCHANGED <<tpl, dimensions, at, value, row, rows, picked>>
       ELSE Ends("depend")

-----------------------------------------------------------------------------
(* CParameterObject::processOjbect of the column's parameters: the columns *)
(* of tables that it depends on.                                           *)

DependsBy == {<<"Table", "Value">>, <<"Mapping", "DepColumn">>, <<"Less", "DepColumn">>,
              <<"More", "DepColumn">>}

RefersToTable(p) == <<f.type, p.tag>> \in DependsBy /\ p.text # "empty" /\ p.says.table # NoReference

TableReferences ==
    LET refs == InOrder({i \in DOMAIN column.parameters : RefersToTable(column.parameters[i])})
    IN  [k \in DOMAIN refs |-> column.parameters[refs[k]]]

\* The tables there are: "own", and others.  Another is to make as many files.
NoSuchTable(p) ==
    \/ p.says.table \notin DOMAIN tpl.tables
    \/ p.says.table # "own" /\ ~tpl.tables[p.says.table].sameFiles

AddDependencies ==
    /\ phase = "depend"
    /\ IF \E i \in DOMAIN TableReferences : NoSuchTable(TableReferences[i])
       THEN Ends("refused")
       ELSE /\ fn' = [fn EXCEPT ![at[1]].deps =
                         [i \in DOMAIN TableReferences |-> TableReferences[i].says.table]]
            /\ IF at[1] = Len(tpl.columns)
               THEN phase' = "load" /\ UNCHANGED at
               ELSE phase' = "process" /\ at' = <<at[1] + 1, 1>>
            /\ UNCHANGED <<tpl, dimensions, value, row, rows, picked>>

LoadFiles ==
    /\ phase = "load"
    /\ \/ Missing # {} /\ Ends("refused")
       \/ /\ Missing = {}
          /\ LoadDimensionFiles
          /\ phase' = "rows" /\ at' = <<1, 0>>
          /\ UNCHANGED <<tpl, fn, value, row, rows, picked>>

-----------------------------------------------------------------------------
(* Calculate, of one column after the other, row by row.                   *)

\* randnumer
RandNumer(low, high) ==
    LET top == IF high = MaxUint64 THEN RandMax ELSE high
    IN  IF top = 0 \/ low > top THEN {0} ELSE {low + (r % (top - low + 1)) : r \in 0..RandMax}

\* The table's next column, or its next row, or the first row of its next file.
NextColumn ==
    LET ended == at[1] = Len(tpl.columns)
    IN  /\ at' = IF ended THEN <<1, 0>> ELSE <<at[1] + 1, 0>>
        /\ rows' = IF ended THEN rows + 1 ELSE rows
        /\ row' = IF ~ended THEN row ELSE (row + 1) % tpl.rows
        /\ phase' = IF ended /\ rows + 1 = tpl.rows * tpl.files THEN "done" ELSE "rows"
        /\ UNCHANGED <<tpl, dimensions>>

Give(v) == NextColumn /\ value' = [value EXCEPT ![at[1]] = v]

Calculates(type) == phase = "rows" /\ f.type = type

\* A value that is a number: an AUTO_STRING column takes none.
GiveNumber(v) ==
    IF column.type = "string"
    THEN Ends("failed") ELSE Give(<<"number", v>>) /\ UNCHANGED <<fn, picked>>

DefaulRandomCalculate ==
    /\ Calculates("Default")
    /\ \/ f.values = 0 /\ Give(<<"default", 0>>)
       \/ f.values > 0 /\ \E v \in RandNumer(0, f.values - 1) : Give(<<"default", v + 1>>)
    /\ UNCHANGED <<fn, picked>>

\* Drawn from 0 to MAX_RAND, which RandMax stands for here.
PercentRandomCalculate ==
    /\ Calculates("Percent")
    /\ \E percent \in IF f.percent = Unread THEN 0..Hundred ELSE {f.percent}, r \in 0..RandMax :
          GiveNumber(IF r <= ((RandMax + 1) * percent) \div Hundred THEN 1 ELSE 0)

NatureRandomCaculate ==
    /\ Calculates("Nature")
    /\ \E v \in RandNumer(f.low, f.high) : GiveNumber(v)

\* The distribution is one of unsigned numbers, which must not be told an empty range.
PseudoRandomCaculate ==
    LET low == f.low % Unsigned  high == f.high % Unsigned
    IN  /\ Calculates("Pseudo")
        /\ IF low > high THEN Ends("undefined") ELSE \E v \in low..high : GiveNumber(v)

-----------------------------------------------------------------------------
(* TableRandomCalculate: of the first column of a table it depends on.     *)

\* Fault: no table's last row is read, be it the own or another's.
MaxIdxOfAny(t) == ((IF t = "own" THEN row ELSE tpl.tables[t].rows) - 1) % Unsigned

\* max_idx, unsigned; another table has all its rows.
MaxIdx(t) == IF t = "own" THEN row ELSE (tpl.tables[t].rows - 1) % Unsigned

\* Whatever row it means to read, it reads row 0: the entry size of a table is never set.
TableRandomCalculate ==
    /\ Calculates("Table")
    /\ IF f.deps = <<>> \/ (f.deps # <<>> /\ f.low > MaxIdx(f.deps[1]))
       THEN Ends("failed")
       ELSE Give(<<"cell", f.deps[1]>>) /\ UNCHANGED <<fn, picked>>

\* SetValue may refuse the number; nobody looks at what it returns.
GiveNumberOrNot(v) ==
    /\ Give(IF column.type = "string" THEN value[at[1]] ELSE <<"number", v>>)
    /\ UNCHANGED <<fn, picked>>

LessOrMoreCalculate ==
    /\ Calculates("Less") \/ Calculates("More")
    /\ IF f.deps = <<>> \/ (f.deps # <<>> /\ row > MaxIdx(f.deps[1]))
       THEN Ends("failed")
       ELSE LET cell == tpl.tables[f.deps[1]].cell
            IN  \E v \in IF f.type = "Less" THEN RandNumer(f.low, cell) ELSE RandNumer(cell, f.high) :
                   GiveNumberOrNot(v)

-----------------------------------------------------------------------------
(* FileRandomCalculate and MultiFileRandomCalculate.                       *)

\* Column d of row r, counted from 0, of its file.
Field(d, r) ==
    IF r + 1 \in DOMAIN data[File(d)] /\ mapping[d] \in DOMAIN data[File(d)][r + 1]
    THEN data[File(d)][r + 1][mapping[d]] ELSE Garbage

\* The type the field was loaded with: that of the column first asked for.
LoadedType(d) == tpl.dim[info[File(d)][mapping[d]]].type

\* ConvertAutoTypeToGenericType: a string is a text.
Generic(type) == IF type = "string" THEN "text" ELSE type

\* SetValueForRandom: of a field that was not read it asks the type nevertheless.
SetsValue(d, r) ==
    CASE Field(d, r) = Null -> Halts("crashed")
      [] Field(d, r) # Null /\ Generic(LoadedType(d)) # Generic(column.type) -> Halts("failed")
      [] OTHER -> Give(Field(d, r))

LastRow(d) == Len(data[File(d)]) - 1

\* The ranges are cut to the lines of the file, for good.
Clamped(v, d) == IF v >= LastRow(d) THEN LastRow(d) ELSE v

FileRandomCalculate ==
    /\ Calculates("File")
    /\ IF f.dims = <<>> \/ (f.dims # <<>> /\ ~HasRows(File(f.dims[1].dim)))
       THEN Ends("failed")
       ELSE LET d == f.dims[1].dim
                low == Clamped(f.low, d)
                high == IF f.high = 0 THEN LastRow(d) ELSE Clamped(f.high, d)
            IN  \E r \in RandNumer(low, high) :
                  /\ SetsValue(d, r)
                  /\ fn' = [fn EXCEPT ![at[1]] = [f EXCEPT !.low = low, !.high = high]]
                  /\ UNCHANGED picked

Lines(dep) == Len(data[File(dep.dim)])

\* fillDimensionInfo: of every file the row to begin with and the row to end at, until a
\* file has no lines.
Windows(dims) ==
    LET empty == {k \in DOMAIN dims : Lines(dims[k]) = 0}
        done == IF empty = {} THEN Len(dims) ELSE Min(empty) - 1
        number(k) == IF dims[k].number = 0 \/ dims[k].number > Lines(dims[k])
                     THEN Lines(dims[k]) ELSE dims[k].number
    IN  {[k \in DOMAIN dims |->
            IF k > done THEN dims[k]
            ELSE [dims[k] EXCEPT !.number = number(k), !.init = inits[k], !.last = inits[k],
                                 !.end = (inits[k] + number(k)) % Lines(dims[k])]] :
         inits \in {s \in [DOMAIN dims -> 0..RandMax] :
                       \A k \in DOMAIN dims : s[k] < Lines(dims[k]) \/ (s[k] = 0 /\ k > done)}}

\* Fault: behind its end a window goes on with the first row of the file.
RowAtFileBegin(dep) == IF dep.last \in {dep.end, Lines(dep)} THEN 0 ELSE dep.last

\* The row that comes next: from the end of the window to its begin, from that of the file
\* to the first.
RowAt(dep) ==
    LET last == IF dep.last = dep.end THEN dep.init ELSE dep.last
    IN  IF last = Lines(dep) THEN 0 ELSE last

MultiFileRandomCalculate ==
    LET k == f.picks[f.pick]
        first == row = 0 /\ ~f.windows
    IN  /\ Calculates("MultiFile")
        /\ IF f.dims = <<>> \/ (f.dims # <<>> /\ ~HasRows(File(f.dims[k].dim)))
           THEN Ends("failed")
           ELSE \E dims \in IF first THEN Windows(f.dims) ELSE {f.dims} :
                  LET r == RowAt(dims[k])
                  IN  /\ SetsValue(dims[k].dim, r)
                      /\ fn' = [fn EXCEPT ![at[1]] = [f EXCEPT !.dims = [dims EXCEPT ![k].last = r + 1],
                                                               !.pick = (f.pick % Hundred) + 1,
                                                               !.windows = f.windows \/ first]]
                      /\ picked' = [picked EXCEPT ![at[1]] = Append(@, <<k, r>>)]

\* MappingRandomCalculate: there is no index of the files by their keys, so none is found;
\* without a key it looks for the file of no object.
MappingRandomCalculate ==
    /\ Calculates("Mapping")
    /\ IF f.deps # <<>> /\ f.key = NoReference THEN Ends("crashed") ELSE Ends("failed")

\* A function that was not told its type makes no value.
NothingCalculate == Calculates("Invalid") /\ NextColumn /\ UNCHANGED <<fn, value, picked>>

Calculate ==
    \/ DefaulRandomCalculate
    \/ PercentRandomCalculate
    \/ NatureRandomCaculate
    \/ PseudoRandomCaculate
    \/ TableRandomCalculate
    \/ LessOrMoreCalculate
    \/ FileRandomCalculate
    \/ MultiFileRandomCalculate
    \/ MappingRandomCalculate
    \/ NothingCalculate

Ended == {"refused", "undefined", "failed", "crashed", "done"}

Next ==
    \/ ProcessParameter
    \/ EndParameters
    \/ AddDependencies
    \/ LoadFiles
    \/ Calculate
    \/ phase \in Ended /\ UNCHANGED vars

Spec == Init /\ [][Next]_vars

-----------------------------------------------------------------------------
(* Properties.                                                             *)

\* A column whose function draws from a dimension file holds a field of the column the
\* parameter names, whatever other functions asked of the same file, when the lines of the
\* file fit the buffer they are read to and have all the fields.  Of a line with quotes it may
\* hold what that field's memory was used for before the field was converted.
DrawsTheColumn ==
    \A c \in DOMAIN fn :
        LET k == IF fn[c].type = "File" THEN 1 ELSE Last(picked[c])[1]
            d == fn[c].dims[k].dim
        IN  /\ fn[c].type \in {"File", "MultiFile"} /\ value[c] # Nothing
            /\ phase \in {"rows", "done"} /\ Complete(d)
            => \E i \in DOMAIN tpl.reads[File(d)] :
                  LET field == <<File(d), i, tpl.dim[d].idx>>
                  IN  value[c] = field \/ (value[c] = Freed(field) /\ Quoted(tpl.reads[File(d)][i]))

\* Of every Hundred picks that follow one another each file has its percentage, when there are
\* no more files than a byte can number.
ShareOfFiles ==
    \A c \in DOMAIN picked : Len(fn[c].dims) <= Byte =>
        \A n \in 0..(Len(picked[c]) - Hundred), k \in DOMAIN fn[c].dims :
            Cardinality({i \in (n + 1)..(n + Hundred) : picked[c][i][1] = k}) = fn[c].dims[k].percent

\* The rows of dependency dep that are to be drawn.
Window(dep) == {(dep.init + j) % Lines(dep) : j \in 0..(dep.number - 1)}

Picked(c, p) == {i \in DOMAIN picked[c] : picked[c][i] = p}

\* A window that was set, as those of the files before the first without lines are, and that
\* does not end at the end of its file: its rows are drawn in turn, over and over, so that none
\* is drawn twice more than another, and no other row is.
EvenInWindow ==
    \A c \in DOMAIN picked : \A k \in DOMAIN fn[c].dims :
        LET dep == fn[c].dims[k]
        IN  /\ fn[c].windows /\ \A j \in 1..k : HasRows(File(fn[c].dims[j].dim))
            /\ dep.end # 0 \/ dep.init = 0
            => /\ \A i \in DOMAIN picked[c] : picked[c][i][1] = k => picked[c][i][2] \in Window(dep)
               /\ \A r, q \in Window(dep) :
                     Cardinality(Picked(c, <<k, r>>)) <= Cardinality(Picked(c, <<k, q>>)) + 1

\* The dependencies that the template gives column c, and what their percentages are in all.
Written(c) ==
    SelectSeq(tpl.columns[c].parameters, LAMBDA p : p.tag = "Value" /\ p.says.dim # NoReference)

WrittenTotal(c) == FoldFunction(+, 0, [i \in DOMAIN Written(c) |-> Written(c)[i].says.percent])

\* The percentages of a MultiFile column have to total 100 (the end of RandomFunc::process):
\* a column of which the template says so is not refused there, nor written past its array.
HundredAccepted ==
    /\ phase \in {"refused", "undefined"} /\ at[2] = Len(Parameters(at[1])) + 1
    /\ f.type = "MultiFile"
    => WrittenTotal(at[1]) # Hundred

\* What a column needs of its template.
Sound(c) ==
    LET g == fn[c]
        type == tpl.columns[c].type
    IN  CASE g.type \in {"Percent", "Nature"} -> type # "string"
          [] g.type = "Pseudo" -> type # "string" /\ g.low <= g.high /\ g.high < Unsigned
          [] g.type = "Table" ->
                g.deps # <<>> /\ g.low = 0 /\ (g.deps[1] = "own" \/ tpl.tables[g.deps[1]].rows > 0)
          [] g.type \in {"Less", "More"} ->
                g.deps # <<>> /\ (g.deps[1] = "own" \/ tpl.tables[g.deps[1]].rows >= tpl.rows)
          [] g.type \in {"File", "MultiFile"} ->
                /\ g.dims # <<>>
                /\ \A dep \in Range(g.dims) :
                      /\ HasRows(File(dep.dim)) /\ Complete(dep.dim)
                      /\ LoadedType(dep.dim) \in Loadable
                      /\ Generic(LoadedType(dep.dim)) = Generic(type)
          [] g.type = "Mapping" -> FALSE
          [] OTHER -> TRUE

\* Rows fail, and the program ends in the midst of them, only for a column with a reason:
\* every other gets a value for every row of every file, however ranges, windows and what
\* other columns ask of the files come together.
SoundColumnsSucceed ==
    /\ phase \in {"failed", "crashed"} => ~Sound(at[1])
    /\ phase = "undefined" /\ at[2] = 0 => ~Sound(at[1])
=============================================================================
