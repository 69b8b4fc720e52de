--------------------------- MODULE DimensionFiles ---------------------------
(***************************************************************************)
(* The dimension files of a template (sub/parser/XmlParser.cc): the        *)
(* columns that functions ask for get positions, file by file, while the   *)
(* template is processed; then the files, csv, are loaded, and of each     *)
(* line the fields of these columns are kept at their positions.           *)
(*                                                                         *)
(* A template says which columns its dimension files have, each with its   *)
(* file, its colIdx and its type.  A file is what fgets reads of it, in    *)
(* turn, into its buffer of 1024 characters: a line, or a part of a longer *)
(* one.  A read tells whether it begins a line, whether it has the end of  *)
(* one, and its fields:                                                    *)
(*   "plain"    characters, and no quote;                                  *)
(*   "empty"    no character;                                              *)
(*   "quoted"   characters between two quotes;                             *)
(*   "broken"   a quote at the begin, and none that ends the field, as the *)
(*              buffer leaves it, or one that ends it at once;             *)
(*   "inner"    a quote behind other characters.                           *)
(* Each read becomes a row.  A value is the place it was read from.        *)
(***************************************************************************)
EXTENDS Integers, Sequences, FiniteSets, SequencesExt

VARIABLES
    tpl,          \* the template: [dim : [name -> [file, idx, type]], reads : [file -> sequence], ...]
    info,         \* m_DimensionInfoMap: m_CollumnArray, the columns to load of each file
    mapping,      \* m_mappingidx of the dimension columns, 0 when not asked for
    data          \* m_tableData: the rows of the files that are loaded

dimensions == <<info, mapping, data>>

Null == <<>>            \* a value that was not read
Garbage == <<"?">>      \* one that is not of a file
FieldKinds == {"plain", "empty", "quoted", "broken", "inner"}
\* Types that LoadDimensionFile converts; of the others ("other") it keeps nothing.
Loadable == {"number", "text"}

File(d) == tpl.dim[d].file
Files == {File(d) : d \in DOMAIN tpl.dim}

DimensionInit ==
    /\ info = [f \in Files |-> <<>>]
    /\ mapping = [d \in DOMAIN tpl.dim |-> 0]
    /\ data = << >>

-----------------------------------------------------------------------------
(* addDimensionInfo.                                                       *)

\* The columns of d's file that have d's index.
SameColumn(d) == {i \in DOMAIN info[File(d)] : tpl.dim[info[File(d)][i]].idx = tpl.dim[d].idx}

\* Fault: the positions are counted to the end, past the column with the index.
PositionLast(d) == IF SameColumn(d) # {} THEN Len(info[File(d)]) ELSE Len(info[File(d)]) + 1

PositionOf(d) ==
    IF SameColumn(d) # {} THEN Min(SameColumn(d)) ELSE Len(info[File(d)]) + 1

\* d is to be loaded: a column with its index is loaded once, for the first that asks.
AddDimensionInfo(d) ==
    /\ info' = IF SameColumn(d) # {} THEN info ELSE [info EXCEPT ![File(d)] = Append(@, d)]
    /\ mapping' = [mapping EXCEPT ![d] = PositionOf(d)]
    /\ UNCHANGED data

-----------------------------------------------------------------------------
(* LoadDimensionFile.                                                      *)

Quoted(read) == \E i \in DOMAIN read.fields : read.fields[i] \in {"quoted", "broken", "inner"}

\* A set of numbers in order.
InOrder(S) == [k \in 1..Cardinality(S) |-> CHOOSE i \in S : Cardinality({j \in S : j <= i}) = k]

\* strtok: fields without a character are no tokens, but for the one that the end of the line
\* is behind.
PlainTokens(read) ==
    InOrder({i \in DOMAIN read.fields :
                read.fields[i] # "empty" \/ (i = Len(read.fields) /\ read.newline)})

\* parseCsvString: behind a quoted field the rest begins with a comma, which reads as nothing
\* and ends the line; so do an empty field, a broken one, and one without a comma behind it.
QuotedTokens(read) ==
    LET last == Min({i \in DOMAIN read.fields :
                        read.fields[i] \notin {"plain", "inner"} \/ i = Len(read.fields)})
    IN  [i \in 1..(IF read.fields[last] = "quoted" THEN last ELSE last - 1) |-> i]

Tokens(read) == IF Quoted(read) THEN QuotedTokens(read) ELSE PlainTokens(read)

\* A token of a read with quotes is converted after the string it points into was destroyed:
\* what its memory holds by then.
Freed(place) == <<"freed", place>>

\* What is kept of read i of file f; garbled if freed memory was used again.
LoadedRow(f, i, garbled) ==
    LET tokens == Tokens(tpl.reads[f][i])
    IN  [pos \in DOMAIN info[f] |->
            LET d == tpl.dim[info[f][pos]]
            IN  IF d.idx \notin DOMAIN tokens \/ d.type \notin Loadable THEN Null
                ELSE IF garbled /\ Quoted(tpl.reads[f][i]) THEN Freed(<<f, i, tokens[d.idx]>>)
                ELSE <<f, i, tokens[d.idx]>>]

\* The files asked for; nobody may have put them where the template says.
AskedFor == {f \in Files : info[f] # <<>>}
Missing == AskedFor \ DOMAIN tpl.reads

LoadDimensionFiles ==
    /\ \E garbled \in BOOLEAN :
           data' = [f \in AskedFor |->
                       [i \in DOMAIN tpl.reads[f] |-> LoadedRow(f, i, garbled)]]
    /\ UNCHANGED <<info, mapping>>

\* findDimensionFileDatas
HasRows(f) == f \in DOMAIN data /\ data[f] # <<>>

-----------------------------------------------------------------------------
\* A read has field idx, and no field before it that strtok passes over or that ends what
\* parseCsvString makes of the line.
HasField(read, idx) ==
    /\ idx \in DOMAIN read.fields
    /\ \A j \in 1..idx : read.fields[j] # "empty"
    /\ Quoted(read) =>
          /\ \A j \in 1..(idx - 1) : read.fields[j] \in {"plain", "inner"}
          /\ read.fields[idx] = "quoted" \/ (read.fields[idx] # "broken" /\ idx < Len(read.fields))

\* Every line of d's file fits the buffer and has a field for d.
Complete(d) ==
    \A i \in DOMAIN tpl.reads[File(d)] :
        tpl.reads[File(d)][i].begins /\ HasField(tpl.reads[File(d)][i], tpl.dim[d].idx)
=============================================================================
