----------------------------- MODULE RecordText -----------------------------
(***************************************************************************)
(* The rows of a table as lines of text (src/file/Example/Example.cc) over *)
(* the layout of RecordLayout: when the walk leaves a table its seed, a    *)
(* csv file, is read into memory, field after field at a pointer that runs *)
(* on from line to line; the lines of the file made of it are written from *)
(* the offsets of the layout, row after row by the size of a row.          *)
(*                                                                         *)
(* Memory is counted in words: a number has one, a text several, of which  *)
(* the first stands for all.  A word read as the other type gives its      *)
(* value.  A text is written as long as it is, into the words behind its   *)
(* place and behind the allocated memory if it is too long.  A template    *)
(* has a third part, the set flags of the columns with unionflag: their    *)
(* number chooses the member of the union behind them.                     *)
(***************************************************************************)
EXTENDS RecordLayout, SequencesExt

CONSTANTS
    FlagValues,   \* the numbers of flagged columns
    TextWords,    \* the words that the texts of the seed take, each with its '\0'
    Narrow,       \* 2^32: what a product of uint32_t is cut to
    MaxLines,     \* bound: lines of the seed
    MaxWords      \* bound: words of memory the model keeps

VARIABLES
    phase,        \* "layout", "reading", "writing", "written"; "dead": an exception nobody catches
    loaded,       \* the seed: "not yet", "yes", or "refused" by ReadData
    entries,      \* m_num_entries: the lines of the seed as countFileLine has them
    line,         \* the line that is read or written
    todo,         \* the calls of EntryColumn or WriteColumn to come: <<element, index>>
    data,         \* pData of ReadData, in words
    reach,        \* history: the word behind the furthest one that was written
    excess,       \* history: by how much the longest text was too long for its place
    mem,          \* m_seedData and the words behind it
    seed,         \* history: the fields of the lines read
    out,          \* the values of the lines written
    medium,       \* "none" yet, "file" or "stream"
    names         \* the names in the header

text == <<phase, loaded, entries, line, todo, data, reach, excess, mem, seed, out, medium, names>>
vars == <<layout, text>>

\* The types of which EntryColumn and WriteColumn move the value: AUTO_UINT64, AUTO_RealTime and
\* AUTO_RealTime_ms are numbers, AUTO_STRING and AUTO_ByteArray texts.
Stored == {"number", "text"}
ColumnKinds == DOMAIN Length \union {"untyped"}

Body == CHOOSE n \in Nodes : Kind(n) = "body"
RowSize == at[Body]                       \* m_entry_size

\* The words of m_seedData: both factors are uint32_t, and so is what is given to malloc.
Allocated == (entries * RowSize) % Narrow

\* The element behind a flagged column.
NextOf(n) == Min({m \in Nodes : n < m /\ ~Below(m, n)})

\* The text is that of one table.  A flag is a number with an element behind it in the same
\* structure; the unions have the members that may be chosen: the rest is undefined in C++.
\* The words kept hold the lines of every seed.
TextAssumption ==
    /\ Stored \subseteq DOMAIN Length /\ Length["number"] = 1 /\ Length["text"] >= 1
    /\ FlagValues \subseteq Nat /\ MaxLines \in Nat /\ MaxWords \in Nat
    /\ TextWords \subseteq Nat \ {0} /\ Narrow \in Nat \ {0}
    /\ \A t \in Templates :
          /\ \E a, b \in DOMAIN t.kind :
                /\ {n \in DOMAIN t.kind : t.kind[n] = "table"} = {a}
                /\ {n \in DOMAIN t.kind : t.kind[n] = "body"} = {b}
                /\ IsBelow(t, b, a)
          /\ MaxLines * SumOf([n \in {m \in DOMAIN t.kind : t.kind[m] \in DOMAIN Length} |->
                                  Length[t.kind[n]]]) <= MaxWords
          /\ t.flags \subseteq {n \in DOMAIN t.kind : t.kind[n] = "number"}
          /\ \A n \in t.flags : n + 1 \in DOMAIN t.kind /\ t.depth[n + 1] = t.depth[n]
          /\ \A u \in DOMAIN t.kind : t.kind[u] = "union" =>
                \A c \in FlagValues \union {0} :
                    c < Cardinality({m \in DOMAIN t.kind :
                                        IsBelow(t, m, u) /\ t.depth[m] = t.depth[u] + 1})
ASSUME TextAssumption

TextInit ==
    /\ Init
    /\ phase = "layout" /\ loaded = "not yet"
    /\ entries = 0 /\ line = 0 /\ todo = <<>> /\ data = 0 /\ reach = 0 /\ excess = 0
    /\ mem = [w \in 0..(MaxWords - 1) |-> 0]
    /\ seed = <<>> /\ out = <<>> /\ medium = "none" /\ names = 0

-----------------------------------------------------------------------------
(* The walk over the elements of the body, the same in reading a line, in  *)
(* writing one and in writing the names.                                   *)

\* The children of n in order: the next has one more before it.
ChildSeq(n) ==
    LET c == Children(n)
    IN  [i \in 1..Cardinality(c) |-> CHOOSE m \in c : Cardinality({k \in c : k < m}) = i - 1]

\* A call for every child, with no index.
CallsBelow(n) == LET c == ChildSeq(n) IN [i \in DOMAIN c |-> <<c[i], 0>>]

\* A structure calls all its children, a union the one of the index.
Calls(n, index) ==
    IF Kind(n) = "struct" THEN CallsBelow(n)
    ELSE IF Kind(n) = "union" THEN <<<<ChildSeq(n)[index + 1], 0>>>>
    ELSE <<>>

\* A flagged column calls what is behind it, with its number as the index.
CallsBehind(n, v) == IF n \in tab.flags THEN <<<<NextOf(n), v>>>> ELSE <<>>

AtColumn(n) == todo # <<>> /\ n = todo[1][1] /\ Kind(n) \in ColumnKinds

HasMember(n, index) == Kind(n) = "union" => index < Cardinality(Children(n))

Descend ==
    /\ phase \in {"reading", "writing"}
    /\ todo # <<>> /\ Kind(todo[1][1]) \notin ColumnKinds
    /\ HasMember(todo[1][1], todo[1][2])
    /\ todo' = Calls(todo[1][1], todo[1][2]) \o Tail(todo)
    /\ UNCHANGED <<phase, loaded, entries, line, data, reach, excess, mem, seed, out, medium, names>>
    /\ UNCHANGED layout

\* A flag read back from the wrong place: the end of the list is dereferenced.
NoSuchMember ==
    /\ phase = "writing"
    /\ todo # <<>> /\ ~HasMember(todo[1][1], todo[1][2])
    /\ phase' = "dead"
    /\ UNCHANGED <<loaded, entries, line, todo, data, reach, excess, mem, seed, out, medium, names>>
    /\ UNCHANGED layout

-----------------------------------------------------------------------------
(* processItem and ReadData.                                               *)

LeavesTable == open # <<>> /\ Ends(open[Len(open)]) /\ Kind(open[Len(open)]) = "table"

Layout ==
    /\ phase = "layout" /\ ~LeavesTable
    /\ LayoutNext
    /\ UNCHANGED text

\* The fields of the next line, as EntryColumn is to find them.
BeginLine ==
    /\ line' = line + 1 /\ todo' = CallsBelow(Body)
    /\ seed' = Append(seed, <<>>)

OpenSeed ==
    /\ phase = "layout" /\ LeavesTable
    /\ CloseTable
    /\ phase' = "reading" /\ entries' \in 1..MaxLines
    /\ BeginLine
    /\ UNCHANGED <<loaded, data, reach, excess, mem, out, medium, names>>

\* The value of a field: a new one for every field, but for a flag.
FieldValues(n) == IF n \in tab.flags THEN FlagValues ELSE {10 * line + Len(Last(seed))}

\* Fault: the pointer goes on by a text behind every column.
WidthInTextFull(n) == Length["text"]

\* Fault: a text is followed by the next field at once.
WidthInTextOnce(n) == IF Kind(n) \in Stored THEN 1 ELSE 0

\* How far the pointer goes on behind the column.
WidthInText(n) == IF Kind(n) \in Stored THEN Length[Kind(n)] ELSE 0

\* What memory has of a text that is too long for its place: no member of a union, no field.
Mangled == 10 * (MaxLines + 1)

\* The words that a column writes: atoll gives one, memcpy copies as much text as there is.
WordsOf(n) ==
    IF Kind(n) = "text" THEN TextWords ELSE IF Kind(n) = "number" THEN {1} ELSE {0}

\* A column takes the next field of the line.  The value is stored where the pointer is: what
\* is behind its place is written again by the fields to come, if any.
EntryColumn ==
    \E n \in Nodes :
        /\ phase = "reading" /\ AtColumn(n)
        /\ \E field \in FieldValues(n), w \in WordsOf(n) :
              LET v == IF Kind(n) = "text" /\ w > Length["text"] THEN Mangled ELSE field
              IN  /\ seed' = [seed EXCEPT ![line] = Append(@, v)]
                  /\ mem' = [i \in DOMAIN mem |-> IF i \in data..(data + w - 1) THEN v ELSE mem[i]]
                  /\ reach' = Larger(reach, data + w)
                  /\ excess' = Larger(excess, w - Length["text"])
                  /\ todo' = CallsBehind(n, v) \o Tail(todo)
        /\ data' = data + WidthInText(n)
        /\ UNCHANGED <<phase, loaded, entries, line, out, medium, names>>
        /\ UNCHANGED layout

\* The line has no field left: substr throws.
LineTooShort ==
    /\ phase = "reading"
    /\ \E n \in Nodes : AtColumn(n)
    /\ Last(seed) # <<>>
    /\ phase' = "dead"
    /\ UNCHANGED <<loaded, entries, line, todo, data, reach, excess, mem, seed, out, medium, names>>
    /\ UNCHANGED layout

\* Memory of others was written: the process may die of it at once or later.
DiesOfOverrun ==
    /\ phase \in {"reading", "writing"}
    /\ reach > Allocated
    /\ phase' = "dead"
    /\ UNCHANGED <<loaded, entries, line, todo, data, reach, excess, mem, seed, out, medium, names>>
    /\ UNCHANGED layout

\* The fields the line has beyond the columns are not looked at.
NextLine ==
    /\ phase = "reading" /\ todo = <<>> /\ line < entries
    /\ BeginLine
    /\ UNCHANGED <<phase, loaded, entries, data, reach, excess, mem, out, medium, names>>
    /\ UNCHANGED layout

\* All lines are read, or an empty line ends the reading before that.
EndSeed ==
    /\ phase = "reading"
    /\ \/ todo = <<>> /\ line = entries /\ loaded' = "yes"
       \/ todo = CallsBelow(Body) /\ Last(seed) = <<>> /\ loaded' = "refused"
    /\ phase' = "layout" /\ line' = 0 /\ todo' = <<>>
    /\ UNCHANGED <<entries, data, reach, excess, mem, seed, out, medium, names>>
    /\ UNCHANGED layout

-----------------------------------------------------------------------------
(* TableGeneratedData, of a table whose rows are those of the seed.        *)

\* Fault: every member of a union has its name in the header.
NameCountOfAll ==
    LET f[n \in Nodes] ==
            IF Kind(n) \in ColumnKinds THEN 1 + (IF n \in tab.flags THEN f[NextOf(n)] ELSE 0)
            ELSE SumOf([m \in Children(n) |-> f[m]])
    IN  f

\* WriteColumnName: the names an element has in the header, of a union those of its first member.
NameCount ==
    LET f[n \in Nodes] ==
            IF Kind(n) \in ColumnKinds THEN 1 + (IF n \in tab.flags THEN f[NextOf(n)] ELSE 0)
            ELSE IF Kind(n) = "struct" THEN SumOf([m \in Children(n) |-> f[m]])
            ELSE IF Kind(n) = "union" THEN f[ChildSeq(n)[1]]
            ELSE 0
    IN  f

BeginRow ==
    /\ line' = line + 1 /\ todo' = CallsBelow(Body)
    /\ out' = Append(out, <<>>)

\* The header: without a name the last comma cannot be replaced, which throws.  In a stream
\* it has the names of the body's own children, which are structures as a rule.
WriteHeader ==
    /\ phase = "layout" /\ LaidOut /\ loaded = "yes"
    /\ medium' \in {"file", "stream"}
    /\ names' = IF medium' = "file" THEN SumOf([m \in Children(Body) |-> NameCount[m]])
                ELSE Cardinality(Children(Body))
    /\ IF names' > 0
       THEN phase' = "writing" /\ BeginRow
       ELSE phase' = "dead" /\ UNCHANGED <<line, todo, out>>
    /\ UNCHANGED <<loaded, entries, data, reach, excess, mem, seed>>
    /\ UNCHANGED layout

\* The word of column n in the row that is written.
Word(n) ==
    LET w == (line - 1) * RowSize + (IF at[n] = Unset THEN 0 ELSE at[n])
    IN  IF w < MaxWords THEN mem[w] ELSE 0

WriteColumn ==
    \E n \in Nodes :
        /\ phase = "writing" /\ AtColumn(n)
        /\ out' = IF Kind(n) \in Stored THEN [out EXCEPT ![line] = Append(@, Word(n))] ELSE out
        /\ todo' = CallsBehind(n, Word(n)) \o Tail(todo)
        /\ UNCHANGED <<phase, loaded, entries, line, data, reach, excess, mem, seed, medium, names>>
        /\ UNCHANGED layout

\* The line ends where its last comma is: a line without a value throws.
EndRow ==
    /\ phase = "writing" /\ todo = <<>>
    /\ IF Last(out) = <<>> THEN phase' = "dead" /\ UNCHANGED <<line, todo, out>>
       ELSE IF line < entries THEN BeginRow /\ UNCHANGED phase
       ELSE phase' = "written" /\ UNCHANGED <<line, todo, out>>
    /\ UNCHANGED <<loaded, entries, data, reach, excess, mem, seed, medium, names>>
    /\ UNCHANGED layout

Next ==
    \/ Layout \/ OpenSeed \/ Descend \/ NoSuchMember \/ EntryColumn \/ LineTooShort
    \/ DiesOfOverrun \/ NextLine \/ EndSeed
    \/ WriteHeader \/ WriteColumn \/ EndRow

Spec == TextInit /\ [][Next]_vars

-----------------------------------------------------------------------------
(* What the format promises.                                               *)

InBody(n) == Below(n, Body)

\* The row is as long as its columns: no structure of the body begins behind a field of the
\* structure around it.
RowIsExact ==
    RowSize = SumOf([n \in {m \in Nodes : InBody(m) /\ IsColumn(m)} |-> len[n]])

(* What the lines of the seed are read into stays within the memory that   *)
(* was allocated for them, whatever columns the format passes over, where  *)
(* the size of the memory is a number of 32 bits; a text too long for its  *)
(* place leads out of it by no more than it is too long.                   *)
StaysInSeed ==
    phase = "reading" /\ NoUnions(Body) /\ FitsStack /\ tab.flags = {} /\ entries * RowSize < Narrow
    => reach <= Allocated + excess

(* A seed of numbers and texts comes out as it went in, field by field and *)
(* line by line, though it is read by a pointer and written by offsets.  A *)
(* text too long for its place spoils no field but itself, if the memory   *)
(* that was allocated holds what was written.                              *)
RoundTrip ==
    /\ phase = "written"
    /\ \A n \in Nodes : InBody(n) => Kind(n) \in Stored \union {"struct"}
    /\ tab.flags = {} /\ FitsStack /\ RowIsExact /\ reach <= Allocated
    => out = seed

(* Every line of a file has as many values as its header has names, also   *)
(* when flags choose between the members of unions.                        *)
HeaderFits ==
    /\ phase = "written" /\ medium = "file" /\ excess = 0 /\ reach <= Allocated
    /\ \A n \in Nodes : InBody(n) => Kind(n) \in Stored \union Nested
    /\ \A u \in Nodes : Kind(u) = "union" => \A m \in Children(u) :
          Kind(m) \in Stored /\ m \notin tab.flags
    => \A i \in DOMAIN out : Len(out[i]) = names
=============================================================================
