----------------------------- MODULE RowProduction -----------------------------
(***************************************************************************)
(* How a table makes its rows (CTableObject::ProducedRowData): a walk over *)
(* the elements below the table calls createData of each, after that of    *)
(* its children; a column has its function calculate a value and store it  *)
(* in the row, a subcolumn keeps its own, and the function Merge packs the *)
(* values of the subcolumns into the one of their column.                  *)
(*                                                                         *)
(* A template is the sequence of the elements of the table in the order of *)
(* the text, with their parents; the table is the first.  The rows come    *)
(* from a seed, whose words are all Seed.  A number is the set of the      *)
(* places of its ones, which a shift and an or are all that is done to; a  *)
(* uint64_t has Bits places, a uint32_t Half of them, and a uint8_t Byte   *)
(* values.                                                                 *)
(***************************************************************************)
EXTENDS Integers, Sequences, FiniteSets, SequencesExt

CONSTANTS
    Templates,    \* the templates: [rows, elements]
    Bits,         \* 64
    Half,         \* 32
    Byte          \* 2^8

ASSUME RowAssumption == {Bits, Half, Byte} \subseteq Nat \ {0} /\ Half < Bits /\ Bits < Byte

\* The table comes first and each element after its parent; columns are in its head or its body,
\* the structures between them left out.  The body is one and comes last, as in the templates of
\* seedfile/: behind it the places of a head would begin where those of the body end.
IsTemplate(rows, elements) ==
    LET KindOf(e) == elements[e].kind
    IN  /\ rows \in Nat /\ elements \in Seq(Range(elements)) /\ elements # <<>>
        /\ \A e \in DOMAIN elements :
              /\ elements[e].parent \in 0..(e - 1) /\ elements[e].bitLen \in 0..(Byte - 1)
              /\ elements[e].parent = 0 <=> e = 1
              /\ KindOf(e) = "Table" <=> e = 1
              /\ KindOf(e) \in {"Head", "Body"} => elements[e].parent = 1
              /\ KindOf(e) = "Column" => KindOf(elements[e].parent) \in {"Head", "Body"}
        /\ \A e, f \in DOMAIN elements :
              KindOf(e) = "Body" /\ KindOf(f) \in {"Head", "Body"} => f <= e

ASSUME TemplateAssumption == \A t \in Templates : IsTemplate(t.rows, t.elements)

VARIABLES
    tpl,          \* the template
    phase,        \* "rows", or how they ended
    open,         \* the calls of ProducedRowData: the element, and its child so far, or 0
    filled,       \* m_curFilledCount
    mem,          \* the words from m_pData on
    inner         \* m_inerData of the subcolumns

vars == <<tpl, phase, open, filled, mem, inner>>

Elements == DOMAIN tpl.elements
Element(e) == tpl.elements[e]
Kind(e) == Element(e).kind
Children(e) == {c \in Elements : Element(c).parent = e}
SubColumns(e) == {c \in Children(e) : Kind(c) = "SubColumn"}

\* The columns of a head or of a body.
ColumnsOf(kind) == {c \in Elements : Kind(c) = "Column" /\ Kind(Element(c).parent) = kind}

RowSize == Cardinality(ColumnsOf("Body"))
Numbers == SUBSET (0..(Bits - 1))
Seed == {Bits}          \* a word no function makes

Init ==
    /\ tpl \in Templates
    /\ phase = "rows" /\ open = <<>> /\ filled = 0
    /\ mem = [a \in 0..(tpl.rows * RowSize - 1) |-> Seed]
    /\ inner = [e \in Elements |-> {}]

-----------------------------------------------------------------------------
(* The walk.                                                               *)

\* The element of the last call, and its child so far.
top == Last(open)
Pop == open' = Front(open)

\* The children of that element that are to come.
Rest == {c \in Children(top[1]) : c > top[2]}

HasPercentChild(e) == \E c \in Children(e) : Element(c).percent

BeginRow ==
    /\ phase = "rows" /\ open = <<>> /\ filled < tpl.rows
    /\ open' = << <<1, 0>> >>
    /\ UNCHANGED <<tpl, phase, filled, mem, inner>>

EndRows ==
    /\ phase = "rows" /\ open = <<>> /\ filled = tpl.rows
    /\ phase' = "done"
    /\ UNCHANGED <<tpl, open, filled, mem, inner>>

Descend ==
    /\ phase = "rows" /\ open # <<>>
    /\ ~HasPercentChild(top[1])
    /\ \E c \in Rest :
          /\ \A later \in Rest : c <= later
          /\ open' = Append(Append(Front(open), <<top[1], c>>), <<c, 0>>)
    /\ UNCHANGED <<tpl, phase, filled, mem, inner>>

\* ProducedRowDataPercent: nobody calls initPercent, so that the child it begins with is that
\* of an iterator that was never set.
ProducedRowDataPercent ==
    /\ phase = "rows" /\ open # <<>> /\ HasPercentChild(top[1])
    /\ phase' = "undefined"
    /\ UNCHANGED <<tpl, open, filled, mem, inner>>

\* The children of e are done, and e creates its data.
Creates(e) ==
    /\ phase = "rows" /\ open # <<>>
    /\ e = top[1] /\ ~HasPercentChild(e) /\ Rest = {}

-----------------------------------------------------------------------------
(* CBaseFunc::Calculate and autoValue::setNumber.                          *)

\* Fault: the columns of the body come after those of the head.
AtGoesOn(e) == Cardinality({c \in ColumnsOf("Head") \union ColumnsOf("Body") : c < e})

\* m_offset: head and body each begin at 0.
At(e) == Cardinality({c \in ColumnsOf(Kind(Element(e).parent)) : c < e})

Address(e) == filled * RowSize + At(e)

\* What is left of a number in an element's type.
Cut(e, n) == IF Element(e).type = "uint32" THEN n \intersect (0..(Half - 1)) ELSE n

Typed(e) == Element(e).type \in {"uint64", "uint32"}

\* The value goes to the row, or stays with the subcolumn; a bit has no type, and stores none.
Stores(e, n) ==
    IF Typed(e) /\ Kind(e) = "Column" /\ Address(e) \notin DOMAIN mem
    THEN phase' = "undefined" /\ UNCHANGED <<open, mem, inner>>
    ELSE /\ Pop
         /\ mem' = IF Typed(e) /\ Kind(e) = "Column" THEN [mem EXCEPT ![Address(e)] = Cut(e, n)] ELSE mem
         /\ inner' = IF Typed(e) /\ Kind(e) = "SubColumn" THEN [inner EXCEPT ![e] = Cut(e, n)] ELSE inner
         /\ UNCHANGED phase

\* The bits of the subcolumns of e up to the element n.
BitsUpTo(e, n) ==
    LET bits[k \in Nat] ==
            IF k = 0 THEN 0
            ELSE IF k \in SubColumns(e) THEN bits[k - 1] + Element(k).bitLen ELSE bits[k - 1]
    IN  bits[n]

\* Fault: the bits of s count, too.
LeftLate(s) == BitsUpTo(Element(s).parent, s) % Byte

\* MergeFunc::Calculate: leftbit when the subcolumn s is merged.
Left(s) == BitsUpTo(Element(s).parent, s - 1) % Byte

Shifted(n, left) == {b + left : b \in n} \intersect (0..(Bits - 1))

\* The or of the subcolumns; a shift by the bits of the word or more gives any value.
Merged(e) ==
    IF \E s \in SubColumns(e) : Left(s) >= Bits
    THEN Numbers
    ELSE {UNION {Shifted(inner[s], Left(s)) : s \in SubColumns(e)}}

-----------------------------------------------------------------------------
(* createData.                                                             *)

ColumnKinds == {"Column", "SubColumn", "Bit"}
Calculates(e, func) == Creates(e) /\ Kind(e) \in ColumnKinds /\ Element(e).func = func

\* A function that makes a number, or fails: the rest of the row is not made.
CalculateNumber ==
    \E e \in Elements :
        /\ Calculates(e, "Number")
        /\ \/ \E n \in Numbers : Stores(e, n)
           \/ phase' = "failed" /\ UNCHANGED <<open, mem, inner>>
        /\ UNCHANGED <<tpl, filled>>

\* Only into a uint64_t.
CalculateMerge ==
    \E e \in Elements :
        /\ Calculates(e, "Merge")
        /\ IF Element(e).type = "uint64"
           THEN \E n \in Merged(e) : Stores(e, n)
           ELSE Pop /\ UNCHANGED <<phase, mem, inner>>
        /\ UNCHANGED <<tpl, filled>>

\* The base class finds the address, and no more; a head, a body and a parameter do nothing.
CreateNothing ==
    \E e \in Elements :
        /\ Creates(e) /\ Kind(e) # "Table"
        /\ Kind(e) \in ColumnKinds => Element(e).func = "None"
        /\ Pop
        /\ UNCHANGED <<tpl, phase, filled, mem, inner>>

\* The table comes last: the next row is filled.
CreateRow ==
    \E e \in Elements :
        /\ Creates(e) /\ Kind(e) = "Table"
        /\ Pop
        /\ filled' = filled + 1
        /\ UNCHANGED <<tpl, phase, mem, inner>>

Next ==
    \/ BeginRow \/ EndRows \/ Descend \/ ProducedRowDataPercent
    \/ CalculateNumber \/ CalculateMerge \/ CreateNothing \/ CreateRow

Spec == Init /\ [][Next]_vars

-----------------------------------------------------------------------------
(* Properties.                                                             *)

\* The bits of the subcolumns merged before s.
BitsBefore(s) == BitsUpTo(Element(s).parent, s - 1)

\* The subcolumns of e have room in its word, and each has a value of its length.
Fits(e) ==
    /\ BitsUpTo(e, Len(tpl.elements)) <= Bits
    /\ \A s \in SubColumns(e) :
          BitsBefore(s) < Bits /\ inner[s] \subseteq 0..(Element(s).bitLen - 1)

\* The columns of the body that have their subcolumns merged into their word.
Merging == {e \in ColumnsOf("Body") : Element(e).func = "Merge" /\ Element(e).type = "uint64"}

\* In a row that was just made, the word of a column that merges its subcolumns has the value
\* of each in its bits, the one of this row, when they fit: whatever is merged into them in
\* turn, and whichever rows were made before.
FieldsOfRow ==
    open = <<>> /\ filled > 0 /\ phase \in {"rows", "done"} =>
        \A e \in Merging : Fits(e) =>
            \A s \in SubColumns(e) :
                inner[s] = {b \in 0..(Element(s).bitLen - 1) :
                               BitsBefore(s) + b \in mem[(filled - 1) * RowSize + At(e)]}

\* The column changes its word of a row.
Writes(e) ==
    \/ Element(e).func = "Number" /\ Typed(e)
    \/ Element(e).func = "Merge" /\ Element(e).type = "uint64"

\* The word at a is that of a column of the body that writes, in a row made or being made.
Made(a) ==
    \E f \in 0..filled, c \in ColumnsOf("Body") :
        /\ f = filled => open # <<>>
        /\ Writes(c) /\ At(c) \in 0..(RowSize - 1) /\ a = f * RowSize + At(c)

\* The seed is kept in the columns that have no function, in the rows that are still to come,
\* and, if one fails, in those after it: unless a column of the head, whose place is in the
\* row all the same, has a function.
SeedKept ==
    (\A h \in ColumnsOf("Head") : ~Writes(h)) =>
        /\ phase = "undefined" => \E e \in Elements : Element(e).percent
        /\ \A a \in DOMAIN mem : mem[a] # Seed => Made(a)
=============================================================================
