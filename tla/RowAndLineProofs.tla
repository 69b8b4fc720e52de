-------------------------- MODULE RowAndLineProofs --------------------------
(***************************************************************************)
(* Proofs about the rows of a table (RowProduction) and about the lines of *)
(* a file that is shuffled (ShuffleFileLines), for every template, width   *)
(* of the numbers and number of lines: the seed is kept where nothing      *)
(* writes, the word of a column has the fields of its subcolumns, and a    *)
(* shuffle loses no line.                                                  *)
(*                                                                         *)
(* The seed is kept because the table is the first call of the walk and    *)
(* none but the first: while there are calls the row is one of the table,  *)
(* and a column of the body has a place of its own in it.  The fields need *)
(* that each call is for the child the one before it has come to, so that  *)
(* in a row a column that merges is still to come, is being made, or has   *)
(* the value merged of what its subcolumns have until the end of the row;  *)
(* what is merged of subcolumns that fit is then a matter of sums.         *)
(***************************************************************************)
EXTENDS RowProduction, FiniteSetTheorems, WellFoundedInduction, TLAPS

-----------------------------------------------------------------------------
(* The invariant.                                                          *)

\* The calls begin with the table, which no other call is for.
Calls ==
    /\ open \in Seq(Elements \X (Elements \union {0}))
    /\ open # <<>> => open[1][1] = 1 /\ filled < tpl.rows
    /\ \A j \in 2..Len(open) : open[j][1] # 1

TypeOK ==
    /\ tpl \in Templates
    /\ phase \in {"rows", "done", "failed", "undefined"}
    /\ filled \in 0..tpl.rows
    /\ DOMAIN mem = 0..(tpl.rows * RowSize - 1)

IInv == TypeOK /\ Calls /\ SeedKept

\* Each next call is for the child that the one before it has come to.
Chain ==
    \A j \in 1..(Len(open) - 1) : open[j + 1][1] = open[j][2] /\ Element(open[j][2]).parent = open[j][1]

\* The call for the column e goes on.
InStack(e) == \E j \in DOMAIN open : open[j][1] = e

\* The call for e is to come in this row, or that for its parent, the head or the body.
Pending(e) ==
    \E j \in DOMAIN open :
        \/ open[j][1] = Element(e).parent /\ e > open[j][2]
        \/ open[j][1] = 1 /\ Element(e).parent > open[j][2]

\* The column has the value merged of what its subcolumns have, from the end of its call to
\* that of the row.
MergedIn(f, e) == mem[f * RowSize + At(e)] \in Merged(e)

RowsMerged ==
    \A e \in Merging :
        /\ open # <<>> => InStack(e) \/ Pending(e) \/ MergedIn(filled, e)
        /\ open = <<>> /\ filled > 0 => MergedIn(filled - 1, e)

MInv == DOMAIN inner = Elements /\ Chain /\ RowsMerged

-----------------------------------------------------------------------------
(* Facts about templates.                                                  *)

LEMMA ElementFacts ==
    ASSUME tpl \in Templates
    PROVE  /\ tpl.rows \in Nat
           /\ Elements = 1..Len(tpl.elements) /\ Len(tpl.elements) \in Nat
           /\ 1 \in Elements
           /\ \A e \in Elements : Kind(e) = "Table" <=> e = 1
           /\ \A e \in Elements : Element(e).parent = 0 <=> e = 1
           /\ \A e \in Elements : Element(e).parent \in 0..(e - 1)
           /\ \A e \in Elements : Element(e).bitLen \in 0..(Byte - 1)
           /\ \A e \in Elements : Kind(e) \in {"Head", "Body"} => Element(e).parent = 1
           /\ \A e \in Elements : Kind(e) = "Column" => Kind(Element(e).parent) \in {"Head", "Body"}
           /\ \A e, f \in Elements : Kind(e) = "Head" /\ Kind(f) = "Body" => e < f
<1>1. IsTemplate(tpl.rows, tpl.elements)
  BY TemplateAssumption
<1> QED BY <1>1 DEF IsTemplate, Elements, Element, Kind

LEMMA ColumnsFinite ==
    ASSUME tpl \in Templates, NEW kind
    PROVE  /\ IsFiniteSet(ColumnsOf(kind))
           /\ Cardinality(ColumnsOf(kind)) \in Nat
<1>1. IsFiniteSet(1..Len(tpl.elements))
  BY ElementFacts, FS_Interval
<1>2. ColumnsOf(kind) \subseteq 1..Len(tpl.elements)
  BY ElementFacts DEF ColumnsOf
<1> QED BY <1>1, <1>2, FS_Subset, FS_CardinalityType

\* The place of a column of the body is in the row.
LEMMA AtInRow ==
    ASSUME tpl \in Templates, NEW c \in ColumnsOf("Body")
    PROVE  At(c) \in 0..(RowSize - 1) /\ RowSize \in Nat
<1> DEFINE Before == {d \in ColumnsOf("Body") : d < c}
<1>1. At(c) = Cardinality(Before)
  BY DEF At, ColumnsOf
<1>2. Before \subseteq ColumnsOf("Body") /\ c \notin Before /\ c \in Nat
  BY ElementFacts DEF ColumnsOf
<1>3. Cardinality(Before) \in Nat /\ Cardinality(Before) < Cardinality(ColumnsOf("Body"))
  <2> HIDE DEF Before
  <2>1. IsFiniteSet(ColumnsOf("Body")) /\ Cardinality(ColumnsOf("Body")) \in Nat
    BY ColumnsFinite
  <2>2. IsFiniteSet(Before) /\ Cardinality(Before) \in Nat /\ Cardinality(Before) <= Cardinality(ColumnsOf("Body"))
    BY <1>2, <2>1, FS_Subset, FS_CardinalityType
  <2>3. Cardinality(Before) # Cardinality(ColumnsOf("Body"))
    BY <1>2, <2>1, FS_Subset
  <2> QED BY <2>1, <2>2, <2>3
<1> QED BY <1>1, <1>3, ColumnsFinite DEF RowSize

\* Which is one of the words of the table.
LEMMA AddressInTable ==
    ASSUME tpl \in Templates, NEW c \in ColumnsOf("Body"), filled \in 0..(tpl.rows - 1)
    PROVE  Address(c) \in 0..(tpl.rows * RowSize - 1)
<1> DEFINE rows == tpl.rows
           R == RowSize
           at == At(c)
<1>1. rows \in Nat /\ R \in Nat /\ at \in 0..(R - 1) /\ filled \in 0..(rows - 1)
  BY AtInRow, ElementFacts
<1> HIDE DEF rows, R, at
<1>2. (rows - filled - 1) * R >= 0 /\ filled * R >= 0
  BY <1>1
<1>3. (rows - filled - 1) * R = rows * R - filled * R - R
  BY <1>1
<1>4. rows * R \in Int /\ filled * R \in Int
  BY <1>1
<1>5. filled * R + at \in 0..(rows * R - 1)
  BY <1>1, <1>2, <1>3, <1>4
<1> QED BY <1>5 DEF Address, rows, R, at

\* Nothing about a template changes.
LEMMA SameTemplate ==
    ASSUME tpl' = tpl
    PROVE  /\ Elements' = Elements /\ RowSize' = RowSize
           /\ \A kind : ColumnsOf(kind)' = ColumnsOf(kind)
           /\ \A e : At(e)' = At(e) /\ (Writes(e)' <=> Writes(e)) /\ Element(e)' = Element(e)
  BY DEF Elements, RowSize, ColumnsOf, At, Writes, Typed, Element, Kind

-----------------------------------------------------------------------------
(* The calls.                                                              *)

LEMMA TopCall ==
    ASSUME TypeOK, Calls, open # <<>>
    PROVE  /\ Len(open) \in Nat \ {0}
           /\ top = open[Len(open)] /\ top[1] \in Elements /\ top[2] \in Elements \union {0}
           /\ top[1] = 1 <=> Len(open) = 1
<1>1. open \in Seq(Elements \X (Elements \union {0})) /\ open[1][1] = 1
      /\ \A j \in 2..Len(open) : open[j][1] # 1
  BY DEF Calls
<1>2. Len(open) \in Nat \ {0}
  BY <1>1
<1>3. top = open[Len(open)]
  BY DEF top, Last
<1>4. open[Len(open)] \in Elements \X (Elements \union {0})
  BY <1>1, <1>2
<1>5. top[1] \in Elements /\ top[2] \in Elements \union {0}
  BY <1>3, <1>4
<1>6. top[1] = 1 <=> Len(open) = 1
  <2>1. CASE Len(open) = 1
    BY <1>1, <1>3, <2>1
  <2>2. CASE Len(open) # 1
    <3>1. \A n \in Nat \ {0} : n # 1 => n \in 2..n
      OBVIOUS
    <3>2. Len(open) \in 2..Len(open)
      BY ONLY <1>2, <2>2, <3>1
    <3> QED BY <1>1, <1>3, <2>2, <3>2
  <2> QED BY <2>1, <2>2
<1> QED BY <1>2, <1>3, <1>5, <1>6

\* The call of an element other than the table returns to another.
LEMMA PopCalls ==
    ASSUME TypeOK, Calls, open # <<>>, top[1] # 1, Pop, UNCHANGED <<tpl, filled>>
    PROVE  Calls' /\ open' # <<>>
<1> DEFINE S == Elements \X (Elements \union {0})
           n == Len(open) - 1
<1>1. open \in Seq(S) /\ n \in Nat \ {0} /\ n + 1 = Len(open)
  <2>1. Len(open) \in Nat \ {0} /\ Len(open) # 1
    BY TopCall
  <2> QED BY <2>1 DEF Calls
<1>2. open' = SubSeq(open, 1, n)
  BY DEF Pop, Front
<1> HIDE DEF S, n
<1>3. open' \in Seq(S) /\ Len(open') = n /\ \A j \in 1..n : open'[j] = open[j]
  BY <1>1, <1>2
<1>4. open'[1] = open[1] /\ open' # <<>>
  BY <1>1, <1>3
<1>5. \A j \in 2..Len(open') : open'[j][1] # 1
  BY <1>1, <1>3 DEF Calls
<1> QED BY <1>3, <1>4, <1>5, SameTemplate DEF Calls, S

-----------------------------------------------------------------------------
(* The steps.                                                              *)

LEMMA InitIInv == ASSUME Init PROVE IInv
<1>1. TypeOK
  BY ElementFacts DEF Init, TypeOK, RowSize, Elements, ColumnsOf
<1>2. Calls
  BY DEF Init, Calls
<1>3. SeedKept
  BY DEF Init, SeedKept
<1> QED BY <1>1, <1>2, <1>3 DEF IInv

\* No word is made or unmade while the rows grow and the calls go on.
LEMMA SeedStays ==
    ASSUME TypeOK, SeedKept, tpl' = tpl, mem' = mem, phase' = phase,
           \/ filled' = filled /\ (open # <<>> => open' # <<>>)
           \/ filled' = filled + 1
    PROVE  SeedKept'
<1> SUFFICES ASSUME \A h \in ColumnsOf("Head") : ~Writes(h)
             PROVE  /\ phase = "undefined" => \E e \in Elements : Element(e).percent
                    /\ \A a \in DOMAIN mem : mem[a] # Seed => Made(a)'
  BY SameTemplate DEF SeedKept, Seed
<1>1. /\ phase = "undefined" => \E e \in Elements : Element(e).percent
      /\ \A a \in DOMAIN mem : mem[a] # Seed => Made(a)
  BY DEF SeedKept
<1>2. \A a : Made(a) => Made(a)'
  <2> TAKE a
  <2> SUFFICES ASSUME Made(a) PROVE Made(a)'
    OBVIOUS
  <2>1. PICK f \in 0..filled, c \in ColumnsOf("Body") :
          /\ f = filled => open # <<>>
          /\ Writes(c) /\ At(c) \in 0..(RowSize - 1) /\ a = f * RowSize + At(c)
    BY DEF Made
  <2>2. filled \in Nat
    BY ElementFacts DEF TypeOK
  <2>3. f \in 0..filled' /\ (f = filled' => open' # <<>>)
    BY <2>1, <2>2
  <2> QED BY <2>1, <2>3, SameTemplate DEF Made
<1> QED BY <1>1, <1>2

LEMMA BeginRowIInv == ASSUME IInv, BeginRow PROVE IInv'
<1>1. UNCHANGED <<tpl, phase, filled, mem>> /\ open' = << <<1, 0>> >> /\ filled < tpl.rows
  BY DEF BeginRow
<1>2. TypeOK'
  BY <1>1, SameTemplate DEF IInv, TypeOK
<1>3. Calls'
  <2>1. 1 \in Elements
    BY ElementFacts DEF IInv, TypeOK
  <2> QED BY <1>1, <2>1, SameTemplate DEF Calls
<1>4. SeedKept'
  BY <1>1, SeedStays DEF IInv
<1> QED BY <1>2, <1>3, <1>4 DEF IInv

LEMMA EndRowsIInv == ASSUME IInv, EndRows PROVE IInv'
<1>1. UNCHANGED <<tpl, open, filled, mem>> /\ phase = "rows" /\ phase' = "done"
  BY DEF EndRows
<1>2. TypeOK' /\ Calls'
  BY <1>1, SameTemplate DEF IInv, TypeOK, Calls
<1>3. SeedKept'
  BY <1>1, SameTemplate DEF IInv, SeedKept, Made, Seed
<1> QED BY <1>2, <1>3 DEF IInv

LEMMA DescendIInv == ASSUME IInv, Descend PROVE IInv'
<1>1. PICK c \in Rest : open' = Append(Append(Front(open), <<top[1], c>>), <<c, 0>>)
  BY DEF Descend
<1>2. UNCHANGED <<tpl, phase, filled, mem>> /\ open # <<>>
  BY DEF Descend
<1> DEFINE S == Elements \X (Elements \union {0})
           n == Len(open) - 1
<1>3. open \in Seq(S) /\ n \in Nat /\ n + 1 = Len(open) /\ top = open[Len(open)] /\ top \in S
  <2>1. open \in Seq(S)
    BY DEF IInv, Calls
  <2>2. Len(open) \in Nat \ {0} /\ top = open[Len(open)]
    BY <1>2, TopCall DEF IInv
  <2> QED BY <2>1, <2>2
<1>4. c \in Elements /\ c # 1 /\ Element(c).parent = top[1] /\ top[1] \in Elements
  <2>1. c \in Elements /\ Element(c).parent = top[1]
    BY DEF Rest, Children
  <2>2. top[1] \in Elements /\ top[1] # 0
    BY <1>2, TopCall, ElementFacts DEF IInv, TypeOK
  <2> QED BY <2>1, <2>2, ElementFacts DEF IInv, TypeOK
<1>5. Front(open) = SubSeq(open, 1, n)
  BY DEF Front
<1>6. <<top[1], c>> \in S /\ <<c, 0>> \in S
  BY <1>4
<1> DEFINE t == top[1]
<1>7. t = open[n + 1][1]
  BY <1>3
<1> HIDE DEF S, n, t
<1>8. Front(open) \in Seq(S) /\ Len(Front(open)) = n /\ \A j \in 1..n : Front(open)[j] = open[j]
  BY <1>3, <1>5
<1>9. /\ open' \in Seq(S) /\ Len(open') = n + 2
      /\ \A j \in 1..n : open'[j] = open[j]
      /\ open'[n + 1] = <<t, c>> /\ open'[n + 2] = <<c, 0>>
  <2>1. <<t, c>> \in S
    BY <1>6 DEF t
  <2>2. open' = Append(Append(Front(open), <<t, c>>), <<c, 0>>)
    BY <1>1 DEF t
  <2> QED BY <1>3, <1>6, <1>8, <2>1, <2>2
<1>10. \A j \in 1..(n + 1) : open'[j][1] = open[j][1]
  BY <1>3, <1>7, <1>9
<1>11. Calls'
  <2>1. open[1][1] = 1 /\ filled < tpl.rows /\ \A j \in 2..Len(open) : open[j][1] # 1
    BY <1>2 DEF IInv, Calls
  <2>2. open'[1][1] = 1
    BY <1>3, <1>10, <2>1
  <2>3. \A j \in 2..Len(open') : open'[j][1] # 1
    <3> SUFFICES ASSUME NEW j \in 2..(n + 2) PROVE open'[j][1] # 1
      BY <1>9
    <3>1. CASE j = n + 2
      BY <1>4, <1>9, <3>1
    <3>2. CASE j # n + 2
      <4>1. j \in 2..Len(open) /\ j \in 1..(n + 1)
        BY <1>3, <3>2
      <4> QED BY <1>10, <2>1, <4>1
    <3> QED BY <3>1, <3>2
  <2>4. open' \in Seq(Elements' \X (Elements' \union {0}))
    BY <1>2, <1>9, SameTemplate DEF S
  <2> QED BY <1>2, <2>1, <2>2, <2>3, <2>4 DEF Calls
<1>12. TypeOK'
  BY <1>2, SameTemplate DEF IInv, TypeOK
<1>13. SeedKept'
  <2>1. open' # <<>>
    BY <1>3, <1>9
  <2> QED BY <1>2, <2>1, SeedStays DEF IInv
<1> QED BY <1>11, <1>12, <1>13 DEF IInv

\* What an element of a row stores leaves the invariant, if it writes when its value is stored.
LEMMA StoresIInv ==
    ASSUME IInv, NEW e \in Elements, Creates(e), Kind(e) # "Table", NEW n, Stores(e, n),
           Typed(e) => Writes(e), UNCHANGED <<tpl, filled>>
    PROVE  IInv'
<1>1. /\ TypeOK /\ Calls /\ SeedKept /\ tpl \in Templates
      /\ open # <<>> /\ e = top[1] /\ e # 1 /\ phase = "rows" /\ filled \in 0..(tpl.rows - 1)
  <2>1. filled < tpl.rows /\ filled \in 0..tpl.rows /\ tpl.rows \in Nat
    BY ElementFacts DEF IInv, TypeOK, Calls, Creates
  <2> QED BY <2>1, ElementFacts DEF IInv, TypeOK, Creates
<1>2. CASE Typed(e) /\ Kind(e) = "Column"
  <2>1. CASE \E h \in ColumnsOf("Head") : Writes(h)
    <3>1. TypeOK' /\ Calls'
      <4>1. CASE Address(e) \notin DOMAIN mem
        BY <1>1, <1>2, <4>1, SameTemplate DEF Stores, TypeOK, Calls
      <4>2. CASE Address(e) \in DOMAIN mem
        <5>1. Pop /\ DOMAIN mem' = DOMAIN mem /\ phase' = phase
          BY <1>2, <4>2 DEF Stores
        <5> QED BY <1>1, <5>1, PopCalls, SameTemplate DEF TypeOK
      <4> QED BY <4>1, <4>2
    <3>2. SeedKept'
      BY <2>1, SameTemplate DEF SeedKept
    <3> QED BY <3>1, <3>2 DEF IInv
  <2>2. CASE \A h \in ColumnsOf("Head") : ~Writes(h)
    <3>1. e \in ColumnsOf("Body") /\ Writes(e)
      BY <1>1, <1>2, <2>2, ElementFacts DEF ColumnsOf
    <3>2. Address(e) \in DOMAIN mem
      BY <1>1, <3>1, AddressInTable DEF TypeOK
    <3>3. Pop /\ mem' = [mem EXCEPT ![Address(e)] = Cut(e, n)] /\ phase' = phase
      BY <1>2, <3>2 DEF Stores
    <3>4. TypeOK' /\ Calls' /\ open' # <<>>
      BY <1>1, <3>3, PopCalls, SameTemplate DEF TypeOK
    <3> PICK address : address = Address(e)
      OBVIOUS
    <3>5. Made(address)'
      <4>1. filled \in 0..filled /\ At(e) \in 0..(RowSize - 1)
        BY <1>1, <3>1, AtInRow
      <4> QED BY <3>1, <3>4, <4>1, SameTemplate DEF Made, Address
    <3>6. \A a : Made(a) => Made(a)'
      BY <3>4, SameTemplate DEF Made
    <3>7. SeedKept'
      <4>1. \A a \in DOMAIN mem : mem[a] # Seed => Made(a)
        BY <1>1, <2>2 DEF SeedKept
      <4>2. DOMAIN mem' = DOMAIN mem /\ \A a \in DOMAIN mem : a # address => mem'[a] = mem[a]
        BY <3>3
      <4>3. \A a \in (DOMAIN mem)' : mem'[a] # Seed => Made(a)'
        BY <3>5, <3>6, <4>1, <4>2
      <4>4. Seed' = Seed /\ phase' # "undefined"
        BY <1>1, <3>3 DEF Seed
      <4> QED BY <4>3, <4>4 DEF SeedKept
    <3> QED BY <3>4, <3>7 DEF IInv
  <2> QED BY <2>1, <2>2
<1>3. CASE ~(Typed(e) /\ Kind(e) = "Column")
  <2>1. Pop /\ mem' = mem /\ phase' = phase
    BY <1>3 DEF Stores
  <2>2. Calls' /\ open' # <<>>
    BY <1>1, <2>1, PopCalls
  <2> QED BY <1>1, <2>1, <2>2, SeedStays, SameTemplate DEF IInv, TypeOK
<1> QED BY <1>2, <1>3

\* Nothing is stored, and the call returns.
LEMMA ReturnIInv ==
    ASSUME IInv, NEW e \in Elements, Creates(e), Kind(e) # "Table", Pop, UNCHANGED <<tpl, filled, phase, mem>>
    PROVE  IInv'
<1>1. open # <<>> /\ top[1] # 1 /\ TypeOK /\ Calls /\ SeedKept
  BY ElementFacts DEF Creates, IInv, TypeOK
<1>2. Calls' /\ open' # <<>>
  BY <1>1, PopCalls
<1> QED BY <1>1, <1>2, SeedStays, SameTemplate DEF IInv, TypeOK

\* The rows end, and not by what is undefined: or an element has a percentage.
LEMMA EndsIInv ==
    ASSUME IInv, UNCHANGED <<tpl, filled, open, mem>>,
           \/ phase' = "failed"
           \/ phase' = "undefined" /\ \E e \in Elements : Element(e).percent
    PROVE  IInv'
<1>1. TypeOK' /\ Calls'
  BY SameTemplate DEF IInv, TypeOK, Calls
<1>2. \A a : Made(a) => Made(a)'
  BY SameTemplate DEF Made
<1>3. SeedKept'
  BY <1>2, SameTemplate DEF IInv, SeedKept, Seed
<1> QED BY <1>1, <1>3 DEF IInv

LEMMA PercentIInv == ASSUME IInv, ProducedRowDataPercent PROVE IInv'
<1>1. \E e \in Elements : Element(e).percent
  BY DEF ProducedRowDataPercent, HasPercentChild, Children
<1> QED BY <1>1, EndsIInv DEF ProducedRowDataPercent

LEMMA CalculateNumberIInv == ASSUME IInv, CalculateNumber PROVE IInv'
<1>1. PICK e \in Elements :
        /\ Calculates(e, "Number")
        /\ \/ \E n \in Numbers : Stores(e, n)
           \/ phase' = "failed" /\ UNCHANGED <<open, mem, inner>>
        /\ UNCHANGED <<tpl, filled>>
  BY DEF CalculateNumber
<1>2. Creates(e) /\ Kind(e) # "Table" /\ (Typed(e) => Writes(e))
  BY <1>1 DEF Calculates, ColumnKinds, Writes
<1>3. CASE phase' = "failed" /\ UNCHANGED <<open, mem, inner>>
  BY <1>1, <1>3, EndsIInv
<1>4. CASE \E n \in Numbers : Stores(e, n)
  BY <1>1, <1>2, <1>4, StoresIInv
<1> QED BY <1>1, <1>3, <1>4

LEMMA CalculateMergeIInv == ASSUME IInv, CalculateMerge PROVE IInv'
<1>1. PICK e \in Elements :
        /\ Calculates(e, "Merge")
        /\ IF Element(e).type = "uint64"
           THEN \E n \in Merged(e) : Stores(e, n)
           ELSE Pop /\ UNCHANGED <<phase, mem, inner>>
        /\ UNCHANGED <<tpl, filled>>
  BY DEF CalculateMerge
<1>2. Creates(e) /\ Kind(e) # "Table" /\ Element(e).func = "Merge"
  BY <1>1 DEF Calculates, ColumnKinds
<1>3. CASE Element(e).type = "uint64"
  <2>1. Writes(e)
    BY <1>2, <1>3 DEF Writes
  <2>2. PICK n : Stores(e, n)
    BY <1>1, <1>3
  <2> QED BY <1>1, <1>2, <2>1, <2>2, StoresIInv
<1>4. CASE Element(e).type # "uint64"
  BY <1>1, <1>2, <1>4, ReturnIInv
<1> QED BY <1>3, <1>4

LEMMA CreateNothingIInv == ASSUME IInv, CreateNothing PROVE IInv'
  BY ReturnIInv DEF CreateNothing

\* The table creates its data when it is the only call: the row that was made is one more.
LEMMA CreateRowIInv == ASSUME IInv, CreateRow PROVE IInv'
<1>1. PICK e \in Elements : Creates(e) /\ Kind(e) = "Table"
  BY DEF CreateRow
<1>2. /\ TypeOK /\ Calls /\ SeedKept /\ open # <<>> /\ top[1] = 1
      /\ Pop /\ filled' = filled + 1 /\ UNCHANGED <<tpl, phase, mem>>
  BY <1>1, ElementFacts DEF Creates, CreateRow, IInv, TypeOK
<1>3. Len(open) = 1
  BY <1>2, TopCall
<1>4. open' = <<>>
  BY <1>2, <1>3 DEF Pop, Front
<1>5. filled' \in 0..tpl.rows
  <2>1. filled < tpl.rows /\ filled \in 0..tpl.rows /\ tpl.rows \in Nat
    BY <1>2, ElementFacts DEF TypeOK, Calls
  <2> QED BY <1>2, <2>1
<1>6. Calls'
  BY <1>4 DEF Calls
<1>7. TypeOK'
  BY <1>2, <1>5, SameTemplate DEF TypeOK
<1> QED BY <1>2, <1>6, <1>7, SeedStays DEF IInv

LEMMA NextIInv == ASSUME IInv, [Next]_vars PROVE IInv'
<1>1. CASE UNCHANGED vars
  <2>1. UNCHANGED <<tpl, phase, open, filled, mem>>
    BY <1>1 DEF vars
  <2> QED BY <2>1, SeedStays, SameTemplate DEF IInv, TypeOK, Calls
<1> QED BY <1>1, BeginRowIInv, EndRowsIInv, DescendIInv, PercentIInv, CalculateNumberIInv,
           CalculateMergeIInv, CreateNothingIInv, CreateRowIInv DEF Next

LEMMA Invariant == Spec => []IInv
<1>1. Init => IInv
  BY InitIInv
<1>2. IInv /\ [Next]_vars => IInv'
  BY NextIInv
<1> QED BY <1>1, <1>2, PTL DEF Spec

(* Whatever the templates are and the functions calculate, a word of a     *)
(* table is other than its seed only in a row that was made or is being    *)
(* made, at the place of a column of the body that writes, and only a      *)
(* percentage leads to what is undefined: unless a column of the head has  *)
(* a function.                                                             *)
THEOREM RowsKeepSeed == Spec => []SeedKept
<1>1. IInv => SeedKept
  BY DEF IInv
<1> QED BY <1>1, Invariant, PTL

-----------------------------------------------------------------------------
(* The columns that merge.                                                 *)

LEMMA MergingFacts ==
    ASSUME tpl \in Templates, NEW e \in Merging
    PROVE  /\ e \in ColumnsOf("Body") /\ e \in Elements /\ e # 1 /\ e \in Nat
           /\ Kind(e) = "Column" /\ Element(e).func = "Merge" /\ Element(e).type = "uint64"
           /\ Element(e).parent \in Elements /\ Element(e).parent \in Nat \ {0, 1}
           /\ Kind(Element(e).parent) = "Body" /\ Element(Element(e).parent).parent = 1
<1> DEFINE b == Element(e).parent
<1>1. /\ e \in ColumnsOf("Body") /\ e \in Elements /\ Kind(e) = "Column"
      /\ Element(e).func = "Merge" /\ Element(e).type = "uint64" /\ Kind(b) = "Body"
  BY DEF Merging, ColumnsOf
<1>2. e \in Nat /\ e # 1 /\ b \in 0..(e - 1) /\ b # 0
  BY <1>1, ElementFacts
<1>3. b \in Elements /\ b \in Nat
  BY <1>1, <1>2, ElementFacts
<1>4. b # 1 /\ Element(b).parent = 1
  BY <1>1, <1>3, ElementFacts
<1> QED BY <1>1, <1>2, <1>3, <1>4

LEMMA SameMerging ==
    ASSUME tpl' = tpl
    PROVE  Merging' = Merging /\ \A e : SubColumns(e)' = SubColumns(e) /\ Children(e)' = Children(e)
  BY SameTemplate DEF Merging, SubColumns, Children, Kind, Element, Elements, ColumnsOf

\* What is merged is that of the subcolumns, which are not changed.
LEMMA SameMerged ==
    ASSUME tpl' = tpl, NEW e, \A s \in SubColumns(e) : inner'[s] = inner[s]
    PROVE  Merged(e)' = Merged(e)
<1>1. \A s : Left(s)' = Left(s)
  BY DEF Left, BitsUpTo, SubColumns, Children, Elements, Element, Kind
<1>2. SubColumns(e)' = SubColumns(e)
  BY SameMerging
<1>3. \A s \in SubColumns(e) : Shifted(inner'[s], Left(s)') = Shifted(inner[s], Left(s))
  BY <1>1
<1>4. UNION {Shifted(inner'[s], Left(s)') : s \in SubColumns(e)} = UNION {Shifted(inner[s], Left(s)) : s \in SubColumns(e)}
  BY <1>3
<1> QED BY <1>1, <1>2, <1>4 DEF Merged, Numbers

\* Two columns of the body have two places.
LEMMA AtOrdered ==
    ASSUME tpl \in Templates, NEW c \in ColumnsOf("Body"), NEW d \in ColumnsOf("Body"), c < d
    PROVE  At(c) < At(d)
<1> DEFINE Before(x) == {y \in ColumnsOf("Body") : y < x}
<1>1. At(c) = Cardinality(Before(c)) /\ At(d) = Cardinality(Before(d))
  BY DEF At, ColumnsOf
<1>2. Before(c) \subseteq Before(d) /\ c \in Before(d) /\ c \notin Before(c) /\ Before(d) \subseteq ColumnsOf("Body")
  BY ElementFacts DEF ColumnsOf
<1> HIDE DEF Before
<1>3. IsFiniteSet(Before(d)) /\ IsFiniteSet(Before(c))
  BY <1>2, ColumnsFinite, FS_Subset
<1>4. Cardinality(Before(c)) \in Nat /\ Cardinality(Before(d)) \in Nat
  BY <1>3, FS_CardinalityType
<1>5. Cardinality(Before(c)) <= Cardinality(Before(d)) /\ Cardinality(Before(c)) # Cardinality(Before(d))
  BY <1>2, <1>3, FS_Subset
<1> QED BY <1>1, <1>4, <1>5

LEMMA OtherAddress ==
    ASSUME TypeOK, NEW c \in ColumnsOf("Body"), NEW d \in ColumnsOf("Body"), c # d
    PROVE  Address(c) # Address(d)
<1>1. c \in Nat /\ d \in Nat
  BY ElementFacts DEF ColumnsOf, TypeOK
<1>2. At(c) \in Nat /\ At(d) \in Nat /\ RowSize \in Nat /\ filled \in Nat
  BY AtInRow, ElementFacts DEF TypeOK
<1>3. At(c) # At(d)
  <2>1. CASE c < d
    BY <1>2, <2>1, AtOrdered DEF TypeOK
  <2>2. CASE d < c
    BY <1>2, <2>2, AtOrdered DEF TypeOK
  <2> QED BY <1>1, <2>1, <2>2
<1>4. filled * RowSize \in Nat
  BY <1>2
<1> QED BY <1>2, <1>3, <1>4 DEF Address

-----------------------------------------------------------------------------
(* The calls for them.                                                     *)

\* When the call for another element returns, theirs goes on or is still to come.
LEMMA PopPending ==
    ASSUME IInv, tpl' = tpl, NEW e \in Merging, NEW x, Creates(x), x # e, x # 1, Pop,
           InStack(e) \/ Pending(e)
    PROVE  InStack(e)' \/ Pending(e)'
<1> DEFINE n == Len(open) - 1
<1>1. /\ open # <<>> /\ n \in Nat /\ n + 1 = Len(open) /\ top = open[n + 1] /\ top[1] = x /\ Rest = {}
      /\ x \in Elements /\ top[2] \in Elements \union {0} /\ DOMAIN open = 1..(n + 1)
  <2>1. open # <<>> /\ top[1] = x /\ Rest = {}
    BY DEF Creates
  <2>2. Len(open) \in Nat \ {0} /\ top = open[Len(open)] /\ top[1] \in Elements /\ top[2] \in Elements \union {0}
    BY <2>1, TopCall DEF IInv
  <2>3. DOMAIN open = 1..Len(open)
    BY DEF IInv, Calls
  <2> QED BY <2>1, <2>2, <2>3
<1>2. DOMAIN open' = 1..n /\ \A j \in 1..n : open'[j] = open[j]
  <2>1. open' = SubSeq(open, 1, n)
    BY DEF Pop, Front
  <2>2. open \in Seq(Elements \X (Elements \union {0}))
    BY DEF IInv, Calls
  <2> HIDE DEF n
  <2> QED BY <1>1, <2>1, <2>2
<1> HIDE DEF n
<1>3. Element(e)' = Element(e)
  BY SameTemplate
<1>4. CASE InStack(e)
  <2>1. PICK j \in 1..(n + 1) : open[j][1] = e
    BY <1>1, <1>4 DEF InStack
  <2>2. j \in 1..n
    BY <1>1, <2>1
  <2> QED BY <1>2, <2>1, <2>2 DEF InStack
<1>5. CASE Pending(e)
  <2>1. PICK j \in 1..(n + 1) :
          \/ open[j][1] = Element(e).parent /\ e > open[j][2]
          \/ open[j][1] = 1 /\ Element(e).parent > open[j][2]
    BY <1>1, <1>5 DEF Pending
  <2>2. j # n + 1
    <3> SUFFICES ASSUME j = n + 1 PROVE FALSE
      OBVIOUS
    <3>1. x = Element(e).parent /\ e > top[2]
      BY <1>1, <2>1
    <3>2. e \in Rest
      BY <1>1, <3>1, MergingFacts DEF Rest, Children, IInv, TypeOK
    <3> QED BY <1>1, <3>2
  <2>3. j \in 1..n
    BY <1>1, <2>1, <2>2
  <2> QED BY <1>2, <1>3, <2>1, <2>3 DEF Pending
<1> QED BY <1>4, <1>5

\* The columns of the head are made first.
LEMMA HeadIsAhead ==
    ASSUME IInv, Chain, open # <<>>, top[1] \in ColumnsOf("Head"), NEW e \in Merging
    PROVE  Pending(e)
<1> DEFINE n == Len(open)
           h == Element(top[1]).parent
<1>1. /\ n \in Nat \ {0} /\ top = open[n] /\ top[1] # 1 /\ Kind(h) = "Head" /\ h \in Elements
      /\ Element(h).parent = 1 /\ h \in Nat /\ tpl \in Templates /\ DOMAIN open = 1..n
  <2>1. tpl \in Templates /\ DOMAIN open = 1..n
    BY DEF IInv, TypeOK, Calls
  <2>2. n \in Nat \ {0} /\ top = open[n]
    BY TopCall DEF IInv
  <2>3. top[1] \in Elements /\ Kind(top[1]) = "Column" /\ Kind(h) = "Head"
    BY DEF ColumnsOf
  <2>4. top[1] # 1 /\ h # 0 /\ h \in 0..(top[1] - 1)
    BY <2>1, <2>3, ElementFacts
  <2>5. h \in Elements /\ h \in Nat
    BY <2>1, <2>3, <2>4, ElementFacts
  <2> QED BY <2>1, <2>2, <2>3, <2>4, <2>5, ElementFacts
<1> HIDE DEF h
<1>2. n - 1 \in 1..(n - 1)
  <2>1. n # 1
    BY <1>1, TopCall DEF IInv
  <2> HIDE DEF n
  <2> QED BY <1>1, <2>1
<1>3. open[n][1] = open[n - 1][2] /\ open[n - 1][1] = h
  <2>1. n - 1 + 1 = n
    BY <1>1
  <2>2. open[n - 1 + 1][1] = open[n - 1][2] /\ Element(open[n - 1][2]).parent = open[n - 1][1]
    BY <1>2 DEF Chain
  <2> HIDE DEF n
  <2> QED BY <1>1, <2>1, <2>2 DEF h
<1>4. h # 1
  BY <1>1, ElementFacts
<1>5. n - 2 \in 1..(n - 1)
  <2>1. open[1][1] = 1
    BY DEF IInv, Calls
  <2> HIDE DEF n
  <2> QED BY <1>1, <1>2, <1>3, <1>4, <2>1
<1>6. open[n - 2][2] = h /\ open[n - 2][1] = 1
  <2>1. n - 2 + 1 = n - 1
    BY <1>1
  <2>2. open[n - 2 + 1][1] = open[n - 2][2] /\ Element(open[n - 2][2]).parent = open[n - 2][1]
    BY <1>5 DEF Chain
  <2> HIDE DEF n
  <2> QED BY <1>1, <1>3, <2>1, <2>2
<1>7. Element(e).parent > h
  BY <1>1, MergingFacts, ElementFacts
<1>8. n - 2 \in DOMAIN open
  <2> HIDE DEF n
  <2> QED BY <1>1, <1>5
<1> QED BY <1>6, <1>7, <1>8 DEF Pending

-----------------------------------------------------------------------------
(* The steps of the columns that merge.                                    *)

LEMMA InitMInv == ASSUME Init PROVE MInv
  BY DEF Init, MInv, Chain, RowsMerged

\* A call that ends leaves the others as they were.
LEMMA PopChain ==
    ASSUME IInv, Chain, tpl' = tpl, open # <<>>, Pop
    PROVE  Chain'
<1> DEFINE n == Len(open) - 1
<1>1. open \in Seq(Elements \X (Elements \union {0})) /\ n \in Nat
  BY TopCall DEF IInv, Calls
<1>2. open' = SubSeq(open, 1, n)
  BY DEF Pop, Front
<1>3. n + 1 = Len(open)
  BY <1>1
<1> HIDE DEF n
<1>4. Len(open') = n /\ \A j \in 1..n : open'[j] = open[j]
  BY <1>1, <1>2, <1>3
<1> SUFFICES ASSUME NEW j \in 1..(n - 1)
             PROVE  open'[j + 1][1] = open'[j][2] /\ Element(open'[j][2]) = Element(open[j][2])
                    /\ Element(open'[j][2]).parent = open'[j][1]
  BY <1>4, SameTemplate DEF Chain
<1>5. j \in 1..(Len(open) - 1) /\ j \in 1..n /\ j + 1 \in 1..n
  BY <1>1, <1>3
<1> QED BY <1>4, <1>5 DEF Chain

\* Neither the words of the table nor what the subcolumns have change.
LEMMA MergedStays ==
    ASSUME tpl' = tpl, mem' = mem, inner' = inner, NEW e, NEW f
    PROVE  MergedIn(f, e) => MergedIn(f, e)'
<1>1. Merged(e)' = Merged(e)
  BY SameMerged
<1> QED BY <1>1, SameTemplate DEF MergedIn

LEMMA QuietMInv ==
    ASSUME IInv, MInv, UNCHANGED <<tpl, open, filled, mem, inner>>
    PROVE  MInv'
<1>1. DOMAIN inner' = Elements' /\ Chain'
  BY SameTemplate DEF MInv, Chain
<1>2. \A e \in Merging : (InStack(e) => InStack(e)') /\ (Pending(e) => Pending(e)')
  BY SameTemplate DEF InStack, Pending
<1>3. \A e : (MergedIn(filled, e) => MergedIn(filled, e)') /\ (MergedIn(filled - 1, e) => MergedIn(filled - 1, e)')
  <2> TAKE e
  <2> PICK f, g : f = filled /\ g = filled - 1
    OBVIOUS
  <2>1. (MergedIn(f, e) => MergedIn(f, e)') /\ (MergedIn(g, e) => MergedIn(g, e)')
    BY MergedStays
  <2> QED BY <2>1 DEF MergedIn
<1>4. RowsMerged'
  BY <1>2, <1>3, SameMerging DEF MInv, RowsMerged
<1> QED BY <1>1, <1>4 DEF MInv

LEMMA BeginRowMInv == ASSUME IInv, MInv, BeginRow PROVE MInv'
<1>1. UNCHANGED <<tpl, phase, filled, mem, inner>> /\ open' = << <<1, 0>> >>
  BY DEF BeginRow
<1>2. DOMAIN inner' = Elements'
  BY <1>1, SameTemplate DEF MInv
<1>3. Chain'
  BY <1>1 DEF Chain
<1>4. ASSUME NEW e \in Merging PROVE Pending(e)'
  <2>1. Element(e).parent > 0
    BY MergingFacts DEF IInv, TypeOK
  <2>2. DOMAIN open' = 1..1 /\ open'[1][1] = 1 /\ open'[1][2] = 0
    BY <1>1
  <2>3. Element(e)' = Element(e)
    BY <1>1, SameTemplate
  <2> QED BY <2>1, <2>2, <2>3 DEF Pending
<1>5. RowsMerged'
  BY <1>1, <1>4, SameMerging DEF RowsMerged
<1> QED BY <1>2, <1>3, <1>5 DEF MInv

LEMMA DescendMInv == ASSUME IInv, MInv, Descend PROVE MInv'
<1>1. PICK c \in Rest :
        /\ \A later \in Rest : c <= later
        /\ open' = Append(Append(Front(open), <<top[1], c>>), <<c, 0>>)
  BY DEF Descend
<1>2. UNCHANGED <<tpl, phase, filled, mem, inner>> /\ open # <<>>
  BY DEF Descend
<1> DEFINE S == Elements \X (Elements \union {0})
           n == Len(open) - 1
           t == top[1]
<1>3. open \in Seq(S) /\ n \in Nat /\ n + 1 = Len(open) /\ top = open[n + 1] /\ top \in S
  <2>1. open \in Seq(S)
    BY DEF IInv, Calls
  <2>2. Len(open) \in Nat \ {0} /\ top = open[Len(open)]
    BY <1>2, TopCall DEF IInv
  <2> QED BY <2>1, <2>2
<1>4. c \in Elements /\ Element(c).parent = t /\ t \in Elements
  BY <1>3 DEF Rest, Children
<1>5. Front(open) = SubSeq(open, 1, n)
  BY DEF Front
<1>6. <<t, c>> \in S /\ <<c, 0>> \in S
  BY <1>4
<1>7. t = open[n + 1][1] /\ open' = Append(Append(Front(open), <<t, c>>), <<c, 0>>)
  BY <1>1, <1>3
<1> HIDE DEF S, n, t
<1>8. Front(open) \in Seq(S) /\ Len(Front(open)) = n /\ \A j \in 1..n : Front(open)[j] = open[j]
  BY <1>3, <1>5
<1>9. /\ Len(open') = n + 2 /\ DOMAIN open' = 1..(n + 2)
      /\ \A j \in 1..n : open'[j] = open[j]
      /\ open'[n + 1] = <<t, c>> /\ open'[n + 2] = <<c, 0>>
  BY <1>3, <1>6, <1>7, <1>8
<1>10. DOMAIN inner' = Elements'
  BY <1>2, SameTemplate DEF MInv
<1>11. Chain'
  <2> SUFFICES ASSUME NEW j \in 1..(n + 1)
               PROVE  open'[j + 1][1] = open'[j][2] /\ Element(open'[j][2]).parent = open'[j][1]
    BY <1>2, <1>3, <1>9, SameTemplate DEF Chain
  <2>1. CASE j = n + 1
    <3>1. j + 1 = n + 2
      BY <1>3, <2>1
    <3> QED BY <1>4, <1>9, <2>1, <3>1
  <2>2. CASE j # n + 1
    <3>1. j \in 1..(Len(open) - 1) /\ j \in 1..n
      BY <1>3, <2>2
    <3>2. open[j + 1][1] = open[j][2] /\ Element(open[j][2]).parent = open[j][1]
      BY <3>1 DEF MInv, Chain
    <3>3. open'[j + 1][1] = open[j + 1][1]
      <4>1. CASE j = n
        BY <1>7, <1>9, <4>1
      <4>2. CASE j # n
        <5>1. j + 1 \in 1..n
          BY <1>3, <3>1, <4>2
        <5> QED BY <1>9, <5>1
      <4> QED BY <4>1, <4>2
    <3> QED BY <1>9, <3>1, <3>2, <3>3
  <2> QED BY <2>1, <2>2
<1>12. ASSUME NEW e \in Merging, InStack(e) PROVE InStack(e)'
  <2>1. PICK j \in 1..(n + 1) : open[j][1] = e
    BY <1>3, <1>12 DEF InStack
  <2>2. open'[j][1] = e /\ j \in 1..(n + 2)
    BY <1>3, <1>7, <1>9, <2>1
  <2> QED BY <1>9, <2>2 DEF InStack
<1>13. ASSUME NEW e \in Merging, Pending(e) PROVE InStack(e)' \/ Pending(e)'
  <2> DEFINE b == Element(e).parent
  <2>1. PICK j \in 1..(n + 1) :
          \/ open[j][1] = b /\ e > open[j][2]
          \/ open[j][1] = 1 /\ b > open[j][2]
    BY <1>3, <1>13 DEF Pending
  <2>2. Element(e)' = Element(e) /\ e \in Nat /\ b \in Nat \ {0} /\ e \in Elements /\ b \in Elements
        /\ Element(b).parent = 1 /\ c \in Nat
    BY <1>2, <1>4, SameTemplate, MergingFacts, ElementFacts DEF IInv, TypeOK
  <2> DEFINE Awaits(k) == \/ open'[k][1] = b /\ e > open'[k][2]
                          \/ open'[k][1] = 1 /\ b > open'[k][2]
  <2>3. \A k \in 1..(n + 2) : Awaits(k) => Pending(e)'
    BY <1>9, <2>2 DEF Pending
  <2>4. n + 1 \in 1..(n + 2) /\ n + 2 \in 1..(n + 2) /\ 1..n \subseteq 1..(n + 2)
    BY <1>3
  <2>5. CASE j # n + 1
    <3>1. j \in 1..n
      BY <1>3, <2>5
    <3>2. Awaits(j)
      BY <1>9, <2>1, <3>1
    <3> QED BY <2>3, <2>4, <3>1, <3>2
  <2>6. CASE j = n + 1 /\ t = b /\ e > open[j][2]
    <3>1. e \in Rest
      BY <1>3, <2>2, <2>6 DEF Rest, Children, t
    <3>2. c <= e
      BY <1>1, <3>1
    <3>3. CASE c = e
      BY <1>9, <2>4, <3>3 DEF InStack
    <3>4. CASE c # e
      <4>1. Awaits(n + 1)
        BY <1>9, <2>2, <2>6, <3>2, <3>4
      <4> QED BY <2>3, <2>4, <4>1
    <3> QED BY <3>3, <3>4
  <2>7. CASE j = n + 1 /\ t = 1 /\ b > open[j][2]
    <3>1. b \in Rest
      BY <1>3, <2>2, <2>7 DEF Rest, Children, t
    <3>2. c <= b
      BY <1>1, <3>1
    <3>3. CASE c = b
      <4>1. e > 0
        BY <2>2, MergingFacts, ElementFacts DEF IInv, TypeOK
      <4>2. Awaits(n + 2)
        BY <1>9, <3>3, <4>1
      <4> QED BY <2>3, <2>4, <4>2
    <3>4. CASE c # b
      <4>1. Awaits(n + 1)
        BY <1>9, <2>2, <2>7, <3>2, <3>4
      <4> QED BY <2>3, <2>4, <4>1
    <3> QED BY <3>3, <3>4
  <2> QED BY <1>7, <2>1, <2>5, <2>6, <2>7
<1>14. RowsMerged'
  <2>1. ASSUME NEW e \in Merging, MergedIn(filled, e) PROVE MergedIn(filled, e)'
    <3> PICK f : f = filled
      OBVIOUS
    <3>1. MergedIn(f, e)'
      BY <1>2, <2>1, MergedStays
    <3> QED BY <1>2, <3>1 DEF MergedIn
  <2>2. open' # <<>>
    BY <1>3, <1>9
  <2> QED BY <1>2, <1>12, <1>13, <2>1, <2>2, SameMerging DEF MInv, RowsMerged
<1> QED BY <1>10, <1>11, <1>14 DEF MInv

LEMMA CreateRowMInv == ASSUME IInv, MInv, CreateRow PROVE MInv'
<1>1. PICK x \in Elements : Creates(x) /\ Kind(x) = "Table"
  BY DEF CreateRow
<1>2. /\ open # <<>> /\ top[1] = 1 /\ Rest = {} /\ tpl \in Templates
      /\ Pop /\ filled' = filled + 1 /\ UNCHANGED <<tpl, phase, mem>>
  BY <1>1, ElementFacts DEF Creates, CreateRow, IInv, TypeOK
<1>3. inner' = inner
  BY DEF CreateRow
<1>4. Len(open) = 1 /\ top = open[1] /\ DOMAIN open = {1} /\ top[2] \in Elements \union {0}
  <2>1. Len(open) = 1 /\ top = open[Len(open)] /\ top[2] \in Elements \union {0}
    BY <1>2, TopCall DEF IInv
  <2>2. DOMAIN open = 1..Len(open)
    BY DEF IInv, Calls
  <2> QED BY <2>1, <2>2
<1>5. open' = <<>>
  BY <1>2, <1>4 DEF Pop, Front
<1>6. ASSUME NEW e \in Merging PROVE MergedIn(filled, e)
  <2>1. ~InStack(e)
    BY <1>2, <1>4, MergingFacts DEF InStack
  <2>2. ~Pending(e)
    <3> DEFINE b == Element(e).parent
    <3>1. b \in Elements /\ b # 1 /\ Element(b).parent = 1
      BY <1>2, MergingFacts
    <3>2. ~(b > top[2])
      BY <1>2, <3>1 DEF Rest, Children
    <3> QED BY <1>2, <1>4, <3>1, <3>2 DEF Pending
  <2> QED BY <1>2, <2>1, <2>2 DEF MInv, RowsMerged
<1>7. ASSUME NEW e \in Merging PROVE MergedIn(filled - 1, e)'
  <2> PICK f : f = filled
    OBVIOUS
  <2>1. MergedIn(f, e)'
    BY <1>2, <1>3, <1>6, MergedStays
  <2>2. filled' - 1 = f
    BY <1>2, ElementFacts DEF IInv, TypeOK
  <2> QED BY <2>1, <2>2 DEF MergedIn
<1>8. RowsMerged'
  BY <1>2, <1>5, <1>7, SameMerging DEF RowsMerged
<1>9. Chain' /\ DOMAIN inner' = Elements'
  BY <1>2, <1>3, PopChain, SameTemplate DEF MInv
<1> QED BY <1>8, <1>9 DEF MInv

\* The call for the parent goes on when that for its child returns.
LEMMA ParentGoesOn ==
    ASSUME IInv, Chain, open # <<>>, top[1] # 1, Pop, NEW e, e = Element(top[1]).parent
    PROVE  InStack(e)'
<1> DEFINE n == Len(open) - 1
<1>1. /\ open \in Seq(Elements \X (Elements \union {0})) /\ n + 1 = Len(open) /\ n \in Nat \ {0}
      /\ top = open[n + 1]
  <2>1. Len(open) \in Nat \ {0} /\ Len(open) # 1 /\ top = open[Len(open)]
    BY TopCall DEF IInv
  <2> QED BY <2>1 DEF IInv, Calls
<1>2. open' = SubSeq(open, 1, n)
  BY DEF Pop, Front
<1> HIDE DEF n
<1>3. DOMAIN open' = 1..n /\ \A j \in 1..n : open'[j] = open[j]
  BY <1>1, <1>2
<1>4. n \in 1..(Len(open) - 1) /\ n \in 1..n
  BY <1>1
<1>5. open[n + 1][1] = open[n][2] /\ Element(open[n][2]).parent = open[n][1]
  BY <1>4 DEF Chain
<1>6. open'[n][1] = e
  BY <1>1, <1>3, <1>4, <1>5
<1> QED BY <1>3, <1>4, <1>6 DEF InStack

\* The call for x returns, and what it changed is nothing that was merged.
LEMMA ReturnsMInv ==
    ASSUME IInv, MInv, NEW x \in Elements, Creates(x), Kind(x) # "Table",
           Pop, UNCHANGED <<tpl, filled>>, DOMAIN inner' = DOMAIN inner,
           \A e \in Merging : \/ e # x /\ (InStack(e) \/ Pending(e))
                              \/ InStack(e)'
                              \/ e # x /\ mem'[Address(e)] = mem[Address(e)]
                                 /\ \A s \in SubColumns(e) : inner'[s] = inner[s]
                              \/ mem'[Address(e)] \in Merged(e) /\ inner' = inner
    PROVE  MInv'
<1>1. TypeOK /\ Calls /\ Chain /\ RowsMerged /\ open # <<>> /\ top[1] = x /\ x # 1 /\ tpl \in Templates
  BY ElementFacts DEF IInv, TypeOK, MInv, Creates
<1>2. Chain' /\ open' # <<>> /\ DOMAIN inner' = Elements'
  BY <1>1, PopChain, PopCalls, SameTemplate DEF MInv
<1>3. ASSUME NEW e \in Merging PROVE InStack(e)' \/ Pending(e)' \/ MergedIn(filled, e)'
  <2>1. CASE e # x /\ (InStack(e) \/ Pending(e))
    BY <1>1, <2>1, PopPending
  <2>2. CASE InStack(e)'
    BY <2>2
  <2> PICK f : f = filled
    OBVIOUS
  <2>3. MergedIn(filled, e)' <=> mem'[f * RowSize + At(e)] \in Merged(e)'
    BY SameTemplate DEF MergedIn
  <2>4. Address(e) = f * RowSize + At(e)
    BY DEF Address
  <2>5. CASE mem'[Address(e)] \in Merged(e) /\ inner' = inner
    <3>1. Merged(e)' = Merged(e)
      BY <2>5, SameMerged
    <3> QED BY <2>3, <2>4, <2>5, <3>1
  <2>6. CASE e # x /\ ~(InStack(e) \/ Pending(e)) /\ mem'[Address(e)] = mem[Address(e)]
             /\ \A s \in SubColumns(e) : inner'[s] = inner[s]
    <3>1. MergedIn(filled, e)
      BY <1>1, <2>6 DEF RowsMerged
    <3>2. Merged(e)' = Merged(e)
      BY <2>6, SameMerged
    <3>3. mem[f * RowSize + At(e)] \in Merged(e)
      BY <3>1 DEF MergedIn
    <3> QED BY <2>3, <2>4, <2>6, <3>2, <3>3
  <2> QED BY <2>1, <2>2, <2>5, <2>6
<1>4. RowsMerged'
  BY <1>2, <1>3, SameMerging DEF RowsMerged
<1> QED BY <1>2, <1>4 DEF MInv

LEMMA StoresMInv ==
    ASSUME IInv, MInv, NEW x \in Elements, Creates(x), Kind(x) # "Table", NEW n, Stores(x, n),
           x \in Merging => n \in Merged(x), UNCHANGED <<tpl, filled>>
    PROVE  MInv'
<1>1. /\ TypeOK /\ Calls /\ Chain /\ tpl \in Templates /\ DOMAIN inner = Elements
      /\ open # <<>> /\ top[1] = x /\ x # 1 /\ filled \in 0..(tpl.rows - 1)
  <2>1. filled < tpl.rows /\ filled \in 0..tpl.rows /\ tpl.rows \in Nat
    BY ElementFacts DEF IInv, TypeOK, Calls, Creates
  <2> QED BY <2>1, ElementFacts DEF IInv, TypeOK, MInv, Creates
<1>2. CASE Typed(x) /\ Kind(x) = "Column" /\ Address(x) \notin DOMAIN mem
  <2>1. UNCHANGED <<tpl, open, filled, mem, inner>>
    BY <1>2 DEF Stores
  <2> QED BY <2>1, QuietMInv
<1>3. CASE ~(Typed(x) /\ Kind(x) = "Column" /\ Address(x) \notin DOMAIN mem)
  <2>1. /\ Pop
        /\ mem' = IF Typed(x) /\ Kind(x) = "Column" THEN [mem EXCEPT ![Address(x)] = Cut(x, n)] ELSE mem
        /\ inner' = IF Typed(x) /\ Kind(x) = "SubColumn" THEN [inner EXCEPT ![x] = Cut(x, n)] ELSE inner
    BY <1>3 DEF Stores
  <2>2. DOMAIN inner' = DOMAIN inner
    BY <2>1
  <2>3. ASSUME NEW e \in Merging, e # x
        PROVE  \/ InStack(e) \/ Pending(e) \/ InStack(e)'
               \/ mem'[Address(e)] = mem[Address(e)] /\ \A s \in SubColumns(e) : inner'[s] = inner[s]
    <3>1. CASE Typed(x) /\ Kind(x) = "Column"
      <4>1. inner' = inner /\ mem' = [mem EXCEPT ![Address(x)] = Cut(x, n)]
        BY <2>1, <3>1
      <4>2. Kind(Element(x).parent) \in {"Head", "Body"}
        BY <1>1, <3>1, ElementFacts
      <4>3. CASE Kind(Element(x).parent) = "Head"
        <5>1. top[1] \in ColumnsOf("Head")
          BY <1>1, <3>1, <4>3 DEF ColumnsOf
        <5> QED BY <1>1, <5>1, HeadIsAhead
      <4>4. CASE Kind(Element(x).parent) = "Body"
        <5>1. x \in ColumnsOf("Body") /\ e \in ColumnsOf("Body")
          BY <3>1, <4>4 DEF ColumnsOf, Merging
        <5>2. Address(e) # Address(x) /\ Address(e) \in DOMAIN mem
          BY <1>1, <2>3, <5>1, OtherAddress, AddressInTable DEF TypeOK
        <5> QED BY <4>1, <5>2
      <4> QED BY <4>2, <4>3, <4>4
    <3>2. CASE Typed(x) /\ Kind(x) = "SubColumn"
      <4>1. mem' = mem /\ inner' = [inner EXCEPT ![x] = Cut(x, n)]
        BY <2>1, <3>2
      <4>2. CASE x \in SubColumns(e)
        <5>1. e = Element(top[1]).parent
          BY <1>1, <4>2 DEF SubColumns, Children
        <5> QED BY <1>1, <2>1, <5>1, ParentGoesOn
      <4>3. CASE x \notin SubColumns(e)
        <5>1. \A s \in SubColumns(e) : s \in DOMAIN inner /\ s # x
          BY <1>1, <4>3 DEF SubColumns, Children
        <5>2. \A s \in SubColumns(e) : inner'[s] = inner[s]
          BY <4>1, <5>1
        <5> QED BY <4>1, <5>2
      <4> QED BY <4>2, <4>3
    <3>3. CASE ~Typed(x) \/ Kind(x) \notin {"Column", "SubColumn"}
      BY <2>1, <3>3
    <3> QED BY <3>1, <3>2, <3>3
  <2>4. ASSUME x \in Merging PROVE mem'[Address(x)] \in Merged(x) /\ inner' = inner
    <3>1. Typed(x) /\ Kind(x) = "Column" /\ Element(x).type = "uint64" /\ x \in ColumnsOf("Body")
      BY <1>1, <2>4, MergingFacts DEF Typed
    <3>2. Cut(x, n) = n /\ n \in Merged(x)
      BY <2>4, <3>1 DEF Cut
    <3>3. Address(x) \in DOMAIN mem
      BY <1>3, <3>1
    <3> QED BY <2>1, <3>1, <3>2, <3>3
  <2> QED BY <2>1, <2>2, <2>3, <2>4, ReturnsMInv
<1> QED BY <1>2, <1>3

LEMMA NextMInv == ASSUME IInv, MInv, [Next]_vars PROVE MInv'
<1>1. CASE UNCHANGED vars
  BY <1>1, QuietMInv DEF vars
<1>2. CASE EndRows
  BY <1>2, QuietMInv DEF EndRows
<1>3. CASE ProducedRowDataPercent
  BY <1>3, QuietMInv DEF ProducedRowDataPercent
<1>4. CASE CalculateNumber
  <2>1. PICK x \in Elements :
          /\ Calculates(x, "Number")
          /\ \/ \E n \in Numbers : Stores(x, n)
             \/ phase' = "failed" /\ UNCHANGED <<open, mem, inner>>
          /\ UNCHANGED <<tpl, filled>>
    BY <1>4 DEF CalculateNumber
  <2>2. Creates(x) /\ Kind(x) # "Table" /\ x \notin Merging
    BY <2>1 DEF Calculates, ColumnKinds, Merging
  <2>3. CASE \E n \in Numbers : Stores(x, n)
    BY <2>1, <2>2, <2>3, StoresMInv
  <2>4. CASE phase' = "failed" /\ UNCHANGED <<open, mem, inner>>
    BY <2>1, <2>4, QuietMInv
  <2> QED BY <2>1, <2>3, <2>4
<1>5. CASE CalculateMerge
  <2>1. PICK x \in Elements :
          /\ Calculates(x, "Merge")
          /\ IF Element(x).type = "uint64"
             THEN \E n \in Merged(x) : Stores(x, n)
             ELSE Pop /\ UNCHANGED <<phase, mem, inner>>
          /\ UNCHANGED <<tpl, filled>>
    BY <1>5 DEF CalculateMerge
  <2>2. Creates(x) /\ Kind(x) # "Table"
    BY <2>1 DEF Calculates, ColumnKinds
  <2>3. CASE Element(x).type = "uint64"
    <3>1. PICK n \in Merged(x) : Stores(x, n)
      BY <2>1, <2>3
    <3> QED BY <2>1, <2>2, <3>1, StoresMInv
  <2>4. CASE Element(x).type # "uint64"
    <3>1. Pop /\ mem' = mem /\ inner' = inner /\ x \notin Merging
      BY <2>1, <2>4 DEF Merging
    <3> QED BY <2>1, <2>2, <3>1, ReturnsMInv
  <2> QED BY <2>3, <2>4
<1>6. CASE CreateNothing
  <2>1. PICK x \in Elements :
          /\ Creates(x) /\ Kind(x) # "Table"
          /\ Kind(x) \in ColumnKinds => Element(x).func = "None"
          /\ Pop
          /\ UNCHANGED <<tpl, phase, filled, mem, inner>>
    BY <1>6 DEF CreateNothing
  <2>2. x \notin Merging
    BY <2>1 DEF Merging, ColumnsOf, ColumnKinds
  <2> QED BY <2>1, <2>2, ReturnsMInv
<1> QED BY <1>1, <1>2, <1>3, <1>4, <1>5, <1>6, BeginRowMInv, DescendMInv, CreateRowMInv DEF Next

-----------------------------------------------------------------------------
(* The bits of the subcolumns.                                             *)

LEMMA Least ==
    ASSUME NEW T \in SUBSET Nat, T # {}
    PROVE  \E m \in T : \A k \in T : m <= k
<1> DEFINE R == OpToRel(<, Nat)
<1>1. IsWellFoundedOn(R, Nat)
  BY NatLessThanWellFounded
<1> HIDE DEF R
<1>2. \E x \in T : \A y \in T : ~(<<y, x>> \in R)
  BY <1>1, WFMin
<1>3. \A x, y \in Nat : <<y, x>> \in R <=> y < x
  BY DEF R, OpToRel
<1>4. PICK x \in T : \A y \in T : ~(<<y, x>> \in R)
  BY <1>2
<1>5. \A y \in T : ~(y < x)
  BY <1>3, <1>4
<1> QED BY <1>4, <1>5

\* What the recursive function is: the bits of the subcolumns of e, more with each of them.
LEMMA BitsAre ==
    ASSUME NEW e
    PROVE  /\ BitsUpTo(e, 0) = 0
           /\ \A k \in Nat \ {0} :
                 BitsUpTo(e, k) = IF k \in SubColumns(e) THEN BitsUpTo(e, k - 1) + Element(k).bitLen
                                  ELSE BitsUpTo(e, k - 1)
<1> DEFINE step(x, i) == IF i \in SubColumns(e) THEN x + Element(i).bitLen ELSE x
           to(g, n) == /\ DOMAIN g = 0..n /\ g[0] = 0
                       /\ \A i \in 1..n : g[i] = step(g[i - 1], i)
<1> HIDE DEF step
<1>1. \A n \in Nat : \E g : to(g, n)
  <2> DEFINE T == {n \in Nat : ~\E g : to(g, n)}
  <2> SUFFICES ASSUME T # {} PROVE FALSE
    OBVIOUS
  <2>1. PICK m \in T : \A k \in T : m <= k
    <3>1. T \in SUBSET Nat
      OBVIOUS
    <3> HIDE DEF T
    <3> QED BY <3>1, Least
  <2>2. m # 0
    <3>1. to([i \in 0..0 |-> 0], 0)
      OBVIOUS
    <3> QED BY <2>1, <3>1
  <2>3. m - 1 \in Nat /\ m - 1 \notin T
    BY <2>1, <2>2
  <2>4. PICK g : to(g, m - 1)
    BY <2>3
  <2> DEFINE h == [i \in 0..m |-> IF i = m THEN step(g[m - 1], m) ELSE g[i]]
  <2>5. h[0] = 0 /\ h[m] = step(h[m - 1], m)
    BY <2>1, <2>2, <2>4
  <2>6. ASSUME NEW i \in 1..m PROVE h[i] = step(h[i - 1], i)
    <3>1. CASE i = m
      BY <2>5, <3>1
    <3>2. CASE i # m
      <4>1. i \in 1..(m - 1) /\ i - 1 \in 0..m /\ i - 1 # m /\ i \in 0..m
        BY <2>1, <3>2
      <4>2. h[i] = g[i] /\ h[i - 1] = g[i - 1]
        BY <3>2, <4>1
      <4> QED BY <2>4, <4>1, <4>2
    <3> QED BY <3>1, <3>2
  <2>7. to(h, m)
    BY <2>5, <2>6
  <2> QED BY <2>1, <2>7
<1>2. ASSUME NEW n \in Nat, NEW m \in Nat, NEW g, NEW h, to(g, n), to(h, m), n <= m
      PROVE  \A i \in 0..n : g[i] = h[i]
  <2> DEFINE T == {i \in 0..n : g[i] # h[i]}
  <2> SUFFICES ASSUME T # {} PROVE FALSE
    OBVIOUS
  <2>1. PICK i \in T : \A k \in T : i <= k
    <3>1. T \in SUBSET Nat
      OBVIOUS
    <3> HIDE DEF T
    <3> QED BY <3>1, Least
  <2>2. i # 0
    BY <1>2, <2>1
  <2>3. i \in 1..n /\ i \in 1..m /\ i - 1 \in 0..n /\ i - 1 \notin T
    BY <1>2, <2>1, <2>2
  <2>4. g[i - 1] = h[i - 1]
    BY <2>3
  <2>5. g[i] = step(g[i - 1], i) /\ h[i] = step(h[i - 1], i)
    BY <1>2, <2>3
  <2> QED BY <2>1, <2>4, <2>5
<1> HIDE DEF to
<1> DEFINE G(n) == CHOOSE g : to(g, n)
           H == [n \in Nat |-> G(n)[n]]
<1>3. \A n \in Nat : to(G(n), n)
  BY <1>1
<1> HIDE DEF G
<1>4. \A i \in Nat : H[i] = IF i = 0 THEN 0 ELSE step(H[i - 1], i)
  <2> SUFFICES ASSUME NEW i \in Nat PROVE H[i] = IF i = 0 THEN 0 ELSE step(H[i - 1], i)
    OBVIOUS
  <2>1. to(G(i), i)
    BY <1>3
  <2>2. CASE i = 0
    BY <2>1, <2>2 DEF to
  <2>3. CASE i # 0
    <3>1. i - 1 \in Nat /\ i - 1 <= i /\ i \in 1..i /\ i - 1 \in 0..(i - 1)
      BY <2>3
    <3>2. to(G(i - 1), i - 1)
      BY <1>3, <3>1
    <3>3. G(i - 1)[i - 1] = G(i)[i - 1]
      BY <1>2, <2>1, <3>1, <3>2
    <3>4. G(i)[i] = step(G(i)[i - 1], i)
      BY <2>1, <3>1 DEF to
    <3> QED BY <2>3, <3>1, <3>3, <3>4
  <2> QED BY <2>2, <2>3
<1> DEFINE bits == CHOOSE bits : bits = [i \in Nat |-> IF i = 0 THEN 0 ELSE step(bits[i - 1], i)]
<1>5. H = [i \in Nat |-> IF i = 0 THEN 0 ELSE step(H[i - 1], i)]
  BY <1>4
<1> HIDE DEF H
<1>6. bits = [i \in Nat |-> IF i = 0 THEN 0 ELSE step(bits[i - 1], i)]
  BY <1>5
<1>7. \A k : BitsUpTo(e, k) = bits[k]
  BY DEF BitsUpTo, step
<1> HIDE DEF bits
<1>8. bits[0] = 0 /\ \A k \in Nat \ {0} : bits[k] = step(bits[k - 1], k)
  BY <1>6
<1> QED BY <1>7, <1>8 DEF step

\* They are more with each element.
LEMMA BitsGrow ==
    ASSUME tpl \in Templates, NEW e
    PROVE  /\ \A k \in 0..Len(tpl.elements) : BitsUpTo(e, k) \in Nat
           /\ \A j, k \in 0..Len(tpl.elements) : j <= k => BitsUpTo(e, j) <= BitsUpTo(e, k)
<1> DEFINE N == Len(tpl.elements)
           bits(k) == BitsUpTo(e, k)
           more(k) == IF k \in SubColumns(e) THEN Element(k).bitLen ELSE 0
<1>1. N \in Nat /\ \A k \in 1..N : more(k) \in Nat
  BY ElementFacts, RowAssumption
<1>2. bits(0) = 0 /\ \A k \in 1..N : bits(k) = IF k \in SubColumns(e) THEN bits(k - 1) + Element(k).bitLen ELSE bits(k - 1)
  BY BitsAre
<1> HIDE DEF N, bits
<1>3. \A k \in 0..N : bits(k) \in Nat
  <2> DEFINE T == {k \in 0..N : bits(k) \notin Nat}
  <2> SUFFICES ASSUME T # {} PROVE FALSE
    OBVIOUS
  <2>1. PICK m \in T : \A k \in T : m <= k
    <3>1. T \in SUBSET Nat
      BY <1>1
    <3> HIDE DEF T
    <3> QED BY <3>1, Least
  <2>2. m # 0
    BY <1>2, <2>1
  <2>3. m \in 1..N /\ m - 1 \in 0..N /\ m - 1 \notin T
    BY <1>1, <2>1, <2>2
  <2>4. bits(m - 1) \in Nat
    BY <2>3
  <2> QED BY <1>1, <1>2, <2>1, <2>3, <2>4
<1>4. ASSUME NEW j \in 0..N PROVE \A k \in j..N : bits(j) <= bits(k)
  <2> DEFINE T == {k \in j..N : ~(bits(j) <= bits(k))}
  <2> SUFFICES ASSUME T # {} PROVE FALSE
    OBVIOUS
  <2>1. PICK m \in T : \A k \in T : m <= k
    <3>1. T \in SUBSET Nat
      BY <1>1
    <3> HIDE DEF T
    <3> QED BY <3>1, Least
  <2>2. m # j
    BY <1>1, <1>3, <2>1
  <2>3. m \in 1..N /\ m - 1 \in j..N /\ m - 1 \in 0..N /\ m - 1 \notin T
    BY <1>1, <1>4, <2>1, <2>2
  <2>4. bits(j) <= bits(m - 1)
    BY <2>3
  <2>5. bits(m - 1) <= bits(m)
    BY <1>1, <1>2, <1>3, <2>3
  <2> QED BY <1>3, <1>4, <2>1, <2>3, <2>4, <2>5
<1>5. \A j, k \in 0..N : j <= k => bits(j) <= bits(k)
  BY <1>1, <1>4
<1> QED BY <1>3, <1>5 DEF N, bits

\* What is merged of subcolumns that fit has the value of each in its bits.
LEMMA FieldIs ==
    ASSUME tpl \in Templates, NEW e, Fits(e), NEW word \in Merged(e), NEW s \in SubColumns(e)
    PROVE  {b \in 0..(Element(s).bitLen - 1) : BitsBefore(s) + b \in word} = inner[s]
<1> DEFINE N == Len(tpl.elements)
           bits(k) == BitsUpTo(e, k)
           len(d) == Element(d).bitLen
<1>1. N \in Nat /\ Bits \in Nat /\ Byte \in Nat /\ Bits < Byte
  BY ElementFacts, RowAssumption
<1>2. \A d \in SubColumns(e) : d \in 1..N /\ len(d) \in Nat /\ BitsBefore(d) = bits(d - 1)
  BY ElementFacts, RowAssumption DEF SubColumns, Children, BitsBefore
<1>3. /\ \A k \in 0..N : bits(k) \in Nat
      /\ \A j, k \in 0..N : j <= k => bits(j) <= bits(k)
  BY BitsGrow
<1>4. \A d \in SubColumns(e) : bits(d) = bits(d - 1) + len(d)
  BY <1>1, <1>2, BitsAre
<1>5. bits(N) <= Bits /\ \A d \in SubColumns(e) : bits(d - 1) < Bits /\ inner[d] \subseteq 0..(len(d) - 1)
  BY <1>2 DEF Fits
<1> HIDE DEF N, bits, len
<1>6. \A d \in SubColumns(e) : d - 1 \in 0..N /\ d \in 0..N /\ bits(d - 1) \in Nat /\ bits(d) \in Nat /\ bits(d) <= Bits
  <2> TAKE d \in SubColumns(e)
  <2>1. d \in 1..N /\ d - 1 \in 0..N /\ d \in 0..N /\ N \in 0..N /\ d <= N
    BY <1>1, <1>2
  <2>2. bits(N) \in Nat /\ bits(d) \in Nat /\ bits(d - 1) \in Nat /\ bits(d) <= bits(N)
    BY <1>3, <2>1
  <2> QED BY <1>1, <1>5, <2>1, <2>2
<1>7. \A d \in SubColumns(e) : Left(d) = bits(d - 1)
  <2> TAKE d \in SubColumns(e)
  <2>1. bits(d - 1) \in Nat /\ bits(d - 1) < Byte
    BY <1>1, <1>5, <1>6
  <2>2. bits(d - 1) % Byte = bits(d - 1)
    BY <1>1, <2>1
  <2> QED BY <1>2, <2>2 DEF Left, BitsBefore
<1>8. word = UNION {Shifted(inner[d], bits(d - 1)) : d \in SubColumns(e)}
  <2>1. ~\E d \in SubColumns(e) : Left(d) >= Bits
    BY <1>1, <1>5, <1>6, <1>7
  <2> QED BY <1>7, <2>1 DEF Merged
<1>9. \A x : x \in word <=> \E d \in SubColumns(e) : x \in 0..(Bits - 1) /\ \E b \in inner[d] : x = b + bits(d - 1)
  BY <1>8 DEF Shifted
<1>10. ASSUME NEW b \in inner[s] PROVE b \in 0..(len(s) - 1) /\ BitsBefore(s) + b \in word
  <2>1. b \in 0..(len(s) - 1) /\ b + bits(s - 1) \in 0..(Bits - 1)
    BY <1>1, <1>2, <1>4, <1>5, <1>6
  <2> QED BY <1>2, <1>6, <1>9, <2>1
<1>11. ASSUME NEW b \in 0..(len(s) - 1), BitsBefore(s) + b \in word PROVE b \in inner[s]
  <2>1. PICK d \in SubColumns(e) : \E a \in inner[d] : BitsBefore(s) + b = a + bits(d - 1)
    BY <1>9, <1>11
  <2>2. PICK a \in inner[d] : bits(s - 1) + b = a + bits(d - 1)
    BY <1>2, <2>1
  <2>3. a \in 0..(len(d) - 1) /\ len(d) \in Nat /\ len(s) \in Nat
    BY <1>2, <1>5
  <2>4. CASE d < s
    <3>1. bits(d) <= bits(s - 1)
      BY <1>2, <1>3, <1>6, <2>4
    <3> QED BY <1>4, <1>6, <2>2, <2>3, <3>1
  <2>5. CASE s < d
    <3>1. bits(s) <= bits(d - 1)
      BY <1>2, <1>3, <1>6, <2>5
    <3> QED BY <1>4, <1>6, <2>2, <2>3, <3>1
  <2>6. CASE d = s
    BY <1>6, <2>2, <2>3, <2>6
  <2> QED BY <1>2, <2>4, <2>5, <2>6
<1> QED BY <1>10, <1>11 DEF len

LEMMA MergedFields == ASSUME IInv, MInv PROVE FieldsOfRow
<1> SUFFICES ASSUME open = <<>>, filled > 0, NEW e \in Merging, Fits(e), NEW s \in SubColumns(e)
             PROVE  {b \in 0..(Element(s).bitLen - 1) : BitsBefore(s) + b \in mem[(filled - 1) * RowSize + At(e)]}
                        = inner[s]
  BY DEF FieldsOfRow
<1>1. mem[(filled - 1) * RowSize + At(e)] \in Merged(e)
  BY DEF MInv, RowsMerged, MergedIn
<1> QED BY <1>1, FieldIs DEF IInv, TypeOK

(* In every row that was made, the word of a column that merges its        *)
(* subcolumns has the value of each in its bits, if they fit: whatever the *)
(* template is, how the walk comes to the columns, and what the functions  *)
(* calculate.                                                              *)
THEOREM RowsHoldFields == Spec => []FieldsOfRow
<1>1. Init => MInv
  BY InitMInv
<1>2. IInv /\ MInv /\ [Next]_vars => MInv'
  BY NextMInv
<1>3. IInv /\ MInv => FieldsOfRow
  BY MergedFields
<1> QED BY <1>1, <1>2, <1>3, Invariant, PTL DEF Spec

-----------------------------------------------------------------------------
(* The shuffle.                                                            *)

CONSTANTS Count, Room, FillsPage
VARIABLES stage, lineCount, lineCountIndex, place, out

Lines == INSTANCE ShuffleFileLines WITH phase <- stage, i <- place

LinesTypeOK ==
    /\ stage \in {"list", "swap", "done", "failed", "undefined"}
    /\ lineCount \in 0..Count /\ place \in 0..lineCount
    /\ lineCountIndex \in [0..(lineCount - 1) -> 0..(lineCount - 1)]
    /\ out \in [0..(place - 1) -> 0..(lineCount - 1)]

Injective == \A j, k \in 0..(lineCount - 1) : j # k => lineCountIndex[j] # lineCountIndex[k]
Complete == \A l \in 0..(lineCount - 1) : \E k \in 0..(lineCount - 1) : lineCountIndex[k] = l

\* The places that were filled have what the array has in them, for good.
Kept == \A k \in 0..(place - 1) : out[k] = lineCountIndex[k]

Phases ==
    /\ stage \in {"swap", "done"} => lineCount = Count
    /\ stage = "list" => place = 0
    /\ stage = "done" => place = lineCount

LinesInv == LinesTypeOK /\ Injective /\ Complete /\ Kept /\ Phases

-----------------------------------------------------------------------------
LEMMA InitLines == ASSUME Lines!Sizes PROVE Lines!Init => LinesInv
BY DEF Lines!Sizes, Lines!Init, LinesInv, LinesTypeOK, Injective, Complete, Kept, Phases

LEMMA ListLineInv == ASSUME Lines!Sizes, LinesInv, Lines!ListLine PROVE LinesInv'
<1>1. CASE lineCount < Room
  <2>1. /\ stage' = stage /\ lineCount' = lineCount + 1 /\ place' = place /\ out' = out
        /\ lineCountIndex' = [k \in 0..lineCount |-> IF k = lineCount THEN lineCount ELSE lineCountIndex[k]]
        /\ place = 0 /\ lineCount \in Nat /\ lineCount + 1 \in 0..Count /\ stage = "list"
    BY <1>1 DEF Lines!ListLine, LinesInv, LinesTypeOK, Phases, Lines!Sizes
  <2>2. 0..(lineCount' - 1) = 0..lineCount
    BY <2>1
  <2>3. \A k \in 0..(lineCount - 1) : lineCountIndex[k] \in 0..(lineCount - 1)
    BY DEF LinesInv, LinesTypeOK
  <2>4. LinesTypeOK'
    <3>1. lineCountIndex' \in [0..lineCount -> 0..lineCount]
      BY <2>1, <2>3
    <3>2. out \in [0..-1 -> 0..(lineCount - 1)]
      BY <2>1 DEF LinesInv, LinesTypeOK
    <3>3. out' \in [0..(place' - 1) -> 0..(lineCount' - 1)]
      BY <2>1, <3>2
    <3> QED BY <2>1, <2>2, <3>1, <3>3 DEF LinesTypeOK
  <2>5. Injective'
    BY <2>1, <2>2, <2>3 DEF LinesInv, Injective
  <2>6. Complete'
    <3> SUFFICES ASSUME NEW l \in 0..lineCount
                 PROVE  \E k \in 0..lineCount : lineCountIndex'[k] = l
      BY <2>2 DEF Complete
    <3>1. CASE l = lineCount
      BY <2>1, <3>1
    <3>2. CASE l # lineCount
      <4>1. PICK k \in 0..(lineCount - 1) : lineCountIndex[k] = l
        BY <2>1, <3>2 DEF LinesInv, Complete
      <4> QED BY <2>1, <4>1
    <3> QED BY <3>1, <3>2
  <2>7. Kept' /\ Phases'
    BY <2>1 DEF Kept, Phases
  <2> QED BY <2>4, <2>5, <2>6, <2>7 DEF LinesInv
<1>2. CASE ~(lineCount < Room)
  BY <1>2 DEF Lines!ListLine, LinesInv, LinesTypeOK, Injective, Complete, Kept, Phases
<1> QED BY <1>1, <1>2

(* The exchange of two entries: what the array has is the same.            *)
LEMMA SwapInv ==
    ASSUME Lines!Sizes, LinesInv, stage = "swap", place < lineCount,
           NEW index \in place..(lineCount - 1),
           lineCountIndex' = Lines!Swapped(index), lineCount' = lineCount
    PROVE  /\ lineCountIndex' \in [0..(lineCount - 1) -> 0..(lineCount - 1)]
           /\ lineCountIndex'[place] = lineCountIndex[index]
           /\ \A k \in 0..(place - 1) : lineCountIndex'[k] = lineCountIndex[k]
           /\ Injective' /\ Complete'
<1>1. /\ lineCount \in Nat /\ place \in 0..(lineCount - 1) /\ index \in 0..(lineCount - 1)
      /\ lineCountIndex \in [0..(lineCount - 1) -> 0..(lineCount - 1)]
  BY DEF LinesInv, LinesTypeOK, Lines!Sizes
<1>2. \A k \in 0..(lineCount - 1) :
        lineCountIndex'[k] = IF k = place THEN lineCountIndex[index]
                             ELSE IF k = index THEN lineCountIndex[place] ELSE lineCountIndex[k]
  BY <1>1 DEF Lines!Swapped
<1>3. lineCountIndex' \in [0..(lineCount - 1) -> 0..(lineCount - 1)]
  BY <1>1 DEF Lines!Swapped
<1>4. \A k \in 0..(place - 1) : lineCountIndex'[k] = lineCountIndex[k]
  BY <1>1, <1>2
<1>5. Injective'
  <2> SUFFICES ASSUME NEW j \in 0..(lineCount - 1), NEW k \in 0..(lineCount - 1), j # k
               PROVE  lineCountIndex'[j] # lineCountIndex'[k]
    BY DEF Injective
  <2>1. \A a, b \in 0..(lineCount - 1) : a # b => lineCountIndex[a] # lineCountIndex[b]
    BY DEF LinesInv, Injective
  <2> DEFINE From(n) == IF n = place THEN index ELSE IF n = index THEN place ELSE n
  <2>2. From(j) \in 0..(lineCount - 1) /\ From(k) \in 0..(lineCount - 1) /\ From(j) # From(k)
    BY <1>1
  <2>3. lineCountIndex'[j] = lineCountIndex[From(j)] /\ lineCountIndex'[k] = lineCountIndex[From(k)]
    BY <1>2
  <2> HIDE DEF From
  <2> QED BY <2>1, <2>2, <2>3
<1>6. Complete'
  <2> SUFFICES ASSUME NEW l \in 0..(lineCount - 1)
               PROVE  \E k \in 0..(lineCount - 1) : lineCountIndex'[k] = l
    BY DEF Complete
  <2>1. PICK k \in 0..(lineCount - 1) : lineCountIndex[k] = l
    BY DEF LinesInv, Complete
  <2>2. CASE k = place
    BY <1>1, <1>2, <2>1, <2>2
  <2>3. CASE k = index
    BY <1>1, <1>2, <2>1, <2>3
  <2>4. CASE k # place /\ k # index
    BY <1>2, <2>1, <2>4
  <2> QED BY <2>2, <2>3, <2>4
<1> QED BY <1>1, <1>2, <1>3, <1>4, <1>5, <1>6

LEMMA PutLineInv == ASSUME Lines!Sizes, LinesInv, Lines!PutLine PROVE LinesInv'
<1>1. PICK index \in place..(lineCount - 1) :
        /\ lineCountIndex' = Lines!Swapped(index)
        /\ out' = [k \in 0..place |-> IF k = place THEN lineCountIndex[index] ELSE out[k]]
  BY DEF Lines!PutLine
<1>2. /\ stage = "swap" /\ stage' = stage /\ lineCount' = lineCount /\ place' = place + 1 /\ place < lineCount
      /\ lineCount \in 0..Count /\ lineCount = Count /\ place \in 0..(lineCount - 1) /\ lineCount \in Nat
  BY DEF Lines!PutLine, LinesInv, LinesTypeOK, Phases, Lines!Sizes
<1>3. /\ lineCountIndex' \in [0..(lineCount - 1) -> 0..(lineCount - 1)]
      /\ lineCountIndex'[place] = lineCountIndex[index]
      /\ \A k \in 0..(place - 1) : lineCountIndex'[k] = lineCountIndex[k]
      /\ Injective' /\ Complete'
  BY <1>1, <1>2, SwapInv
<1>4. out' \in [0..(place' - 1) -> 0..(lineCount' - 1)]
  <2>1. lineCountIndex[index] \in 0..(lineCount - 1)
    BY <1>2 DEF LinesInv, LinesTypeOK
  <2>2. \A k \in 0..(place - 1) : out[k] \in 0..(lineCount - 1)
    BY DEF LinesInv, LinesTypeOK
  <2>3. out' \in [0..place -> 0..(lineCount - 1)]
    BY <1>1, <1>2, <2>1, <2>2
  <2> QED BY <1>2, <2>3
<1>5. LinesTypeOK'
  <2>1. stage' = "swap" /\ lineCount' \in 0..Count
    BY <1>2
  <2>2. place' \in 0..lineCount'
    BY <1>2
  <2>3. lineCountIndex' \in [0..(lineCount' - 1) -> 0..(lineCount' - 1)]
    BY <1>2, <1>3
  <2> QED BY <1>4, <2>1, <2>2, <2>3 DEF LinesTypeOK
<1>6. Kept'
  <2> SUFFICES ASSUME NEW k \in 0..place PROVE out'[k] = lineCountIndex'[k]
    BY <1>2 DEF Kept
  <2>1. CASE k = place
    BY <1>1, <1>3, <2>1
  <2>2. CASE k # place
    <3>1. k \in 0..(place - 1)
      BY <1>2, <2>2
    <3> QED BY <1>1, <1>3, <2>2, <3>1 DEF LinesInv, Kept
  <2> QED BY <2>1, <2>2
<1>7. Phases'
  BY <1>2 DEF Phases
<1> QED BY <1>3, <1>5, <1>6, <1>7 DEF LinesInv

LEMMA NextLines == ASSUME Lines!Sizes, LinesInv, [Lines!Next]_Lines!vars PROVE LinesInv'
<1>1. CASE Lines!EndList
  BY <1>1 DEF Lines!EndList, LinesInv, LinesTypeOK, Injective, Complete, Kept, Phases
<1>2. CASE Lines!Finish
  BY <1>2 DEF Lines!Finish, LinesInv, LinesTypeOK, Injective, Complete, Kept, Phases
<1>3. CASE UNCHANGED Lines!vars
  BY <1>3 DEF Lines!vars, LinesInv, LinesTypeOK, Injective, Complete, Kept, Phases
<1> QED BY <1>1, <1>2, <1>3, ListLineInv, PutLineInv DEF Lines!Next

LEMMA LinesShuffled == ASSUME Lines!Sizes, LinesInv PROVE Lines!IsShuffle
<1> SUFFICES ASSUME stage = "done" PROVE Lines!IsShuffle
  BY DEF Lines!IsShuffle
<1>1. /\ lineCount = Count /\ place = Count
      /\ out \in [0..(Count - 1) -> 0..(Count - 1)]
      /\ \A k \in 0..(Count - 1) : out[k] = lineCountIndex[k]
  BY DEF LinesInv, LinesTypeOK, Phases, Kept
<1> QED BY <1>1 DEF Lines!IsShuffle, LinesInv, Injective, Complete

(* Whatever the random numbers are, the output of a shuffle has each line  *)
(* of the file once.                                                       *)
THEOREM ShuffleCorrect == ASSUME Lines!Sizes PROVE Lines!Spec => []Lines!IsShuffle
<1>1. Lines!Init => LinesInv
  BY InitLines
<1>2. LinesInv /\ [Lines!Next]_Lines!vars => LinesInv'
  BY NextLines
<1>3. LinesInv => Lines!IsShuffle
  BY LinesShuffled
<1> QED BY <1>1, <1>2, <1>3, PTL DEF Lines!Spec
===============================================================================
