------------------------ MODULE TemplateParserProofs ------------------------
(***************************************************************************)
(* Proofs about TemplateParser, for every set of templates, number of      *)
(* requests, width of the numbers and size of the memory: a parser that    *)
(* refuses its template leaves the XML library started, and no other; a    *)
(* table is told its rows by a function that was processed; the rows of a  *)
(* table hold the lines of its seed when the production begins; functions  *)
(* of columns are processed with their parameters twice over; and those of *)
(* a total divide it among the tables that ask them.                       *)
(***************************************************************************)
EXTENDS TemplateParser, SequenceTheorems, FiniteSetTheorems, WellFoundedInduction, TLAPS

Phases ==
    {"new", "initialise", "layout", "process", "release", "fill", "produced", "refused", "undefined"}

-----------------------------------------------------------------------------
(* The XML library.                                                        *)

RefusedOf(s) == {i \in DOMAIN s : s[i] = "refused"}
Started(p) == IF p \in {"new", "fill", "produced"} THEN 0 ELSE 1

LibraryOK ==
    /\ phase \in Phases /\ past \in Seq(Phases) /\ library \in Int
    /\ phase # "undefined" => library = Cardinality(RefusedOf(past)) + Started(phase)

LEMMA RefusedCounted ==
    ASSUME NEW s \in Seq(Phases), NEW p \in Phases
    PROVE  /\ Cardinality(RefusedOf(s)) \in Nat
           /\ Append(s, p) \in Seq(Phases)
           /\ Cardinality(RefusedOf(Append(s, p)))
                = IF p = "refused" THEN Cardinality(RefusedOf(s)) + 1 ELSE Cardinality(RefusedOf(s))
<1>. DEFINE n == Len(s)
            t == Append(s, p)
<1>1. /\ n \in Nat /\ DOMAIN s = 1..n /\ t \in Seq(Phases) /\ DOMAIN t = 1..(n + 1)
      /\ t[n + 1] = p /\ \A i \in 1..n : t[i] = s[i]
    <2>1. n \in Nat /\ DOMAIN s = 1..n
        BY LenProperties
    <2>2. t \in Seq(Phases) /\ Len(t) = n + 1 /\ t[n + 1] = p /\ \A i \in 1..n : t[i] = s[i]
        BY AppendProperties
    <2>. QED
        BY <2>1, <2>2, LenProperties
<1>2. IsFiniteSet(RefusedOf(s))
    <2>1. IsFiniteSet(1..n)
        BY <1>1, FS_Interval
    <2>2. RefusedOf(s) \in SUBSET (1..n)
        BY <1>1 DEF RefusedOf
    <2>. QED
        BY <2>1, <2>2, FS_Subset
<1>. HIDE DEF n, t
<1>3. n + 1 \notin RefusedOf(s)
    BY <1>1 DEF RefusedOf
<1>4. RefusedOf(t) = IF p = "refused" THEN RefusedOf(s) \union {n + 1} ELSE RefusedOf(s)
    BY <1>1 DEF RefusedOf
<1>. QED
    BY <1>1, <1>2, <1>3, <1>4, FS_CardinalityType, FS_AddElement DEF t

LEMMA StepLibrary ==
    ASSUME LibraryOK, [Next]_vars
    PROVE  LibraryOK'
<1>. USE DEF LibraryOK, Phases
<1>. DEFINE held(s) == Cardinality(RefusedOf(s))
<1>1. held(past) \in Nat
    <2>1. "new" \in Phases
        OBVIOUS
    <2>. QED
        BY <2>1, RefusedCounted
<1>2. CASE Start
    <2>1. /\ phase \in {"new", "refused", "produced"} /\ phase' \in {"initialise", "release"}
          /\ library' = library + 1
          /\ past' = IF phase = "new" THEN past ELSE Append(past, phase)
        BY <1>2 DEF Start
    <2>2. past' \in Seq(Phases) /\ held(past') = held(past) + IF phase = "refused" THEN 1 ELSE 0
        <3>1. CASE phase = "new"
            BY <1>1, <2>1, <3>1
        <3>2. CASE phase # "new"
            <4>1. past' = Append(past, phase) /\ phase \in Phases
                BY <2>1, <3>2
            <4>2. /\ Append(past, phase) \in Seq(Phases)
                  /\ held(Append(past, phase)) = IF phase = "refused" THEN held(past) + 1 ELSE held(past)
                BY <4>1, RefusedCounted
            <4>. HIDE DEF held
            <4>. QED
                BY <1>1, <4>1, <4>2
        <3>. QED
            BY <3>1, <3>2
    <2>. HIDE DEF held
    <2>3. library = held(past) + Started(phase)
        BY <2>1 DEF held
    <2>4. library' = held(past') + Started(phase')
        BY <1>1, <2>1, <2>2, <2>3 DEF Started
    <2>. QED
        BY <2>1, <2>2, <2>4 DEF held
<1>3. CASE Release
    <2>1. phase = "release" /\ phase' = "fill" /\ past' = past /\ library' = library - 1
        BY <1>3 DEF Release, Terminated, Goes
    <2>. QED
        BY <1>1, <2>1 DEF Started
<1>4. ASSUME past' = past, library' = library, phase' \in Phases,
             phase' # "undefined" => phase # "undefined" /\ Started(phase') = Started(phase)
      PROVE  LibraryOK'
    BY <1>1, <1>4
<1>. USE DEF Goes, Ends, Started
<1>5. CASE Initialize \/ EndOfElements
    BY <1>4, <1>5 DEF Initialize, EndOfElements
<1>6. CASE LayTable \/ EndOfLayout
    BY <1>4, <1>6 DEF LayTable, EndOfLayout
<1>7. CASE ProcessFunction \/ ProcessOther \/ ProcessSubColumn \/ LoadFiles
    BY <1>4, <1>7 DEF ProcessFunction, ProcessOther, ProcessSubColumn, LoadFiles
<1>8. CASE ProcessTable
    BY <1>4, <1>8 DEF ProcessTable, Mapping
<1>9. CASE CopySeed \/ NextTable \/ EndOfFill
    BY <1>4, <1>9 DEF CopySeed, NextTable, EndOfFill
<1>10. CASE UNCHANGED vars
    BY <1>4, <1>10 DEF vars
<1>. QED
    BY <1>2, <1>3, <1>5, <1>6, <1>7, <1>8, <1>9, <1>10 DEF Next

\* A parser that refuses its template leaves the XML library started, and no other does, for
\* every number of requests and whatever templates are parsed.
THEOREM LibraryHeld == Spec => []LibraryHeldByRefused
<1>1. Init => LibraryOK
    <2>1. RefusedOf(<<>>) = {} /\ <<>> \in Seq(Phases)
        BY DEF RefusedOf
    <2>2. Cardinality(RefusedOf(<<>>)) = 0
        BY <2>1, FS_EmptySet
    <2>. QED
        BY <2>1, <2>2 DEF Init, LibraryOK, Started, Phases
<1>2. LibraryOK => LibraryHeldByRefused
    BY DEF LibraryOK, LibraryHeldByRefused, RefusedOf, Started
<1>. QED
    BY <1>1, <1>2, StepLibrary, PTL DEF Spec

-----------------------------------------------------------------------------
(* The functions that tables ask.                                          *)

FunctionShape(f) == DOMAIN f = {"read", "source", "total", "left", "percents", "current", "asks"}

FunctionsOK ==
    /\ \A f \in functions : f \in Elements /\ Kind(f) = "Function"
    /\ \A f, g \in functions : Element(f).name = Element(g).name => f = g

\* What an element names is defined before it.
Named(e) == Element(e).uses # "none" => \E f \in functions : Element(f).name = Element(e).uses /\ f < e

ObjectsOK ==
    /\ fn = [e \in Elements |-> fn[e]]
    /\ \A e \in Elements : FunctionShape(fn[e]) /\ (fn[e].current > 0 => fn[e].read)

ReadyOK ==
    /\ tpl \in Templates /\ at \in Nat
    /\ FunctionsOK /\ ObjectsOK
    /\ phase = "initialise" => (\A f \in functions : f < at) /\ \A e \in Elements : e < at => Named(e)
    /\ phase \in {"layout", "process"} => \A e \in Elements : Named(e)
    /\ phase = "process" => \A f \in Elements : f < at /\ IsRedefineRow(f) => fn[f].read

LEMMA ElementsAre ==
    ASSUME tpl \in Templates
    PROVE  Len(tpl.elements) \in Nat /\ Elements = 1..Len(tpl.elements)
BY TemplatesAssumption DEF Elements

LEMMA OffersKeep ==
    ASSUME NEW f, NEW n, FunctionShape(fn[f]), NEW given \in Offers(f, n)
    PROVE  /\ FunctionShape(given[1]) /\ given[1].read = fn[f].read
           /\ ~IsRedefineRow(f) => given[1] = fn[f]
<1>1. ASSUME NEW g, FunctionShape(g), NEW rows
      PROVE  FunctionShape(Gives(g, rows)[1]) /\ Gives(g, rows)[1].read = g.read
    BY <1>1 DEF Gives, FunctionShape
<1>2. CASE ~IsRedefineRow(f)
    BY <1>2 DEF Offers
<1>3. CASE IsRedefineRow(f)
    <2>. DEFINE g == [fn[f] EXCEPT !.current = @ + 1]
    <2>1. FunctionShape(g) /\ g.read = fn[f].read
        BY DEF FunctionShape
    <2>. HIDE DEF g
    <2>2. \E rows : given = Gives(g, rows)
        BY <1>3 DEF Offers, Calculated, Share, Rest, g
    <2>. QED
        BY <1>1, <1>3, <2>1, <2>2
<1>. QED
    BY <1>2, <1>3

LEMMA UsedIs ==
    ASSUME ReadyOK, phase = "process", NEW e \in Elements, Element(e).uses # "none"
    PROVE  Used(e) \in functions /\ Used(e) \in Elements /\ Used(e) < e
<1>1. PICK f \in functions : Element(f).name = Element(e).uses /\ f < e
    BY DEF ReadyOK, Named
<1>2. Used(e) \in functions /\ Element(Used(e)).name = Element(e).uses
    BY <1>1 DEF Used
<1>. QED
    BY <1>1, <1>2 DEF ReadyOK, FunctionsOK

LEMMA TemplateStays ==
    ASSUME [Next]_vars
    PROVE  tpl' = tpl
<1>1. CASE Start \/ Initialize \/ EndOfElements \/ LayTable \/ EndOfLayout \/ LoadFiles \/ Release
    BY <1>1 DEF Start, Initialize, EndOfElements, LayTable, EndOfLayout, LoadFiles, Release, Goes, Ends
<1>2. CASE ProcessFunction \/ ProcessOther \/ ProcessSubColumn
    BY <1>2 DEF ProcessFunction, ProcessOther, ProcessSubColumn, Goes, Ends
<1>3. CASE ProcessTable
    BY <1>3 DEF ProcessTable, Mapping, Goes, Ends
<1>4. CASE CopySeed \/ NextTable \/ EndOfFill \/ UNCHANGED vars
    BY <1>4 DEF CopySeed, NextTable, EndOfFill, Goes, Ends, vars
<1>. QED
    BY <1>1, <1>2, <1>3, <1>4 DEF Next

LEMMA MappingGoes ==
    ASSUME NEW e, NEW rows, Mapping(e, rows)
    PROVE  Goes("undefined", e) \/ Goes("process", e + 1)
BY DEF Mapping

LEMMA StepReady ==
    ASSUME ReadyOK, [Next]_vars
    PROVE  ReadyOK'
<1>1. /\ tpl' = tpl /\ tpl \in Templates /\ Elements' = Elements /\ at \in Nat
      /\ Len(tpl.elements) \in Nat /\ Elements = 1..Len(tpl.elements)
    BY ElementsAre, TemplateStays DEF ReadyOK, Elements
<1>2. ASSUME NEW e PROVE Element(e)' = Element(e) /\ Kind(e)' = Kind(e) /\ IsRedefineRow(e)' = IsRedefineRow(e)
    BY <1>1 DEF Element, Kind, IsRedefineRow
<1>3. ASSUME functions' = functions
      PROVE  FunctionsOK' /\ \A e : Named(e)' = Named(e)
    BY <1>1, <1>2, <1>3 DEF ReadyOK, FunctionsOK, Named
<1>4. ASSUME fn' = fn
      PROVE  ObjectsOK'
    BY <1>1, <1>4 DEF ReadyOK, ObjectsOK
<1>5. ASSUME fn' = fn, functions' = functions, at' \in Nat,
             \/ phase' \notin {"initialise", "layout", "process"}
             \/ phase' = phase /\ at' = at
             \/ phase = "initialise" /\ phase' = "layout" /\ at = Len(tpl.elements) + 1
             \/ phase = "layout" /\ phase' = "layout"
             \/ phase = "layout" /\ phase' = "process" /\ at' = 1
             \/ phase = "process" /\ phase' = "process" /\ at' = at + 1 /\ ~IsRedefineRow(at)
      PROVE  ReadyOK'
    <2>1. tpl' \in Templates /\ FunctionsOK' /\ ObjectsOK'
        BY <1>1, <1>3, <1>4, <1>5
    <2>2. phase' = "initialise" => (\A f \in functions' : f < at') /\ \A e \in Elements' : e < at' => Named(e)'
        BY <1>1, <1>3, <1>5 DEF ReadyOK
    <2>3. phase' \in {"layout", "process"} => \A e \in Elements' : Named(e)'
        BY <1>1, <1>3, <1>5 DEF ReadyOK
    <2>4. phase' = "process" => \A f \in Elements' : f < at' /\ IsRedefineRow(f)' => fn'[f].read
        <3>. SUFFICES ASSUME phase' = "process", NEW f \in Elements, f < at', IsRedefineRow(f) PROVE fn[f].read
            BY <1>1, <1>2, <1>5
        <3>. QED
            BY <1>1, <1>5 DEF ReadyOK
    <2>. QED
        BY <2>1, <2>2, <2>3, <2>4, <1>5 DEF ReadyOK
<1>. USE DEF Goes, Ends
<1>6. CASE Start
    <2>1. /\ phase' \in {"initialise", "release"} /\ at' = 1 /\ functions' = {}
          /\ \E source, m, n : fn' = [e \in Elements |-> NewFunction(source, m, n)]
        BY <1>6 DEF Start
    <2>2. PICK source, m, n : fn' = [e \in Elements |-> NewFunction(source, m, n)]
        BY <2>1
    <2>3. FunctionsOK' /\ ObjectsOK'
        <3>1. FunctionsOK'
            BY <2>1 DEF FunctionsOK
        <3>2. LET f == NewFunction(source, m, n) IN FunctionShape(f) /\ f.current = 0
            BY DEF FunctionShape, NewFunction
        <3>. HIDE DEF FunctionShape
        <3>3. \A e \in Elements : FunctionShape(fn'[e]) /\ fn'[e].current = 0
            BY <2>2, <3>2
        <3>. QED
            BY <1>1, <2>2, <3>1, <3>3 DEF ObjectsOK
    <2>. QED
        BY <1>1, <2>1, <2>3 DEF ReadyOK
<1>7. CASE Initialize
    <2>1. CASE Ends("undefined")
        BY <1>1, <1>5, <2>1 DEF objects
    <2>2. CASE Goes("refused", at) /\ UNCHANGED objects
        BY <1>1, <1>5, <2>2 DEF objects
    <2>3. CASE /\ ~Astray(at) /\ ~Refused(at) /\ phase = "initialise" /\ at \in Elements
               /\ functions' = functions \union (IF Kind(at) = "Function" THEN {at} ELSE {})
               /\ Goes("initialise", at + 1) /\ fn' = fn
        <3>1. FunctionsOK'
            <4>1. Kind(at) = "Function" => ~InMap(functions, Element(at).name)
                BY <2>3 DEF Refused, DefinedTwice
            <4>. QED
                BY <1>1, <1>2, <2>3, <4>1 DEF ReadyOK, FunctionsOK, InMap
        <3>2. \A f \in functions' : f < at'
            BY <1>1, <2>3 DEF ReadyOK, FunctionsOK
        <3>3. ASSUME NEW e \in Elements, e < at' PROVE Named(e)'
            <4>1. CASE e = at
                BY <1>2, <2>3, <4>1 DEF Astray, UsesUndefined, InMap, Named, ReadyOK
            <4>2. CASE e < at
                BY <1>2, <2>3, <4>2 DEF Named, ReadyOK
            <4>. QED
                BY <1>1, <2>3, <3>3, <4>1, <4>2
        <3>. QED
            BY <1>1, <1>4, <2>3, <3>1, <3>2, <3>3 DEF ReadyOK
    <2>. QED
        BY <1>7, <2>1, <2>2, <2>3 DEF Initialize
<1>8. CASE EndOfElements \/ LayTable \/ EndOfLayout
    BY <1>1, <1>5, <1>8 DEF EndOfElements, LayTable, EndOfLayout, objects
<1>9. CASE ProcessOther \/ ProcessSubColumn
    BY <1>1, <1>5, <1>9 DEF ProcessOther, ProcessSubColumn, IsRedefineRow, objects
<1>10. CASE LoadFiles \/ Release \/ CopySeed \/ NextTable \/ EndOfFill \/ UNCHANGED vars
    BY <1>1, <1>5, <1>10 DEF LoadFiles, Release, CopySeed, NextTable, EndOfFill, objects, vars
<1>11. ASSUME NEW e \in Elements, NEW f, FunctionShape(f), f.current > 0 => f.read, fn' = [fn EXCEPT ![e] = f]
       PROVE  /\ ObjectsOK' /\ fn'[e] = f
              /\ \A d \in Elements : d # e => fn'[d] = fn[d]
    BY <1>1, <1>11 DEF ReadyOK, ObjectsOK
<1>12. CASE ProcessFunction
    <2>1. CASE Ends("refused")
        BY <1>1, <1>5, <2>1 DEF objects
    <2>2. CASE /\ phase = "process" /\ at \in Elements /\ ReadFunction(at).read
               /\ fn' = [fn EXCEPT ![at] = ReadFunction(at)]
               /\ Goes("process", at + 1) /\ functions' = functions
        <3>1. FunctionShape(ReadFunction(at))
            BY DEF ReadFunction, FunctionShape
        <3>. DEFINE f == ReadFunction(at)
        <3>. HIDE DEF f
        <3>3. FunctionShape(f) /\ f.read /\ fn' = [fn EXCEPT ![at] = f]
            BY <2>2, <3>1 DEF f
        <3>4. ObjectsOK' /\ fn'[at] = f /\ \A d \in Elements : d # at => fn'[d] = fn[d]
            BY <1>11, <2>2, <3>3
        <3>5. ASSUME NEW d \in Elements, d < at', IsRedefineRow(d) PROVE fn'[d].read
            BY <1>1, <2>2, <3>3, <3>4, <3>5 DEF ReadyOK
        <3>. QED
            BY <1>1, <1>2, <1>3, <2>2, <3>4, <3>5 DEF ReadyOK
    <2>. QED
        BY <1>12, <2>1, <2>2 DEF ProcessFunction
<1>13. CASE ProcessTable
    <2>1. CASE Ends("refused")
        BY <1>1, <1>5, <2>1 DEF objects
    <2>2. /\ phase = "process" /\ at \in Elements /\ Kind(at) = "Table"
        BY <1>13 DEF ProcessTable
    <2>3. ASSUME NEW rows, Mapping(at, rows)
          PROVE  (phase' = "undefined" /\ at' = at) \/ (phase' = "process" /\ at' = at + 1)
        BY <2>3, MappingGoes
    <2>4. ASSUME NEW rows, Mapping(at, rows), fn' = fn, functions' = functions
          PROVE  ReadyOK'
        BY <1>1, <1>5, <2>2, <2>3, <2>4 DEF IsRedefineRow
    <2>5. ASSUME Asks(at), NEW given \in Offers(Used(at), table[at].files), NEW rows, Mapping(at, rows),
                 fn' = [fn EXCEPT ![Used(at)] = given[1]], functions' = functions
          PROVE  ReadyOK'
        <3>. DEFINE u == Used(at)
                    f == given[1]
        <3>1. Element(at).uses # "none"
            BY <1>1, <2>2, <2>5, TemplatesAssumption DEF Asks, Element, Kind, Elements
        <3>2. u \in Elements /\ u < at
            BY <2>2, <3>1, UsedIs
        <3>. HIDE DEF u
        <3>3. FunctionShape(fn[u]) /\ (fn[u].current > 0 => fn[u].read) /\ (IsRedefineRow(u) => fn[u].read)
            BY <2>2, <3>2 DEF ReadyOK, ObjectsOK
        <3>4. FunctionShape(f) /\ f.read = fn[u].read /\ (~IsRedefineRow(u) => f = fn[u])
            BY <2>5, <3>3, OffersKeep DEF u
        <3>. HIDE DEF f
        <3>5. f.current > 0 => f.read
            BY <3>3, <3>4
        <3>6. ObjectsOK' /\ fn'[u] = f /\ \A d \in Elements : d # u => fn'[d] = fn[d]
            BY <1>11, <2>5, <3>2, <3>4, <3>5 DEF f, u
        <3>7. ASSUME NEW d \in Elements, d < at', IsRedefineRow(d), phase' = "process" PROVE fn'[d].read
            <4>1. d # at /\ d < at
                BY <1>1, <2>2, <2>3, <2>5, <3>7 DEF IsRedefineRow
            <4>. QED
                BY <2>2, <3>3, <3>4, <3>6, <3>7, <4>1 DEF ReadyOK
        <3>. QED
            BY <1>1, <1>2, <1>3, <2>2, <2>3, <2>5, <3>6, <3>7 DEF ReadyOK
    <2>. QED
        BY <1>13, <2>1, <2>4, <2>5 DEF ProcessTable
<1>. QED
    BY <1>6, <1>7, <1>8, <1>9, <1>10, <1>12, <1>13 DEF Next

\* A table is told its rows only by a function that was processed, for every set of templates
\* in which only a name of a function leaves the number of rows to one.
THEOREM FunctionsReady == Spec => []ReadyWhenAsked
<1>1. Init => ReadyOK
    <2>1. LET f == NewFunction("Other", 0, 0) IN FunctionShape(f) /\ f.current = 0
        BY DEF FunctionShape, NewFunction
    <2>2. Init => fn = [e \in Elements |-> fn[e]] /\ \A e \in Elements : fn[e] = NewFunction("Other", 0, 0)
        BY DEF Init
    <2>3. Init => ObjectsOK
        BY <2>1, <2>2 DEF ObjectsOK
    <2>. QED
        BY <2>3 DEF Init, ReadyOK, FunctionsOK
<1>2. ReadyOK => ReadyWhenAsked
    BY DEF ReadyOK, ObjectsOK, ReadyWhenAsked
<1>. QED
    BY <1>1, <1>2, StepReady, PTL DEF Spec

-----------------------------------------------------------------------------
(* The copy of the seeds.                                                  *)

TableShape(t) == DOMAIN t = {"files", "size", "seedRows", "lines", "rows", "buffer", "copied"}

\* What SetAlignseedfilenum said of a table that has rows of the seed.
Lined(e, t) ==
    /\ t.lines \in Nat /\ t.seedRows \in Nat
    /\ t.seedRows # 0 => Kind(e) = "Table" /\ t.seedRows = SeedRows(e, t.lines)

\* The first rows hold the lines of the seed in turn, and the copy ends with a line of it, or
\* with the buffer.
Copied(t) == [i \in 1..t.rows |-> IF i <= t.copied THEN ((i - 1) % t.seedRows) + 1 ELSE Zeros]

UnderWay(e, t) ==
    t.seedRows # 0 =>
        /\ Element(e).rowNum.kind = "number" /\ t.rows \in Nat
        /\ t.rows = RowsInText(e) % Word \/ (RowsInText(e) % Word = 0 /\ t.rows = Word - 2)
        /\ t.copied \in 0..t.rows /\ t.buffer = Copied(t)
        /\ Element(e).mode # "false" => t.copied = 0
        /\ t.copied > 0 => t.seedRows <= t.rows /\ t.seedRows <= t.lines
        /\ t.copied < t.rows => t.copied % t.seedRows = 0

Laid(e, t) == UnderWay(e, t) /\ t.copied = 0

LineOfRow(mode, t, i) ==
    CASE mode = "false" -> ((i - 1) % Min({t.lines, t.rows})) + 1
      [] mode = "true" -> 1
      [] OTHER -> Zeros

Done(e, t) ==
    t.seedRows # 0 =>
        \A i \in 1..t.rows :
            t.buffer[i] <= Min({t.lines, t.rows}) /\ t.buffer[i] = LineOfRow(Element(e).mode, t, i)

TablesOK ==
    /\ \A e \in tables : e \in Elements /\ Kind(e) = "Table"
    /\ table = [e \in Elements |-> table[e]]
    /\ \A e \in Elements : TableShape(table[e]) /\ Lined(e, table[e])

SeedOK ==
    /\ tpl \in Templates /\ at \in Nat /\ feed \in Nat /\ TablesOK
    /\ phase \in {"initialise", "layout", "process", "release"} => \A e \in Elements : table[e].copied = 0
    /\ phase = "process" => \A e \in tables : e < at => Laid(e, table[e])
    /\ phase = "release" => \A e \in tables : Laid(e, table[e])
    /\ phase = "fill" => \A e \in tables : /\ e < at => Done(e, table[e])
                                           /\ e = at => UnderWay(e, table[e])
                                           /\ e > at => Laid(e, table[e])
    /\ phase = "produced" => \A e \in tables : Done(e, table[e])

LEMMA MinOfTwo ==
    ASSUME NEW a \in Int, NEW b \in Int
    PROVE  Min({a, b}) = IF a <= b THEN a ELSE b
BY DEF Min

LEMMA ModSum ==
    ASSUME NEW s \in Nat \ {0}, NEW c \in Nat, c % s = 0, NEW b \in 0..s
    PROVE  (c + b) % s = IF b = s THEN 0 ELSE b
<1>. DEFINE q == c \div s
<1>1. q \in Nat /\ c = s * q
    BY SMTT(30)
<1>. HIDE DEF q
<1>2. CASE b = s
    <2>1. c + b = s * (q + 1)
        BY <1>1, <1>2
    <2>2. \A x \in Nat : (s * x) % s = 0
        BY SMTT(30)
    <2>. QED
        BY <1>1, <1>2, <2>1, <2>2
<1>3. CASE b < s
    <2>1. \A x \in Nat, y \in 0..(s - 1) : (s * x + y) % s = y
        BY SMTT(30)
    <2>. QED
        BY <1>1, <1>3, <2>1
<1>. QED
    BY <1>2, <1>3

\* The rows of a seed that fit, in the table and in what was read, are all that do.
LEMMA SeedFits ==
    ASSUME tpl \in Templates, NEW e \in Elements, NEW t, Lined(e, t), UnderWay(e, t), t.seedRows # 0,
           t.seedRows <= t.rows, t.seedRows <= t.lines
    PROVE  t.seedRows = Min({t.lines, t.rows})
<1>1. RowsInText(e) \in Int
    BY TemplatesAssumption DEF RowsInText, Lined, Element, Elements, Kind
<1>2. /\ t.seedRows = IF t.lines > RowsInText(e) THEN RowsInText(e) % Word ELSE t.lines
      /\ t.rows \in Nat /\ t.lines \in Nat
      /\ t.rows = RowsInText(e) % Word \/ (RowsInText(e) % Word = 0 /\ t.rows = Word - 2)
    BY DEF Lined, UnderWay, SeedRows
<1>. QED
    BY <1>1, <1>2, MinOfTwo

LEMMA ItemLined ==
    ASSUME SeedOK, NEW e \in Elements, Kind(e) = "Table"
    PROVE  /\ TableShape(ProcessItem(e)) /\ Lined(e, ProcessItem(e))
           /\ ProcessItem(e).copied = table[e].copied
<1>. DEFINE seed == Element(e).seed
            lines == IF seed.kind = "directory" THEN feed ELSE seed.lines
            t == table[e]
<1>1. TableShape(t) /\ Lined(e, t)
    BY DEF SeedOK, TablesOK
<1>2. RowsInText(e) \in Int /\ lines \in Nat
    BY TemplatesAssumption DEF SeedOK, RowsInText, Element, Elements, Kind
<1>3. lines \in Nat /\ SeedRows(e, lines) \in Nat
    BY <1>2, ParserAssumption DEF SeedRows
<1>. HIDE DEF seed, lines
<1>4. ASSUME NEW u \in {t, [t EXCEPT !.size = Element(e).size], [t EXCEPT !.files = Element(e).fileNum]}
      PROVE  TableShape(u) /\ u.lines = t.lines /\ u.seedRows = t.seedRows /\ u.copied = t.copied
    BY <1>1 DEF TableShape
<1>5. LET u == [t EXCEPT !.files = Element(e).fileNum, !.size = Element(e).size,
                         !.lines = lines, !.seedRows = SeedRows(e, lines)]
      IN  TableShape(u) /\ u.lines = lines /\ u.seedRows = SeedRows(e, lines) /\ u.copied = t.copied
    BY <1>1 DEF TableShape
<1>. HIDE DEF t
<1>6. \/ ProcessItem(e) \in {t, [t EXCEPT !.size = Element(e).size], [t EXCEPT !.files = Element(e).fileNum]}
      \/ ProcessItem(e) = [t EXCEPT !.files = Element(e).fileNum, !.size = Element(e).size,
                                    !.lines = lines, !.seedRows = SeedRows(e, lines)]
    BY DEF ProcessItem, t, seed, lines
<1>. DEFINE p == ProcessItem(e)
<1>. HIDE DEF p, TableShape
<1>7. CASE TableShape(p) /\ p.lines = t.lines /\ p.seedRows = t.seedRows /\ p.copied = t.copied
    BY <1>1, <1>7 DEF Lined, p, t
<1>8. CASE TableShape(p) /\ p.lines = lines /\ p.seedRows = SeedRows(e, lines) /\ p.copied = t.copied
    BY <1>3, <1>8 DEF Lined, p, t
<1>. QED
    BY <1>4, <1>5, <1>6, <1>7, <1>8 DEF p

LEMMA CopyGoesOn ==
    ASSUME tpl \in Templates, NEW e \in Elements, NEW t, TableShape(t), Lined(e, t), UnderWay(e, t),
           t.seedRows # 0, Element(e).mode = "false", t.copied < t.rows,
           NEW after, after = t.copied + Chunk(t), after <= t.rows, Chunk(t) <= t.lines,
           NEW rows,
           rows = [i \in 1..t.rows |-> IF i \in (t.copied + 1)..after THEN i - t.copied ELSE t.buffer[i]],
           NEW u, u = [t EXCEPT !.copied = after, !.buffer = rows]
    PROVE  TableShape(u) /\ Lined(e, u) /\ UnderWay(e, u)
<1>. DEFINE s == t.seedRows
            c == t.copied
            n == t.rows
            k == Chunk(t)
<1>1. /\ s \in Nat \ {0} /\ n \in Nat /\ c \in 0..n /\ c < n /\ c % s = 0 /\ t.lines \in Nat
      /\ c > 0 => s <= n /\ s <= t.lines
    BY DEF Lined, UnderWay
<1>2. /\ k \in 1..s /\ after = c + k /\ after <= n /\ k <= t.lines
      /\ k < s => after = n
      /\ c = 0 => k = s
    BY <1>1 DEF Chunk
<1>3. /\ TableShape(u) /\ u.copied = after /\ u.buffer = rows
      /\ u.rows = n /\ u.lines = t.lines /\ u.seedRows = s
    BY DEF TableShape
<1>4. Lined(e, u)
    BY <1>3 DEF Lined
<1>. HIDE DEF s, c, n, k
<1>5. s <= n /\ s <= t.lines
    BY <1>1, <1>2
<1>6. after < n => after % s = 0
    BY <1>1, <1>2, ModSum
<1>7. rows = [i \in 1..n |-> IF i <= after THEN ((i - 1) % s) + 1 ELSE Zeros]
    <2>1. ASSUME NEW i \in 1..n, i \in (c + 1)..after
          PROVE  i - c = ((i - 1) % s) + 1
        <3>1. i - 1 - c \in 0..s /\ i - 1 - c # s /\ c + (i - 1 - c) = i - 1
            BY <1>1, <1>2, <2>1
        <3>2. (c + (i - 1 - c)) % s = i - 1 - c
            BY <1>1, <3>1, ModSum
        <3>. QED
            BY <1>1, <1>2, <2>1, <3>1, <3>2
    <2>2. t.buffer = [i \in 1..n |-> IF i <= c THEN ((i - 1) % s) + 1 ELSE Zeros]
        BY DEF UnderWay, Copied, n, c, s
    <2>3. \A i \in 1..n : rows[i] = IF i \in (c + 1)..after THEN i - c ELSE t.buffer[i]
        BY DEF n, c
    <2>4. ASSUME NEW i \in 1..n PROVE rows[i] = IF i <= after THEN ((i - 1) % s) + 1 ELSE Zeros
        <3>1. n \in Nat /\ c \in Nat /\ after \in Nat /\ c <= after
            BY <1>1, <1>2
        <3>2. CASE i \in (c + 1)..after
            <4>1. rows[i] = i - c /\ i - c = ((i - 1) % s) + 1
                BY <2>1, <2>3, <3>2
            <4>2. i <= after
                BY <3>1, <3>2
            <4>. QED
                BY <4>1, <4>2
        <3>3. CASE i \notin (c + 1)..after
            <4>1. rows[i] = t.buffer[i]
                BY <2>3, <3>3
            <4>2. i <= c <=> i <= after
                BY <3>1, <3>3
            <4>. QED
                BY <2>2, <4>1, <4>2
        <3>. QED
            BY <3>2, <3>3
    <2>5. rows = [i \in 1..n |-> rows[i]]
        BY DEF n
    <2>. QED
        BY <2>4, <2>5
<1>8. u.buffer = Copied(u)
    BY <1>3, <1>7 DEF Copied
<1>. QED
    BY <1>1, <1>2, <1>3, <1>4, <1>5, <1>6, <1>8 DEF UnderWay, n, s

LEMMA DoneAtEnd ==
    ASSUME tpl \in Templates, NEW e \in Elements, NEW t, TableShape(t), Lined(e, t), UnderWay(e, t)
    PROVE  /\ Element(e).mode = "false" /\ ~(t.copied < t.rows) => Done(e, t)
           /\ Element(e).mode \notin {"true", "false"} => Done(e, t)
           /\ t.seedRows # 0 /\ Element(e).mode = "true" /\ ~(t.rows > 0 /\ t.lines = 0) =>
                LET u == [t EXCEPT !.buffer = [i \in 1..t.rows |-> 1]]
                IN  TableShape(u) /\ Lined(e, u) /\ Done(e, u)
<1>1. CASE t.seedRows = 0
    BY <1>1 DEF Done, LineOfRow
<1>2. CASE t.seedRows # 0
    <2>1. /\ t.seedRows \in Nat \ {0} /\ t.rows \in Nat /\ t.lines \in Nat /\ t.copied \in 0..t.rows
          /\ t.buffer = Copied(t)
        BY <1>2 DEF Lined, UnderWay
    <2>2. CASE Element(e).mode = "false" /\ ~(t.copied < t.rows)
        <3>1. ASSUME NEW i \in 1..t.rows
              PROVE  t.seedRows = Min({t.lines, t.rows}) /\ t.buffer[i] = ((i - 1) % t.seedRows) + 1
            <4>1. t.copied = t.rows /\ t.copied > 0
                BY <2>1, <2>2
            <4>2. t.seedRows <= t.rows /\ t.seedRows <= t.lines
                BY <1>2, <4>1 DEF UnderWay
            <4>. QED
                BY <1>2, <2>1, <4>1, <4>2, SeedFits DEF Copied
        <3>2. ASSUME NEW i \in 1..t.rows PROVE ((i - 1) % t.seedRows) + 1 <= t.seedRows
            BY <2>1
        <3>. QED
            BY <2>2, <3>1, <3>2 DEF Done, LineOfRow
    <2>3. CASE Element(e).mode \notin {"true", "false"}
        <3>1. \A i \in 1..t.rows : t.buffer[i] = Zeros
            BY <1>2, <2>1, <2>3 DEF UnderWay, Copied
        <3>2. Zeros <= Min({t.lines, t.rows})
            BY <2>1, MinOfTwo DEF Zeros
        <3>. QED
            BY <2>3, <3>1, <3>2 DEF Done, LineOfRow
    <2>4. CASE Element(e).mode = "true" /\ ~(t.rows > 0 /\ t.lines = 0)
        <3>. DEFINE u == [t EXCEPT !.buffer = [i \in 1..t.rows |-> 1]]
        <3>1. /\ TableShape(u) /\ u.buffer = [i \in 1..t.rows |-> 1]
              /\ u.rows = t.rows /\ u.lines = t.lines /\ u.seedRows = t.seedRows
            BY DEF TableShape
        <3>. HIDE DEF u
        <3>2. \A i \in 1..t.rows : 1 <= Min({t.lines, t.rows})
            BY <2>1, <2>4, MinOfTwo
        <3>3. Lined(e, u) /\ Done(e, u)
            BY <2>4, <3>1, <3>2 DEF Lined, Done, LineOfRow
        <3>. QED
            BY <2>4, <3>1, <3>3 DEF u
    <2>. QED
        BY <2>2, <2>3, <2>4
<1>. QED
    BY <1>1, <1>2

LEMMA MappingMaps ==
    ASSUME NEW e, NEW rows, Mapping(e, rows)
    PROVE  \/ Goes("undefined", e) /\ table' = table
           \/ /\ Goes("process", e + 1)
              /\ table' = [table EXCEPT ![e] = [@ EXCEPT !.rows = rows, !.buffer = [i \in 1..rows |-> Zeros]]]
BY DEF Mapping

Spread(t, rows) == [t EXCEPT !.rows = rows, !.buffer = [i \in 1..rows |-> Zeros]]

Counted(e, t, rows) ==
    t.seedRows # 0 =>
        /\ Element(e).rowNum.kind = "number" /\ rows \in Nat
        /\ rows = RowsInText(e) % Word \/ (RowsInText(e) % Word = 0 /\ rows = Word - 2)

LEMMA LaidOut ==
    ASSUME NEW e, NEW t, TableShape(t), Lined(e, t), t.copied = 0, NEW rows, Counted(e, t, rows)
    PROVE  LET u == Spread(t, rows) IN TableShape(u) /\ Lined(e, u) /\ Laid(e, u) /\ u.copied = 0
<1>. DEFINE u == Spread(t, rows)
<1>1. /\ TableShape(u) /\ u.copied = 0 /\ u.rows = rows /\ u.buffer = [i \in 1..rows |-> Zeros]
      /\ u.lines = t.lines /\ u.seedRows = t.seedRows
    BY DEF TableShape, Spread
<1>. HIDE DEF u
<1>2. Lined(e, u)
    BY <1>1 DEF Lined
<1>3. CASE t.seedRows = 0
    BY <1>1, <1>2, <1>3 DEF Laid, UnderWay, u
<1>4. CASE t.seedRows # 0
    <2>1. u.buffer = Copied(u)
        <3>1. \A i \in 1..rows : ~(i <= 0)
            BY <1>4 DEF Counted
        <3>. QED
            BY <1>1, <3>1 DEF Copied
    <2>2. t.seedRows \in Nat \ {0} /\ 0 % t.seedRows = 0
        BY <1>4 DEF Lined
    <2>. QED
        BY <1>1, <1>2, <1>4, <2>1, <2>2 DEF Laid, UnderWay, Counted, u
<1>. QED
    BY <1>1, <1>2, <1>3, <1>4 DEF u

FirstLines(t) == [t EXCEPT !.buffer = [i \in 1..t.rows |-> 1]]

LEMMA NextTableIs ==
    ASSUME NextTable
    PROVE  /\ phase = "fill" /\ at \in Elements /\ ~ToCopy(at)
           /\ \/ Ends("undefined")
              \/ /\ Goes("fill", at + 1) /\ UNCHANGED <<tables, feed>>
                 /\ ~(Seeded(at) /\ Element(at).mode = "true") /\ table' = table
              \/ /\ Goes("fill", at + 1) /\ UNCHANGED <<tables, feed>>
                 /\ Seeded(at) /\ Element(at).mode = "true" /\ ~(table[at].rows > 0 /\ table[at].lines = 0)
                 /\ table' = [table EXCEPT ![at] = FirstLines(table[at])]
BY DEF NextTable, FirstLines

LEMMA StepSeed ==
    ASSUME SeedOK, [Next]_vars
    PROVE  SeedOK'
<1>1. /\ tpl' = tpl /\ tpl \in Templates /\ Elements' = Elements /\ at \in Nat
      /\ Len(tpl.elements) \in Nat /\ Elements = 1..Len(tpl.elements)
    BY ElementsAre, TemplateStays DEF SeedOK, Elements
<1>2. ASSUME NEW e
      PROVE  Element(e)' = Element(e) /\ Kind(e)' = Kind(e) /\ RowsInText(e)' = RowsInText(e)
    BY <1>1 DEF Element, Kind, RowsInText
<1>3. ASSUME NEW e, NEW t
      PROVE  /\ Lined(e, t)' = Lined(e, t) /\ UnderWay(e, t)' = UnderWay(e, t)
             /\ Laid(e, t)' = Laid(e, t) /\ Done(e, t)' = Done(e, t)
    <2>1. SeedRows(e, t.lines)' = SeedRows(e, t.lines)
        BY <1>2 DEF SeedRows
    <2>2. Lined(e, t)' = Lined(e, t)
        BY <1>2, <2>1 DEF Lined
    <2>3. UnderWay(e, t)' = UnderWay(e, t)
        BY <1>2 DEF UnderWay, Copied
    <2>4. Done(e, t)' = Done(e, t)
        BY <1>2 DEF Done
    <2>. QED
        BY <2>2, <2>3, <2>4 DEF Laid
<1>4. \A e \in tables : e \in Elements /\ Kind(e) = "Table"
    BY DEF SeedOK, TablesOK
<1>5. ASSUME table' = table, tables' = tables
      PROVE  /\ TablesOK'
             /\ \A e \in tables : /\ UnderWay(e, table[e])' = UnderWay(e, table[e])
                                  /\ Laid(e, table[e])' = Laid(e, table[e])
                                  /\ Done(e, table[e])' = Done(e, table[e])
    BY <1>1, <1>2, <1>3, <1>5 DEF SeedOK, TablesOK
<1>6. ASSUME NEW e \in Elements, NEW u, TableShape(u), Lined(e, u), table' = [table EXCEPT ![e] = u],
             tables' = tables
      PROVE  /\ TablesOK' /\ table'[e] = u
             /\ \A d \in Elements : d # e => table'[d] = table[d]
    <2>1. table'[e] = u /\ \A d \in Elements : d # e => table'[d] = table[d]
        BY <1>6 DEF SeedOK, TablesOK
    <2>2. \A d \in Elements : TableShape(table'[d]) /\ Lined(d, table[d])'
        BY <1>3, <1>6, <2>1 DEF SeedOK, TablesOK
    <2>. QED
        BY <1>1, <1>2, <1>4, <1>6, <2>1, <2>2 DEF SeedOK, TablesOK

<1>7. ASSUME table' = table, tables' = tables, feed' \in Nat, at' \in Nat,
             \/ phase' \notin {"initialise", "layout", "process", "release", "fill", "produced"}
             \/ phase' = phase /\ at' = at
             \/ phase = "initialise" /\ phase' = "layout"
             \/ phase = "layout" /\ phase' \in {"layout", "process"} /\ (phase' = "process" => at' = 1)
             \/ phase = "process" /\ phase' = "process" /\ at' = at + 1 /\ Kind(at) # "Table"
             \/ phase = "process" /\ phase' = "release" /\ at = Len(tpl.elements) + 1
             \/ phase = "release" /\ phase' = "fill" /\ at' = 1
             \/ phase = "fill" /\ phase' = "fill" /\ at' = at + 1 /\ (at \in tables => Done(at, table[at]))
             \/ phase = "fill" /\ phase' = "produced" /\ at = Len(tpl.elements) + 1
      PROVE  SeedOK'
    <2>1. \A e \in tables' : e \in Elements /\ Kind(e) = "Table" /\ e \in Nat
        BY <1>1, <1>4, <1>7
    <2>2. phase' \in {"initialise", "layout", "process", "release"} => \A e \in Elements' : table'[e].copied = 0
        BY <1>1, <1>7 DEF SeedOK
    <2>3. phase' = "process" => \A e \in tables' : e < at' => Laid(e, table[e])'
        BY <1>1, <1>5, <1>7, <2>1 DEF SeedOK
    <2>4. phase' = "release" => \A e \in tables' : Laid(e, table[e])'
        BY <1>1, <1>5, <1>7, <2>1 DEF SeedOK
    <2>5. phase' = "fill" => \A e \in tables' : /\ e < at' => Done(e, table[e])'
                                                /\ e = at' => UnderWay(e, table[e])'
                                                /\ e > at' => Laid(e, table[e])'
        <3>1. CASE phase = "release"
            BY <1>1, <1>5, <1>7, <2>1, <3>1 DEF SeedOK, Laid
        <3>2. CASE phase = "fill"
            BY <1>1, <1>5, <1>7, <2>1, <3>2 DEF SeedOK, Laid
        <3>. QED
            BY <1>7, <3>1, <3>2
    <2>6. phase' = "produced" => \A e \in tables' : Done(e, table[e])'
        BY <1>1, <1>5, <1>7, <2>1 DEF SeedOK
    <2>. QED
        BY <1>1, <1>5, <1>7, <2>2, <2>3, <2>4, <2>5, <2>6 DEF SeedOK
<1>. USE DEF Goes, Ends
<1>8. CASE Start
    <2>1. /\ phase' \in {"initialise", "release"} /\ at' = 1 /\ tables' = {} /\ feed' = feed
          /\ \E m, n : table' = [e \in Elements |-> NewTable(m, n)]
        BY <1>8 DEF Start
    <2>2. PICK m, n : table' = [e \in Elements |-> NewTable(m, n)]
        BY <2>1
    <2>3. LET t == NewTable(m, n)
          IN  TableShape(t) /\ t.copied = 0 /\ \A e : Lined(e, t)
        BY DEF TableShape, NewTable, Lined
    <2>. HIDE DEF TableShape
    <2>4. \A e \in Elements : TableShape(table'[e]) /\ table'[e].copied = 0 /\ Lined(e, table[e])'
        BY <1>3, <2>2, <2>3
    <2>5. TablesOK'
        BY <1>1, <2>1, <2>2, <2>4 DEF TablesOK
    <2>. QED
        BY <1>1, <2>1, <2>4, <2>5 DEF SeedOK
<1>9. CASE Initialize
    <2>1. FeedAfter(at) \in Nat \/ at \notin Elements
        BY <1>1, TemplatesAssumption DEF FeedAfter, SeedOK, Element, Elements, Kind
    <2>2. CASE Ends("undefined")
        BY <1>1, <1>7, <2>2 DEF SeedOK, objects
    <2>3. CASE Goes("refused", at) /\ UNCHANGED objects /\ feed' \in {FeedAfter(at), feed} /\ at \in Elements
        BY <1>1, <1>7, <2>1, <2>3 DEF SeedOK, objects
    <2>4. CASE /\ phase = "initialise" /\ at \in Elements /\ tables' = tables \union Mapped(at)
               /\ feed' = FeedAfter(at) /\ Goes("initialise", at + 1) /\ table' = table
        <3>1. TablesOK'
            BY <1>1, <1>2, <1>3, <1>4, <2>4 DEF SeedOK, TablesOK, Mapped
        <3>. QED
            BY <1>1, <2>1, <2>4, <3>1 DEF SeedOK
    <2>. QED
        BY <1>9, <2>2, <2>3, <2>4 DEF Initialize
<1>10. CASE EndOfElements \/ EndOfLayout \/ LoadFiles \/ Release \/ EndOfFill \/ UNCHANGED vars
    BY <1>1, <1>7, <1>10 DEF EndOfElements, EndOfLayout, LoadFiles, Release, EndOfFill, objects, vars, SeedOK
<1>11. CASE ProcessFunction \/ ProcessOther \/ ProcessSubColumn
    BY <1>1, <1>7, <1>11 DEF ProcessFunction, ProcessOther, ProcessSubColumn, IsRedefineRow, objects, SeedOK
<1>12. CASE LayTable
    <2>1. CASE Ends("undefined")
        BY <1>1, <1>7, <2>1 DEF SeedOK, objects
    <2>2. CASE /\ phase = "layout" /\ at \in Elements /\ Goes("layout", at + 1) /\ tables' = tables /\ feed' = feed
               /\ Kind(at) # "Table" /\ table' = table
        BY <1>1, <1>7, <2>2 DEF SeedOK
    <2>3. CASE /\ phase = "layout" /\ at \in Elements /\ Goes("layout", at + 1) /\ tables' = tables /\ feed' = feed
               /\ Kind(at) = "Table" /\ table' = [table EXCEPT ![at] = ProcessItem(at)]
        <3>1. TablesOK' /\ table'[at] = ProcessItem(at) /\ \A d \in Elements : d # at => table'[d] = table[d]
            BY <1>6, <2>3, ItemLined
        <3>2. \A d \in Elements : table'[d].copied = 0
            BY <2>3, <3>1, ItemLined DEF SeedOK
        <3>. QED
            BY <1>1, <2>3, <3>1, <3>2 DEF SeedOK
    <2>. QED
        BY <1>12, <2>1, <2>2, <2>3 DEF LayTable
<1>13. CASE ProcessTable
    <2>1. CASE Ends("refused")
        BY <1>1, <1>7, <2>1 DEF SeedOK, objects
    <2>2. /\ phase = "process" /\ at \in Elements /\ Kind(at) = "Table"
        BY <1>13 DEF ProcessTable
    <2>3. TableShape(table[at]) /\ Lined(at, table[at]) /\ table[at].copied = 0
        BY <2>2 DEF SeedOK, TablesOK
    <2>4. ASSUME NEW rows, Mapping(at, rows), tables' = tables, feed' = feed,
                 Counted(at, table[at], rows)
          PROVE  SeedOK'
        <3>. DEFINE u == Spread(table[at], rows)
        <3>1. TableShape(u) /\ Lined(at, u) /\ Laid(at, u) /\ u.copied = 0
            BY <2>3, <2>4, LaidOut
        <3>2. \/ phase' = "undefined" /\ at' = at /\ table' = table
              \/ phase' = "process" /\ at' = at + 1 /\ table' = [table EXCEPT ![at] = u]
            BY <2>4, MappingMaps DEF Spread
        <3>. HIDE DEF u
        <3>3. CASE phase' = "undefined" /\ at' = at /\ table' = table
            BY <1>1, <1>7, <2>4, <3>3 DEF SeedOK
        <3>4. CASE phase' = "process" /\ at' = at + 1 /\ table' = [table EXCEPT ![at] = u]
            <4>1. TablesOK' /\ table'[at] = u /\ \A d \in Elements : d # at => table'[d] = table[d]
                BY <1>6, <2>2, <2>4, <3>1, <3>4
            <4>2. \A d \in Elements : table'[d].copied = 0
                BY <2>2, <3>1, <4>1 DEF SeedOK
            <4>3. ASSUME NEW d \in tables, d < at' PROVE Laid(d, table[d])'
                <5>1. d \in Elements /\ d \in Nat
                    BY <1>1, <1>4
                <5>2. CASE d = at
                    BY <1>3, <3>1, <4>1, <5>2
                <5>3. CASE d # at
                    <6>1. Laid(d, table[d]) /\ table'[d] = table[d]
                        BY <1>1, <2>2, <3>4, <4>1, <4>3, <5>1, <5>3 DEF SeedOK
                    <6>. QED
                        BY <1>3, <6>1
                <5>. QED
                    BY <5>2, <5>3
            <4>. QED
                BY <1>1, <2>4, <3>4, <4>1, <4>2, <4>3 DEF SeedOK
        <3>. QED
            BY <3>2, <3>3, <3>4
    <2>5. CASE /\ Element(at).rowNum.kind \in {"number", "perFlow"} /\ Mapping(at, RowsOf(at))
               /\ tables' = tables /\ feed' = feed
        <3>1. RowsInText(at) \in Int
            BY <1>1, <2>2, TemplatesAssumption DEF RowsInText, Element, Elements, Kind
        <3>2. table[at].seedRows # 0 => Element(at).rowNum.kind = "number"
            BY <2>3, <2>5 DEF Lined, SeedRows
        <3>3. RowsInText(at) % Word \in Nat /\ Word - 2 \in Nat
            BY <3>1, ParserAssumption
        <3>4. table[at].seedRows # 0 =>
                  /\ RowsOf(at) \in Nat
                  /\ RowsOf(at) = RowsInText(at) % Word \/ (RowsInText(at) % Word = 0 /\ RowsOf(at) = Word - 2)
            BY <3>3 DEF RowsOf
        <3>. QED
            BY <2>4, <2>5, <3>2, <3>4 DEF Counted
    <2>6. CASE Asks(at) /\ (\E rows : Mapping(at, rows)) /\ tables' = tables /\ feed' = feed
        <3>1. table[at].seedRows = 0
            <4>1. Element(at).rowNum.kind = "function" /\ RowsInText(at) = 0
                BY <2>6 DEF Asks, RowsInText
            <4>2. 0 % Word = 0
                BY ParserAssumption
            <4>. QED
                BY <2>3, <4>1, <4>2 DEF Lined, SeedRows
        <3>. QED
            BY <2>4, <2>6, <3>1 DEF Counted
    <2>. QED
        BY <1>13, <2>1, <2>5, <2>6 DEF ProcessTable
<1>14. CASE CopySeed
    <2>. DEFINE t == table[at]
                after == t.copied + Chunk(t)
                rows == [i \in 1..t.rows |-> IF i \in (t.copied + 1)..after THEN i - t.copied ELSE t.buffer[i]]
                u == [t EXCEPT !.copied = after, !.buffer = rows]
    <2>1. CASE Ends("undefined")
        BY <1>1, <1>7, <2>1 DEF SeedOK, objects
    <2>2. CASE /\ phase = "fill" /\ at \in Elements /\ ToCopy(at) /\ ~(after > t.rows \/ Chunk(t) > t.lines)
               /\ table' = [table EXCEPT ![at] = u]
               /\ Goes("fill", at) /\ tables' = tables /\ feed' = feed
        <3>1. TableShape(t) /\ Lined(at, t) /\ UnderWay(at, t)
            BY <2>2 DEF SeedOK, TablesOK, ToCopy, Seeded
        <3>2. t.seedRows # 0 /\ Element(at).mode = "false" /\ t.copied < t.rows
            BY <2>2 DEF ToCopy, Seeded
        <3>3. after <= t.rows /\ Chunk(t) <= t.lines
            <4>1. t.rows \in Nat /\ t.lines \in Nat /\ t.seedRows \in Nat /\ t.copied \in Nat
                BY <3>1, <3>2 DEF Lined, UnderWay
            <4>. QED
                BY <2>2, <4>1 DEF Chunk
        <3>4. TableShape(u) /\ Lined(at, u) /\ UnderWay(at, u)
            <4>1. after = t.copied + Chunk(t) /\ u = [t EXCEPT !.copied = after, !.buffer = rows]
                OBVIOUS
            <4>2. rows = [i \in 1..t.rows |-> IF i \in (t.copied + 1)..after THEN i - t.copied ELSE t.buffer[i]]
                OBVIOUS
            <4>. HIDE DEF t, after, rows, u
            <4>. QED
                BY <1>1, <2>2, <3>1, <3>2, <3>3, <4>1, <4>2, CopyGoesOn
        <3>5. table' = [table EXCEPT ![at] = u]
            BY <2>2
        <3>. HIDE DEF u
        <3>6. TablesOK' /\ table'[at] = u /\ \A d \in Elements : d # at => table'[d] = table[d]
            BY <1>6, <2>2, <3>4, <3>5
        <3>7. ASSUME NEW d \in tables
              PROVE  /\ d < at' => Done(d, table[d])'
                     /\ d = at' => UnderWay(d, table[d])'
                     /\ d > at' => Laid(d, table[d])'
            <4>1. CASE d = at
                BY <1>1, <1>3, <2>2, <3>4, <3>6, <4>1
            <4>2. CASE d # at
                <5>1. table'[d] = table[d]
                    BY <1>4, <3>6, <4>2
                <5>. QED
                    BY <1>3, <2>2, <4>2, <5>1 DEF SeedOK
            <4>. QED
                BY <4>1, <4>2
        <3>. QED
            BY <1>1, <2>2, <3>6, <3>7 DEF SeedOK
    <2>. QED
        BY <1>14, <2>1, <2>2 DEF CopySeed
<1>15. CASE NextTable
    <2>. DEFINE t == table[at]
                first == Seeded(at) /\ Element(at).mode = "true"
                u == FirstLines(t)
    <2>1. CASE Ends("undefined")
        BY <1>1, <1>7, <2>1 DEF SeedOK, objects
    <2>2. CASE /\ phase = "fill" /\ at \in Elements /\ ~ToCopy(at) /\ Goes("fill", at + 1)
               /\ tables' = tables /\ feed' = feed /\ ~first /\ table' = table
        <3>1. at \in tables => TableShape(t) /\ Lined(at, t) /\ UnderWay(at, t)
            BY <1>1, <2>2 DEF SeedOK, TablesOK
        <3>2. CASE at \in tables /\ t.seedRows # 0
            <4>1. Element(at).mode = "false" => ~(t.copied < t.rows)
                BY <2>2, <3>2 DEF ToCopy, Seeded
            <4>2. Element(at).mode # "true"
                BY <2>2, <3>2 DEF Seeded
            <4>3. Done(at, t)
                BY <1>1, <2>2, <3>1, <3>2, <4>1, <4>2, DoneAtEnd
            <4>. QED
                BY <1>1, <1>7, <2>2, <4>3 DEF SeedOK
        <3>3. CASE ~(at \in tables /\ t.seedRows # 0)
            <4>1. at \in tables => Done(at, t)
                BY <3>3 DEF Done
            <4>. QED
                BY <1>1, <1>7, <2>2, <4>1 DEF SeedOK
        <3>. QED
            BY <3>2, <3>3
    <2>3. CASE /\ phase = "fill" /\ at \in Elements /\ Goes("fill", at + 1)
               /\ tables' = tables /\ feed' = feed /\ first /\ ~(t.rows > 0 /\ t.lines = 0)
               /\ table' = [table EXCEPT ![at] = u]
        <3>1. TableShape(t) /\ Lined(at, t) /\ UnderWay(at, t) /\ t.seedRows # 0
            BY <1>1, <2>3 DEF SeedOK, TablesOK, Seeded
        <3>2. TableShape(u) /\ Lined(at, u) /\ Done(at, u)
            BY <1>1, <2>3, <3>1, DoneAtEnd DEF FirstLines
        <3>3. table' = [table EXCEPT ![at] = u]
            BY <2>3
        <3>. HIDE DEF u
        <3>4. TablesOK' /\ table'[at] = u /\ \A d \in Elements : d # at => table'[d] = table[d]
            BY <1>6, <2>3, <3>2, <3>3
        <3>5. ASSUME NEW d \in tables
              PROVE  /\ d < at' => Done(d, table[d])'
                     /\ d = at' => UnderWay(d, table[d])'
                     /\ d > at' => Laid(d, table[d])'
            <4>1. d \in Elements /\ d \in Nat
                BY <1>1, <1>4
            <4>2. CASE d = at
                BY <1>1, <1>3, <2>3, <3>2, <3>4, <4>1, <4>2
            <4>3. CASE d # at
                <5>1. table'[d] = table[d]
                    BY <3>4, <4>1, <4>3
                <5>. QED
                    BY <1>1, <1>3, <2>3, <4>1, <4>3, <5>1 DEF SeedOK, Laid
            <4>. QED
                BY <4>2, <4>3
        <3>. QED
            BY <1>1, <2>3, <3>4, <3>5 DEF SeedOK
    <2>. QED
        BY <1>15, <2>1, <2>2, <2>3, NextTableIs
<1>. QED
    BY <1>8, <1>9, <1>10, <1>11, <1>12, <1>13, <1>14, <1>15 DEF Next

\* When the production begins the rows of a table hold the lines of its seed in turn, no more
\* of them than were read and than the table has rows, for every set of templates and width of
\* the numbers.
THEOREM SeedCopied == Spec => []SeedIsCopied
<1>1. Init => SeedOK
    <2>1. LET t == NewTable(0, 0) IN TableShape(t) /\ \A e : Lined(e, t)
        BY DEF TableShape, NewTable, Lined
    <2>2. Init => table = [e \in Elements |-> table[e]] /\ \A e \in Elements : table[e] = NewTable(0, 0)
        BY DEF Init
    <2>3. Init => TablesOK
        BY <2>1, <2>2 DEF TablesOK, Init
    <2>. QED
        BY <2>3 DEF Init, SeedOK
<1>2. SeedOK => SeedIsCopied
    <2>1. SeedOK /\ phase = "produced" => \A e \in tables : Done(e, table[e])
        BY DEF SeedOK
    <2>. QED
        BY <2>1 DEF SeedIsCopied, Seeded, Done, LineOfRow
<1>. QED
    BY <1>1, <1>2, StepSeed, PTL DEF Spec

-----------------------------------------------------------------------------
(* The parameters of the functions.                                        *)

LEMMA Least ==
    ASSUME NEW T \in SUBSET Nat, T # {}
    PROVE  \E m \in T : \A k \in T : m <= k
<1>. DEFINE R == OpToRel(<, Nat)
<1>1. IsWellFoundedOn(R, Nat)
    BY NatLessThanWellFounded
<1>. HIDE DEF R
<1>2. \E x \in T : \A y \in T : ~(<<y, x>> \in R)
    BY <1>1, WFMin
<1>3. \A x, y \in Nat : <<y, x>> \in R <=> y < x
    BY DEF R, OpToRel
<1>4. PICK x \in T : \A y \in T : ~(<<y, x>> \in R)
    BY <1>2
<1>5. \A y \in T : ~(y < x)
    BY <1>3, <1>4
<1>. QED
    BY <1>4, <1>5

\* What the recursive function is: the parameters of e, one more with each that is its own.
LEMMA ParametersAre ==
    ASSUME NEW e
    PROVE  /\ Parameters(e, 0) = <<>>
           /\ \A k \in Nat \ {0} :
                 Parameters(e, k) = IF IsParameterOf(k, e) THEN Append(Parameters(e, k - 1), k)
                                    ELSE Parameters(e, k - 1)
<1>. DEFINE step(x, i) == IF IsParameterOf(i, e) THEN Append(x, i) ELSE x
            to(g, n) == /\ DOMAIN g = 0..n /\ g[0] = <<>>
                        /\ \A i \in 1..n : g[i] = step(g[i - 1], i)
<1>. HIDE DEF step
<1>1. \A n \in Nat : \E g : to(g, n)
    <2>. DEFINE T == {n \in Nat : ~\E g : to(g, n)}
    <2>. SUFFICES ASSUME T # {} PROVE FALSE
        OBVIOUS
    <2>1. PICK m \in T : \A k \in T : m <= k
        <3>1. T \in SUBSET Nat
            OBVIOUS
        <3>. HIDE DEF T
        <3>. QED
            BY <3>1, Least
    <2>2. m # 0
        <3>1. to([i \in 0..0 |-> <<>>], 0)
            OBVIOUS
        <3>. QED
            BY <2>1, <3>1
    <2>3. m - 1 \in Nat /\ m - 1 \notin T
        BY <2>1, <2>2
    <2>4. PICK g : to(g, m - 1)
        BY <2>3
    <2>. DEFINE h == [i \in 0..m |-> IF i = m THEN step(g[m - 1], m) ELSE g[i]]
    <2>5. h[0] = <<>> /\ h[m] = step(h[m - 1], m)
        BY <2>1, <2>2, <2>4
    <2>6. ASSUME NEW i \in 1..m PROVE h[i] = step(h[i - 1], i)
        <3>1. CASE i = m
            BY <2>5, <3>1
        <3>2. CASE i # m
            <4>1. i \in 1..(m - 1) /\ i - 1 \in 0..m /\ i - 1 # m /\ i \in 0..m
                BY <2>1, <3>2
            <4>2. h[i] = g[i] /\ h[i - 1] = g[i - 1]
                BY <3>2, <4>1
            <4>. QED
                BY <2>4, <4>1, <4>2
        <3>. QED
            BY <3>1, <3>2
    <2>7. to(h, m)
        BY <2>5, <2>6
    <2>. QED
        BY <2>1, <2>7
<1>2. ASSUME NEW n \in Nat, NEW m \in Nat, NEW g, NEW h, to(g, n), to(h, m), n <= m
      PROVE  \A i \in 0..n : g[i] = h[i]
    <2>. DEFINE T == {i \in 0..n : g[i] # h[i]}
    <2>. SUFFICES ASSUME T # {} PROVE FALSE
        OBVIOUS
    <2>1. PICK i \in T : \A k \in T : i <= k
        <3>1. T \in SUBSET Nat
            OBVIOUS
        <3>. HIDE DEF T
        <3>. QED
            BY <3>1, Least
    <2>2. i # 0
        BY <1>2, <2>1
    <2>3. i \in 1..n /\ i \in 1..m /\ i - 1 \in 0..n /\ i - 1 \notin T
        BY <1>2, <2>1, <2>2
    <2>4. g[i - 1] = h[i - 1]
        BY <2>3
    <2>5. g[i] = step(g[i - 1], i) /\ h[i] = step(h[i - 1], i)
        BY <1>2, <2>3
    <2>. QED
        BY <2>1, <2>4, <2>5
<1>. HIDE DEF to
<1>. DEFINE G(n) == CHOOSE g : to(g, n)
            H == [n \in Nat |-> G(n)[n]]
<1>3. \A n \in Nat : to(G(n), n)
    BY <1>1
<1>. HIDE DEF G
<1>4. \A i \in Nat : H[i] = IF i = 0 THEN <<>> ELSE step(H[i - 1], i)
    <2>. SUFFICES ASSUME NEW i \in Nat PROVE H[i] = IF i = 0 THEN <<>> ELSE step(H[i - 1], i)
        OBVIOUS
    <2>1. to(G(i), i)
        BY <1>3
    <2>2. CASE i = 0
        BY <2>1, <2>2 DEF to
    <2>3. CASE i # 0
        <3>1. i - 1 \in Nat /\ i - 1 <= i /\ i \in 1..i /\ i - 1 \in 0..(i - 1)
            BY <2>3
        <3>2. to(G(i - 1), i - 1)
            BY <1>3, <3>1
        <3>3. G(i - 1)[i - 1] = G(i)[i - 1]
            BY <1>2, <2>1, <3>1, <3>2
        <3>4. G(i)[i] = step(G(i)[i - 1], i)
            BY <2>1, <3>1 DEF to
        <3>. QED
            BY <2>3, <3>1, <3>3, <3>4
    <2>. QED
        BY <2>2, <2>3
<1>. DEFINE among == CHOOSE among : among = [i \in Nat |-> IF i = 0 THEN <<>> ELSE step(among[i - 1], i)]
<1>5. H = [i \in Nat |-> IF i = 0 THEN <<>> ELSE step(H[i - 1], i)]
    BY <1>4
<1>. HIDE DEF H
<1>6. among = [i \in Nat |-> IF i = 0 THEN <<>> ELSE step(among[i - 1], i)]
    BY <1>5
<1>7. \A k : Parameters(e, k) = among[k]
    BY DEF Parameters, step
<1>. HIDE DEF among
<1>8. among[0] = <<>> /\ \A k \in Nat \ {0} : among[k] = step(among[k - 1], k)
    BY <1>6
<1>. QED
    BY <1>7, <1>8 DEF step

\* What a function has of its parameters when the elements before n were laid out: they come
\* again with each table around it, and what is said is of those with one.
GivenAt(e, n) ==
    /\ (\A t \in TablesAround(e) : ~(t < n)) => params[e] = AllParameters(e)
    /\ \A t \in TablesAround(e) :
           TablesAround(e) = {t} /\ t < n => params[e] = AllParameters(e) \o AllParameters(e)

ParametersOK ==
    /\ tpl \in Templates /\ at \in Nat
    /\ params = [e \in Elements |-> params[e]]
    /\ phase = "initialise" => at > 0 /\ \A e \in Elements : params[e] = Parameters(e, at - 1)
    /\ phase = "layout" => \A e \in Elements : Kind(e) \in HaveFunctions => GivenAt(e, at)
    /\ phase = "process" =>
           \A e \in Elements : Kind(e) \in HaveFunctions => GivenAt(e, Len(tpl.elements) + 1)

LEMMA StepParameters ==
    ASSUME ParametersOK, [Next]_vars
    PROVE  ParametersOK'
<1>. DEFINE n == Len(tpl.elements)
<1>1. /\ tpl' = tpl /\ tpl \in Templates /\ Elements' = Elements /\ at \in Nat
      /\ n \in Nat /\ n' = n /\ Elements = 1..n
    BY ElementsAre, TemplateStays DEF ParametersOK, Elements
<1>2. ASSUME NEW e
      PROVE  /\ Element(e)' = Element(e) /\ Kind(e)' = Kind(e) /\ AllParameters(e)' = AllParameters(e)
             /\ TablesAround(e)' = TablesAround(e)
             /\ \A k : Parameters(e, k)' = Parameters(e, k)
    <2>1. \A k : Element(k)' = Element(k) /\ Kind(k)' = Kind(k) /\ IsParameterOf(k, e)' = IsParameterOf(k, e)
        BY <1>1 DEF Element, Kind, IsParameterOf
    <2>2. \A k : Parameters(e, k)' = Parameters(e, k)
        BY <1>1 DEF Parameters, Element, Kind, IsParameterOf
    <2>3. Above' = Above
        BY <1>1 DEF Above, Element, Elements
    <2>. QED
        BY <1>1, <2>1, <2>2, <2>3 DEF AllParameters, TablesAround
<1>3. ASSUME NEW e \in Elements, NEW m, params'[e] = params[e]
      PROVE  GivenAt(e, m)' = GivenAt(e, m)
    BY <1>2, <1>3 DEF GivenAt
<1>4. ASSUME params' = params, at' \in Nat,
             \/ phase' \notin {"initialise", "layout", "process"}
             \/ phase' = phase /\ at' = at
             \/ phase = "process" /\ phase' = "process"
             \/ phase = "layout" /\ phase' = "process" /\ at = n + 1
      PROVE  ParametersOK'
    <2>1. phase' = "initialise" => at' > 0 /\ \A e \in Elements : \A k : k = at' - 1 => params'[e] = Parameters(e, k)'
        BY <1>1, <1>2, <1>4 DEF ParametersOK
    <2>2. phase' = "layout" => \A e \in Elements : Kind(e) \in HaveFunctions => \A k : k = at' => GivenAt(e, k)'
        BY <1>1, <1>3, <1>4 DEF ParametersOK
    <2>3. phase' = "process" => \A e \in Elements : Kind(e) \in HaveFunctions => GivenAt(e, n + 1)'
        BY <1>1, <1>3, <1>4 DEF ParametersOK
    <2>. QED
        BY <1>1, <1>2, <1>4, <2>1, <2>2, <2>3 DEF ParametersOK
<1>. USE DEF Goes, Ends
<1>5. CASE Start
    <2>1. /\ phase' \in {"initialise", "release"} /\ at' = 1 /\ params' = [e \in Elements |-> <<>>]
        BY <1>5 DEF Start
    <2>2. \A e \in Elements : params'[e] = Parameters(e, 0)'
        BY <1>2, <2>1, ParametersAre
    <2>. QED
        BY <1>1, <2>1, <2>2 DEF ParametersOK
<1>6. CASE Initialize
    <2>1. CASE Ends("undefined")
        BY <1>1, <1>4, <2>1 DEF objects
    <2>2. CASE Goes("refused", at) /\ UNCHANGED objects
        BY <1>1, <1>4, <2>2 DEF objects
    <2>3. CASE phase = "initialise" /\ at \in Elements /\ params' = Given(at) /\ Goes("initialise", at + 1)
        <3>1. params' = [e \in Elements |-> params'[e]]
            BY <2>3 DEF Given, ParametersOK
        <3>2. ASSUME NEW e \in Elements
              PROVE  params'[e] = IF IsParameterOf(at, e) THEN Append(params[e], at) ELSE params[e]
            BY <2>3 DEF Given, IsParameterOf, ParametersOK
        <3>3. ASSUME NEW e \in Elements PROVE params'[e] = Parameters(e, at)
            <4>1. params[e] = Parameters(e, at - 1) /\ at \in Nat \ {0}
                <5>1. at > 0 /\ params[e] = Parameters(e, at - 1)
                    BY <2>3 DEF ParametersOK
                <5>. QED
                    BY <1>1, <5>1
            <4>. QED
                BY <3>2, <4>1, ParametersAre
        <3>4. at' = at + 1 /\ at' - 1 = at /\ at' > 0 /\ at' \in Nat
            BY <1>1, <2>3
        <3>. QED
            BY <1>1, <1>2, <2>3, <3>1, <3>3, <3>4 DEF ParametersOK
    <2>. QED
        BY <1>6, <2>1, <2>2, <2>3 DEF Initialize
<1>7. CASE EndOfElements
    <2>1. CASE Ends("refused") /\ UNCHANGED objects
        BY <1>1, <1>4, <2>1 DEF objects
    <2>2. CASE phase = "initialise" /\ at = n + 1 /\ Goes("layout", 1) /\ UNCHANGED objects
        <3>1. params' = params
            BY <2>2 DEF objects
        <3>2. \A e \in Elements : params[e] = AllParameters(e)
            BY <1>1, <2>2 DEF ParametersOK, AllParameters
        <3>3. \A e : TablesAround(e) \subseteq 1..n
            BY <1>1 DEF TablesAround
        <3>4. \A e \in Elements : GivenAt(e, 1)
            BY <1>1, <3>2, <3>3 DEF GivenAt
        <3>. QED
            BY <1>1, <1>3, <2>2, <3>1, <3>4 DEF ParametersOK
    <2>. QED
        BY <1>7, <2>1, <2>2 DEF EndOfElements
<1>8. CASE LayTable
    <2>1. CASE Ends("undefined")
        BY <1>1, <1>4, <2>1 DEF objects
    <2>2. CASE /\ phase = "layout" /\ at \in Elements /\ Goes("layout", at + 1)
               /\ params' = IF Kind(at) = "Table" THEN GivenAgain(at) ELSE params
        <3>1. params' = [e \in Elements |-> params'[e]]
            BY <2>2 DEF GivenAgain, ParametersOK
        <3>2. ASSUME NEW e \in Elements, Kind(e) \in HaveFunctions
              PROVE  params'[e] = IF at \in TablesAround(e) THEN params[e] \o AllParameters(e) ELSE params[e]
            BY <2>2, <3>2 DEF GivenAgain, Below, TablesAround
        <3>3. ASSUME NEW e \in Elements, Kind(e) \in HaveFunctions, NEW k, k = at + 1
              PROVE  GivenAt(e, k)'
            <4>1. GivenAt(e, at)
                BY <2>2, <3>3 DEF ParametersOK
            <4>2. k \in Nat /\ at < k /\ \A t \in TablesAround(e) : t < k <=> t < at \/ t = at
                BY <1>1, <3>3 DEF TablesAround
            <4>3. TablesAround(e)' = TablesAround(e) /\ AllParameters(e)' = AllParameters(e)
                BY <1>2
            <4>4. CASE at \in TablesAround(e)
                <5>1. params'[e] = params[e] \o AllParameters(e)
                    BY <3>2, <3>3, <4>4
                <5>2. TablesAround(e) = {at} => params[e] = AllParameters(e)
                    BY <1>1, <4>1 DEF GivenAt
                <5>3. \A t : TablesAround(e) = {t} => t = at
                    BY <4>4
                <5>. QED
                    BY <4>2, <4>3, <4>4, <5>1, <5>2, <5>3 DEF GivenAt
            <4>5. CASE at \notin TablesAround(e)
                <5>1. params'[e] = params[e]
                    BY <3>2, <3>3, <4>5
                <5>2. \A t \in TablesAround(e) : t < k <=> t < at
                    BY <4>2, <4>5
                <5>. QED
                    BY <4>1, <4>3, <5>1, <5>2 DEF GivenAt
            <4>. QED
                BY <4>4, <4>5
        <3>4. at' = at + 1 /\ at' \in Nat /\ phase' = "layout"
            BY <1>1, <2>2
        <3>. QED
            BY <1>1, <1>2, <3>1, <3>3, <3>4 DEF ParametersOK
    <2>. QED
        BY <1>8, <2>1, <2>2 DEF LayTable
<1>9. CASE EndOfLayout \/ LoadFiles \/ Release \/ CopySeed \/ NextTable \/ EndOfFill \/ UNCHANGED vars
    BY <1>1, <1>4, <1>9 DEF EndOfLayout, LoadFiles, Release, CopySeed, NextTable, EndOfFill, objects, vars
<1>10. CASE ProcessFunction \/ ProcessOther \/ ProcessSubColumn
    BY <1>1, <1>4, <1>10 DEF ProcessFunction, ProcessOther, ProcessSubColumn, objects
<1>11. CASE ProcessTable
    BY <1>1, <1>4, <1>11, MappingGoes DEF ProcessTable, objects
<1>. QED
    BY <1>5, <1>6, <1>7, <1>8, <1>9, <1>10, <1>11 DEF Next

\* The function of a column in a table is processed with all its parameters twice over, in
\* their order, and one outside the tables with all of them once, for every set of templates.
THEOREM ParametersGivenTwice == Spec => []ParametersTwice
<1>1. Init => ParametersOK
    BY DEF Init, ParametersOK
<1>2. ParametersOK => ParametersTwice
    <2>. SUFFICES ASSUME ParametersOK, phase = "process", NEW e \in Elements, Kind(e) \in HaveFunctions
                  PROVE  /\ TablesAround(e) = {} => params[e] = AllParameters(e)
                         /\ Cardinality(TablesAround(e)) = 1 => params[e] = AllParameters(e) \o AllParameters(e)
        BY DEF ParametersTwice
    <2>1. GivenAt(e, Len(tpl.elements) + 1)
        BY DEF ParametersOK
    <2>2. Elements = 1..Len(tpl.elements) /\ Len(tpl.elements) \in Nat
        BY ElementsAre DEF ParametersOK
    <2>3. ASSUME Cardinality(TablesAround(e)) = 1
          PROVE  \E t \in TablesAround(e) : TablesAround(e) = {t}
        <3>1. IsFiniteSet(Elements)
            BY <2>2, FS_Interval
        <3>2. TablesAround(e) \in SUBSET Elements
            BY DEF TablesAround
        <3>3. IsFiniteSet(TablesAround(e))
            BY <3>1, <3>2, FS_Subset
        <3>. QED
            BY <2>3, <3>3, FS_Singleton
    <2>4. \A t \in TablesAround(e) : t < Len(tpl.elements) + 1
        BY <2>2 DEF TablesAround
    <2>. QED
        BY <2>1, <2>3, <2>4 DEF GivenAt
<1>. QED
    BY <1>1, <1>2, StepParameters, PTL DEF Spec

-----------------------------------------------------------------------------
(* Folds: the sum of the values of a function, and a function that reads   *)
(* its parameters one after another.                                       *)

LEMMA Smallest ==
    ASSUME NEW T \in SUBSET Nat, T # {}
    PROVE  \E m \in T : m \in Nat /\ (m # 0 => m - 1 \in Nat /\ m - 1 \notin T)
<1>1. PICK m \in T : \A k \in T : m <= k
    BY Least
<1>2. m \in Nat /\ (m # 0 => m - 1 \in Nat)
    OBVIOUS
<1>3. m - 1 \notin T
    BY <1>1, <1>2
<1>. QED
    BY <1>2, <1>3

LEMMA Greatest ==
    ASSUME NEW n \in Nat, NEW T \in SUBSET (1..n), T # {}
    PROVE  \E m \in T : \A k \in T : m >= k
<1>. DEFINE above == {k \in 0..n : \A j \in T : j <= k}
<1>1. n \in above
    OBVIOUS
<1>2. PICK m \in above : m \in Nat /\ (m # 0 => m - 1 \in Nat /\ m - 1 \notin above)
    <2>1. above \in SUBSET Nat /\ above # {}
        BY <1>1
    <2>. HIDE DEF above
    <2>. QED
        BY <2>1, Smallest
<1>3. m # 0
    <2>1. PICK j \in T : j \in 1..n
        OBVIOUS
    <2>. QED
        BY <1>2, <2>1
<1>4. PICK j \in T : ~(j <= m - 1)
    BY <1>2, <1>3
<1>5. j = m
    BY <1>2, <1>3, <1>4
<1>. QED
    BY <1>5

AnyOf(s) == CHOOSE x \in s : TRUE

\* The sum of the values of a function over a part of its domain, as FoldFunction has it, is that
\* of the rest and of any one of them, whichever the fold begins with.
LEMMA SumsAre ==
    ASSUME NEW S, IsFiniteSet(S), NEW r \in [S -> Int]
    PROVE  \E sum \in [SUBSET S -> Int] :
               /\ sum[{}] = 0
               /\ \A T \in SUBSET S : \A x \in T : sum[T] = r[x] + sum[T \ {x}]
               /\ \A T \in SUBSET S : SumOf([e \in T |-> r[e]]) = sum[T]
<1>. DEFINE Upto(n) == {T \in SUBSET S : Cardinality(T) <= n}
            to(g, n) == /\ g \in [Upto(n) -> Int] /\ g[{}] = 0
                        /\ \A T \in Upto(n) : T # {} => g[T] = r[AnyOf(T)] + g[T \ {AnyOf(T)}]
<1>1. ASSUME NEW T \in SUBSET S
      PROVE  /\ IsFiniteSet(T) /\ Cardinality(T) \in Nat /\ Cardinality(T) <= Cardinality(S)
             /\ Cardinality(T) = 0 <=> T = {}
             /\ \A x \in T : T \ {x} \in SUBSET S /\ Cardinality(T \ {x}) = Cardinality(T) - 1
             /\ T # {} => AnyOf(T) \in T
    <2>1. IsFiniteSet(T) /\ Cardinality(T) <= Cardinality(S)
        BY FS_Subset
    <2>2. Cardinality(T) \in Nat /\ (Cardinality(T) = 0 <=> T = {})
        BY <2>1, FS_CardinalityType, FS_EmptySet
    <2>3. \A x \in T : Cardinality(T \ {x}) = Cardinality(T) - 1
        BY <2>1, FS_RemoveElement
    <2>. QED
        BY <2>1, <2>2, <2>3 DEF AnyOf
<1>2. \A n \in Nat : \E g : to(g, n)
    <2>. DEFINE bad == {n \in Nat : ~\E g : to(g, n)}
    <2>. SUFFICES ASSUME bad # {} PROVE FALSE
        OBVIOUS
    <2>1. PICK m \in bad : m \in Nat /\ (m # 0 => m - 1 \in Nat /\ m - 1 \notin bad)
        <3>1. bad \in SUBSET Nat
            OBVIOUS
        <3>. HIDE DEF bad
        <3>. QED
            BY <3>1, Smallest
    <2>2. m # 0
        <3>1. \A T \in Upto(0) : T = {}
            BY <1>1
        <3>2. to([T \in Upto(0) |-> 0], 0)
            BY <3>1, FS_EmptySet
        <3>3. \E g : to(g, 0)
            BY <3>2
        <3>. HIDE DEF to
        <3>. QED
            BY <3>3
    <2>3. m - 1 \in Nat /\ m - 1 \notin bad
        BY <2>1, <2>2
    <2>4. PICK g : to(g, m - 1)
        BY <2>3
    <2>. DEFINE h == [T \in Upto(m) |-> IF T = {} THEN 0 ELSE r[AnyOf(T)] + g[T \ {AnyOf(T)}]]
    <2>5. ASSUME NEW T \in Upto(m), T # {}
          PROVE  AnyOf(T) \in S /\ T \ {AnyOf(T)} \in Upto(m - 1) /\ T \ {AnyOf(T)} \in Upto(m)
        BY <1>1, <2>1, <2>5
    <2>6. {} \in Upto(m) /\ h[{}] = 0
        BY <2>1, FS_EmptySet
    <2>7. ASSUME NEW T \in Upto(m - 1) PROVE T \in Upto(m) /\ h[T] = g[T]
        <3>1. Cardinality(T) <= m - 1 /\ Cardinality(T) \in Nat /\ m \in Nat /\ T \in SUBSET S
            BY <1>1, <2>1
        <3>2. T \in Upto(m)
            BY <3>1
        <3>. QED
            BY <2>4, <3>2
    <2>8. h \in [Upto(m) -> Int]
        BY <2>4, <2>5
    <2>9. \A T \in Upto(m) : T # {} => h[T] = r[AnyOf(T)] + h[T \ {AnyOf(T)}]
        BY <2>5, <2>7
    <2>10. to(h, m)
        BY <2>6, <2>8, <2>9
    <2>. QED
        BY <2>1, <2>10
<1>3. PICK sum : to(sum, Cardinality(S))
    BY <1>1, <1>2
<1>4. Upto(Cardinality(S)) = SUBSET S
    BY <1>1
<1>5. /\ sum \in [SUBSET S -> Int] /\ sum[{}] = 0
      /\ \A T \in SUBSET S : T # {} => sum[T] = r[AnyOf(T)] + sum[T \ {AnyOf(T)}]
    BY <1>3, <1>4
<1>. HIDE DEF Upto, to
<1>6. \A T \in SUBSET S : \A x \in T : sum[T] = r[x] + sum[T \ {x}]
    <2>. DEFINE fair(T) == \A x \in T : sum[T] = r[x] + sum[T \ {x}]
                bad == {n \in Nat : \E T \in SUBSET S : Cardinality(T) = n /\ ~fair(T)}
    <2>. SUFFICES ASSUME bad # {} PROVE FALSE
        BY <1>1
    <2>1. PICK m \in bad : m \in Nat /\ (m # 0 => m - 1 \in Nat /\ m - 1 \notin bad)
        <3>1. bad \in SUBSET Nat
            OBVIOUS
        <3>. HIDE DEF bad
        <3>. QED
            BY <3>1, Smallest
    <2>2. PICK T \in SUBSET S : Cardinality(T) = m /\ ~fair(T)
        BY <2>1
    <2>3. PICK x \in T : sum[T] # r[x] + sum[T \ {x}]
        BY <2>2
    <2>. DEFINE c == AnyOf(T)
    <2>4. c \in T /\ sum[T] = r[c] + sum[T \ {c}] /\ c # x
        BY <1>1, <1>5, <2>3
    <2>5. ASSUME NEW y \in T PROVE fair(T \ {y})
        <3>1. Cardinality(T \ {y}) = m - 1 /\ T \ {y} \in SUBSET S
            BY <1>1, <2>2
        <3>2. m # 0
            BY <1>1, <2>2
        <3>. QED
            BY <2>1, <3>1, <3>2
    <2>6. sum[T \ {c}] = r[x] + sum[(T \ {c}) \ {x}] /\ sum[T \ {x}] = r[c] + sum[(T \ {x}) \ {c}]
        BY <2>4, <2>5
    <2>7. (T \ {c}) \ {x} = (T \ {x}) \ {c} /\ (T \ {x}) \ {c} \in SUBSET S
        OBVIOUS
    <2>8. r[x] \in Int /\ r[c] \in Int /\ sum[(T \ {x}) \ {c}] \in Int
        BY <1>5, <2>4, <2>7
    <2>9. \A a, b, d \in Int : a + (b + d) = b + (a + d)
        OBVIOUS
    <2>. DEFINE rest == sum[(T \ {x}) \ {c}]
    <2>. HIDE DEF c
    <2>10. sum[T \ {c}] = r[x] + rest /\ sum[T \ {x}] = r[c] + rest
        BY <2>6, <2>7
    <2>11. rest \in Int
        BY <2>8
    <2>. HIDE DEF rest
    <2>12. r[x] + (r[c] + rest) = r[c] + (r[x] + rest)
        BY <2>8, <2>9, <2>11
    <2>. QED
        BY <2>3, <2>4, <2>10, <2>12
<1>7. ASSUME NEW T \in SUBSET S
      PROVE  SumOf([e \in T |-> r[e]]) = sum[T]
    <2>. DEFINE q == [e \in T |-> r[e]]
                iter == CHOOSE iter :
                            iter = [s \in SUBSET T |-> IF s = {} THEN 0 ELSE q[AnyOf(s)] + iter[s \ {AnyOf(s)}]]
                H == [s \in SUBSET T |-> sum[s]]
    <2>1. DOMAIN q = T
        OBVIOUS
    <2>2. SumOf(q) = iter[T]
        BY <2>1 DEF SumOf, FoldFunction, FoldFunctionOnSet, MapThenFoldSet, AnyOf
    <2>3. \A s \in SUBSET T : s # {} => AnyOf(s) \in s /\ q[AnyOf(s)] = r[AnyOf(s)]
        BY <1>1
    <2>. HIDE DEF q
    <2>4. H = [s \in SUBSET T |-> IF s = {} THEN 0 ELSE q[AnyOf(s)] + H[s \ {AnyOf(s)}]]
        BY <1>5, <2>3
    <2>. HIDE DEF H
    <2>5. iter = [s \in SUBSET T |-> IF s = {} THEN 0 ELSE q[AnyOf(s)] + iter[s \ {AnyOf(s)}]]
        BY <2>4
    <2>. HIDE DEF iter
    <2>6. \A s \in SUBSET T : iter[s] = IF s = {} THEN 0 ELSE q[AnyOf(s)] + iter[s \ {AnyOf(s)}]
        BY <2>5
    <2>7. \A s \in SUBSET T : iter[s] = sum[s]
        <3>. DEFINE bad == {n \in Nat : \E s \in SUBSET T : Cardinality(s) = n /\ iter[s] # sum[s]}
        <3>. SUFFICES ASSUME bad # {} PROVE FALSE
            BY <1>1
        <3>1. PICK m \in bad : m \in Nat /\ (m # 0 => m - 1 \in Nat /\ m - 1 \notin bad)
            <4>1. bad \in SUBSET Nat
                OBVIOUS
            <4>. HIDE DEF bad
            <4>. QED
                BY <4>1, Smallest
        <3>2. PICK s \in SUBSET T : Cardinality(s) = m /\ iter[s] # sum[s]
            BY <3>1
        <3>3. s # {} /\ s \in SUBSET S
            BY <1>5, <2>6, <3>2
        <3>4. AnyOf(s) \in s /\ Cardinality(s \ {AnyOf(s)}) = m - 1 /\ m # 0
            BY <1>1, <3>2, <3>3
        <3>5. iter[s \ {AnyOf(s)}] = sum[s \ {AnyOf(s)}]
            BY <3>1, <3>4
        <3>. QED
            BY <1>5, <2>3, <2>6, <3>2, <3>3, <3>5
    <2>. QED
        BY <2>2, <2>7 DEF q
<1>. QED
    BY <1>5, <1>6, <1>7

\* One more value.
LEMMA SumAdds ==
    ASSUME NEW T, IsFiniteSet(T), NEW x, x \notin T, NEW r \in [T \union {x} -> Int]
    PROVE  /\ SumOf([e \in T |-> r[e]]) \in Int
           /\ SumOf([e \in T \union {x} |-> r[e]]) = SumOf([e \in T |-> r[e]]) + r[x]
<1>. DEFINE S == T \union {x}
<1>1. IsFiniteSet(S)
    BY FS_AddElement
<1>2. S \ {x} = T /\ x \in S /\ S \in SUBSET S /\ T \in SUBSET S /\ r \in [S -> Int]
    OBVIOUS
<1>. HIDE DEF S
<1>3. PICK sum \in [SUBSET S -> Int] :
               /\ sum[{}] = 0
               /\ \A U \in SUBSET S : \A y \in U : sum[U] = r[y] + sum[U \ {y}]
               /\ \A U \in SUBSET S : SumOf([e \in U |-> r[e]]) = sum[U]
    BY <1>1, <1>2, SumsAre, Zenon
<1>4. sum[T] \in Int /\ r[x] \in Int /\ sum[S] = r[x] + sum[T]
    BY <1>2, <1>3
<1>5. SumOf([e \in S |-> r[e]]) = sum[S] /\ SumOf([e \in T |-> r[e]]) = sum[T]
    BY <1>2, <1>3
<1>. QED
    BY <1>4, <1>5 DEF S

LEMMA SumOfNone == SumOf([e \in {} |-> 0]) = 0
<1>. DEFINE r == [e \in {} |-> 0]
<1>1. IsFiniteSet({}) /\ r \in [{} -> Int] /\ {} \in SUBSET {}
    BY FS_EmptySet
<1>. HIDE DEF r
<1>2. PICK sum \in [SUBSET {} -> Int] :
          /\ sum[{}] = 0
          /\ \A T \in SUBSET {} : \A x \in T : sum[T] = r[x] + sum[T \ {x}]
          /\ \A T \in SUBSET {} : SumOf([e \in T |-> r[e]]) = sum[T]
    BY <1>1, SumsAre, Zenon
<1>3. SumOf([e \in {} |-> r[e]]) = 0
    BY <1>1, <1>2
<1>4. [e \in {} |-> r[e]] = [e \in {} |-> 0]
    OBVIOUS
<1>. QED
    BY <1>3, <1>4

\* Reading the parameters one after another, as FoldLeft has it.
LEMMA ReadsAre ==
    ASSUME NEW f, NEW s, NEW n \in Nat, DOMAIN s = 1..n
    PROVE  \E g : /\ g[0] = f /\ ReadParameters(f, s) = g[n]
                  /\ \A i \in 1..n : g[i] = ReadParameter(g[i - 1], s[i])
<1>. DEFINE S == 1..n
            step(x, i) == ReadParameter(x, s[i])
            Upto(k) == {T \in SUBSET S : Cardinality(T) <= k}
            to(g, k) == \A T \in Upto(k) : g[T] = IF T = {} THEN f ELSE step(g[T \ {Max(T)}], Max(T))
            iter == CHOOSE iter :
                        iter = [T \in SUBSET S |-> IF T = {} THEN f ELSE step(iter[T \ {Max(T)}], Max(T))]
<1>1. ReadParameters(f, s) = iter[S]
    BY DEF ReadParameters, FoldLeft, MapThenFoldSet
<1>. HIDE DEF step, iter
<1>2. ASSUME NEW T \in SUBSET S
      PROVE  /\ IsFiniteSet(T) /\ Cardinality(T) \in Nat /\ Cardinality(T) <= Cardinality(S)
             /\ Cardinality(T) = 0 <=> T = {}
             /\ T # {} => /\ Max(T) \in T /\ T \ {Max(T)} \in SUBSET S
                          /\ Cardinality(T \ {Max(T)}) = Cardinality(T) - 1
    <2>1. IsFiniteSet(S)
        BY FS_Interval
    <2>2. IsFiniteSet(T) /\ Cardinality(T) <= Cardinality(S)
        BY <2>1, FS_Subset
    <2>3. Cardinality(T) \in Nat /\ (Cardinality(T) = 0 <=> T = {})
        BY <2>2, FS_CardinalityType, FS_EmptySet
    <2>4. T # {} => Max(T) \in T
        BY Greatest DEF Max
    <2>5. \A x \in T : Cardinality(T \ {x}) = Cardinality(T) - 1
        BY <2>2, FS_RemoveElement
    <2>. QED
        BY <2>2, <2>3, <2>4, <2>5
<1>3. \A k \in Nat : \E g : to(g, k)
    <2>. DEFINE bad == {k \in Nat : ~\E g : to(g, k)}
    <2>. SUFFICES ASSUME bad # {} PROVE FALSE
        OBVIOUS
    <2>1. PICK m \in bad : m \in Nat /\ (m # 0 => m - 1 \in Nat /\ m - 1 \notin bad)
        <3>1. bad \in SUBSET Nat
            OBVIOUS
        <3>. HIDE DEF bad
        <3>. QED
            BY <3>1, Smallest
    <2>2. m # 0
        <3>1. ASSUME NEW T \in Upto(0) PROVE T = {}
            <4>1. T \in SUBSET S /\ Cardinality(T) <= 0
                OBVIOUS
            <4>2. Cardinality(T) \in Nat /\ (Cardinality(T) = 0 => T = {})
                BY <1>2, <4>1
            <4>. QED
                BY <4>1, <4>2
        <3>2. to([T \in Upto(0) |-> f], 0)
            BY <3>1
        <3>3. \E g : to(g, 0)
            BY <3>2
        <3>. HIDE DEF to
        <3>. QED
            BY <3>3
    <2>3. PICK g : to(g, m - 1)
        BY <2>1, <2>2
    <2>. DEFINE h == [T \in Upto(m) |-> IF T = {} THEN f ELSE step(g[T \ {Max(T)}], Max(T))]
    <2>4. ASSUME NEW T \in Upto(m), T # {}
          PROVE  T \ {Max(T)} \in Upto(m - 1) /\ T \ {Max(T)} \in Upto(m)
        <3>. DEFINE U == T \ {Max(T)}
        <3>1. T \in SUBSET S /\ Cardinality(T) <= m
            BY <2>4
        <3>2. U \in SUBSET S /\ Cardinality(U) = Cardinality(T) - 1 /\ Cardinality(T) \in Nat
            BY <1>2, <2>4, <3>1
        <3>3. Cardinality(U) <= m - 1 /\ Cardinality(U) <= m
            BY <2>1, <3>1, <3>2
        <3>. HIDE DEF U
        <3>4. U \in Upto(m - 1) /\ U \in Upto(m)
            BY <3>2, <3>3
        <3>. QED
            BY <3>4 DEF U
    <2>5. ASSUME NEW T \in Upto(m - 1) PROVE T \in Upto(m) /\ h[T] = g[T]
        <3>1. Cardinality(T) <= m - 1 /\ Cardinality(T) \in Nat /\ m \in Nat /\ T \in SUBSET S
            BY <1>2, <2>1
        <3>2. T \in Upto(m)
            BY <3>1
        <3>. QED
            BY <2>3, <3>2
    <2>6. to(h, m)
        BY <2>4, <2>5
    <2>. QED
        BY <2>1, <2>6
<1>4. PICK H : to(H, Cardinality(S))
    BY <1>2, <1>3
<1>5. Upto(Cardinality(S)) = SUBSET S
    BY <1>2
<1>6. \A T \in SUBSET S : H[T] = IF T = {} THEN f ELSE step(H[T \ {Max(T)}], Max(T))
    BY <1>4, <1>5
<1>. DEFINE h == [T \in SUBSET S |-> H[T]]
<1>7. h = [T \in SUBSET S |-> IF T = {} THEN f ELSE step(h[T \ {Max(T)}], Max(T))]
    BY <1>2, <1>6
<1>. HIDE DEF h
<1>8. iter = [T \in SUBSET S |-> IF T = {} THEN f ELSE step(iter[T \ {Max(T)}], Max(T))]
    BY <1>7 DEF iter
<1>9. \A T \in SUBSET S : iter[T] = IF T = {} THEN f ELSE step(iter[T \ {Max(T)}], Max(T))
    BY <1>8
<1>. DEFINE g == [i \in 0..n |-> iter[1..i]]
<1>10. g[0] = f /\ g[n] = iter[S]
    <2>1. 1..0 = {} /\ {} \in SUBSET S
        OBVIOUS
    <2>. QED
        BY <1>9, <2>1
<1>11. ASSUME NEW i \in 1..n PROVE g[i] = step(g[i - 1], i)
    <2>1. 1..i \in SUBSET S /\ 1..i # {} /\ i \in 1..i /\ \A j \in 1..i : j <= i
        OBVIOUS
    <2>2. Max(1..i) = i
        BY <1>2, <2>1, Greatest DEF Max
    <2>3. (1..i) \ {i} = 1..(i - 1) /\ i - 1 \in 0..n /\ i \in 0..n
        OBVIOUS
    <2>. QED
        BY <1>9, <2>1, <2>2, <2>3
<1>. HIDE DEF g
<1>. QED
    BY <1>1, <1>10, <1>11 DEF step

-----------------------------------------------------------------------------
(* The rows of a total.                                                    *)

ParameterElements == {p \in Elements : Kind(p) = "Parameter"}

LEMMA ParametersListed ==
    ASSUME tpl \in Templates, NEW e
    PROVE  AllParameters(e) \in Seq(ParameterElements)
<1>. DEFINE n == Len(tpl.elements)
            bad == {k \in 0..n : Parameters(e, k) \notin Seq(ParameterElements)}
<1>1. n \in Nat /\ Elements = 1..n
    BY ElementsAre
<1>. SUFFICES ASSUME bad # {} PROVE FALSE
    BY <1>1 DEF AllParameters
<1>2. PICK m \in bad : m \in Nat /\ (m # 0 => m - 1 \in Nat /\ m - 1 \notin bad)
    <2>1. bad \in SUBSET Nat
        BY <1>1
    <2>. HIDE DEF bad
    <2>. QED
        BY <2>1, Smallest
<1>3. m # 0
    <2>1. Parameters(e, 0) = <<>> /\ <<>> \in Seq(ParameterElements)
        BY ParametersAre
    <2>. QED
        BY <2>1
<1>4. m \in 1..n /\ m - 1 \in 0..n
    BY <1>1, <1>2, <1>3
<1>5. Parameters(e, m - 1) \in Seq(ParameterElements)
    BY <1>2, <1>3, <1>4
<1>6. Parameters(e, m) = IF IsParameterOf(m, e) THEN Append(Parameters(e, m - 1), m) ELSE Parameters(e, m - 1)
    <2>1. m \in Nat \ {0}
        BY <1>2, <1>3
    <2>. HIDE DEF bad
    <2>. QED
        BY <2>1, ParametersAre
<1>7. IsParameterOf(m, e) => m \in ParameterElements
    BY <1>1, <1>4 DEF IsParameterOf, ParameterElements
<1>8. Parameters(e, m) \in Seq(ParameterElements)
    BY <1>5, <1>6, <1>7, AppendProperties
<1>. QED
    BY <1>2, <1>8

FunctionOK(f) ==
    /\ FunctionShape(f)
    /\ f.total \in Nat /\ f.left \in 0..(Word - 1) /\ f.percents \in Seq(Nat) /\ f.current \in Nat

IsTotal(p) == Element(p).tag = "TotNumber"

LEMMA ReadKeeps ==
    ASSUME tpl \in Templates, NEW f, FunctionOK(f), NEW p \in ParameterElements
    PROVE  LET g == ReadParameter(f, p)
           IN  /\ FunctionOK(g)
               /\ g.read => f.read /\ (IsTotal(p) \/ f.left = f.total % Word => g.left = g.total % Word)
<1>. DEFINE q == Element(p)
            g == ReadParameter(f, p)
<1>1. q.numbers \in Seq(Nat) /\ (q.tag = "TotNumber" => q.says \in Nat)
    BY TemplatesAssumption DEF ParameterElements, Element, Elements, Kind
<1>2. Word \in Nat \ {0}
    BY ParserAssumption
<1>3. CASE g = [f EXCEPT !.read = FALSE]
    BY <1>3 DEF FunctionOK, FunctionShape
<1>4. CASE /\ f.read
           /\ \/ ~IsTotal(p) /\ g = [f EXCEPT !.source = q.says]
              \/ IsTotal(p) /\ g = [f EXCEPT !.total = q.says, !.left = q.says % Word]
              \/ ~IsTotal(p) /\ g = [f EXCEPT !.percents = @ \o q.numbers]
              \/ ~IsTotal(p) /\ g = [f EXCEPT !.asks = @ \union q.asks]
              \/ ~IsTotal(p) /\ g = f
    <2>1. CASE ~IsTotal(p) /\ g = [f EXCEPT !.source = q.says]
        BY <1>4, <2>1 DEF FunctionOK, FunctionShape
    <2>2. CASE IsTotal(p) /\ g = [f EXCEPT !.total = q.says, !.left = q.says % Word]
        <3>1. q.says \in Nat /\ q.says % Word \in 0..(Word - 1)
            BY <1>1, <1>2, <2>2 DEF IsTotal
        <3>. HIDE DEF q
        <3>. QED
            BY <1>4, <2>2, <3>1 DEF FunctionOK, FunctionShape
    <2>3. CASE ~IsTotal(p) /\ g = [f EXCEPT !.percents = @ \o q.numbers]
        <3>1. f.percents \o q.numbers \in Seq(Nat)
            BY <1>1, ConcatProperties DEF FunctionOK
        <3>. HIDE DEF q
        <3>. QED
            BY <1>4, <2>3, <3>1 DEF FunctionOK, FunctionShape
    <2>4. CASE ~IsTotal(p) /\ g = [f EXCEPT !.asks = @ \union q.asks]
        BY <1>4, <2>4 DEF FunctionOK, FunctionShape
    <2>5. CASE ~IsTotal(p) /\ g = f
        BY <1>4, <2>5
    <2>. QED
        BY <1>4, <2>1, <2>2, <2>3, <2>4, <2>5
<1>5. \/ g = [f EXCEPT !.read = FALSE]
      \/ /\ f.read
         /\ \/ ~IsTotal(p) /\ g = [f EXCEPT !.source = q.says]
            \/ IsTotal(p) /\ g = [f EXCEPT !.total = q.says, !.left = q.says % Word]
            \/ ~IsTotal(p) /\ g = [f EXCEPT !.percents = @ \o q.numbers]
            \/ ~IsTotal(p) /\ g = [f EXCEPT !.asks = @ \union q.asks]
            \/ ~IsTotal(p) /\ g = f
    BY DEF ReadParameter, IsTotal
<1>. QED
    BY <1>3, <1>4, <1>5

\* A function of a total has it left when its parameters were read.
LEMMA TotalRead ==
    ASSUME tpl \in Templates, NEW f, FunctionOK(f), NEW s \in Seq(ParameterElements)
    PROVE  LET g == ReadParameters(f, s)
           IN  FunctionOK(g) /\ (g.read /\ (\E p \in Range(s) : IsTotal(p)) => g.left = g.total % Word)
<1>. DEFINE n == Len(s)
<1>1. n \in Nat /\ DOMAIN s = 1..n /\ \A i \in 1..n : s[i] \in ParameterElements
    BY LenProperties, ElementOfSeq
<1>. HIDE DEF n
<1>2. PICK g : /\ g[0] = f /\ ReadParameters(f, s) = g[n]
               /\ \A i \in 1..n : g[i] = ReadParameter(g[i - 1], s[i])
    <2>1. n \in Nat /\ DOMAIN s = 1..n
        BY <1>1
    <2>. DEFINE to(g) == /\ g[0] = f /\ ReadParameters(f, s) = g[n]
                        /\ \A i \in 1..n : g[i] = ReadParameter(g[i - 1], s[i])
    <2>2. \E g : to(g)
        BY <2>1, ReadsAre, SMTT(30)
    <2>. QED
        BY <2>2
<1>. DEFINE fine(i) == /\ FunctionOK(g[i])
                       /\ g[i].read /\ (\E j \in 1..i : IsTotal(s[j])) => g[i].left = g[i].total % Word
            bad == {i \in 0..n : ~fine(i)}
<1>3. bad = {}
    <2>. SUFFICES ASSUME bad # {} PROVE FALSE
        OBVIOUS
    <2>1. PICK m \in bad : m \in Nat /\ (m # 0 => m - 1 \in Nat /\ m - 1 \notin bad)
        <3>1. bad \in SUBSET Nat
            BY <1>1
        <3>. HIDE DEF bad
        <3>. QED
            BY <3>1, Smallest
    <2>2. m # 0
        BY <1>2, <2>1
    <2>3. m \in 1..n /\ m - 1 \in 0..n /\ m - 1 \in Nat
        BY <1>1, <2>1, <2>2
    <2>4. fine(m - 1)
        BY <2>1, <2>2, <2>3
    <2>5. g[m] = ReadParameter(g[m - 1], s[m]) /\ s[m] \in ParameterElements
        BY <1>1, <1>2, <2>3
    <2>6. /\ FunctionOK(g[m])
          /\ g[m].read => g[m - 1].read /\ (IsTotal(s[m]) \/ g[m - 1].left = g[m - 1].total % Word
                                              => g[m].left = g[m].total % Word)
        BY <2>4, <2>5, ReadKeeps
    <2>7. \A j \in 1..m : j = m \/ j \in 1..(m - 1)
        BY <2>1
    <2>8. fine(m)
        BY <2>4, <2>6, <2>7
    <2>. QED
        BY <2>1, <2>8
<1>4. fine(n)
    BY <1>1, <1>3
<1>5. (\E p \in Range(s) : IsTotal(p)) => \E j \in 1..n : IsTotal(s[j])
    BY <1>1 DEF Range
<1>. QED
    BY <1>2, <1>4, <1>5

\* What is given is taken from what is left, and the last file gets all of it.
LEMMA OfferDivides ==
    ASSUME NEW f, NEW n \in Nat, FunctionOK(fn[f]), NEW given \in Offers(f, n)
    PROVE  /\ FunctionOK(given[1])
           /\ IsRedefineRow(f) =>
                  /\ given[1].current = fn[f].current + 1 /\ given[1].source = fn[f].source
                  /\ given[1].total = fn[f].total /\ given[1].percents = fn[f].percents
           /\ IsRedefineRow(f) /\ fn[f].source = "Default" =>
                  /\ given[2] \in 0..fn[f].left /\ given[1].left = fn[f].left - given[2]
                  /\ fn[f].current + 1 = n /\ n > Len(fn[f].percents) => given[1].left = 0
<1>. DEFINE g == [fn[f] EXCEPT !.current = @ + 1]
            left == fn[f].left
            c == fn[f].current + 1
            percents == fn[f].percents
<1>1. /\ FunctionShape(g) /\ g.current = c /\ g.left = left /\ g.percents = percents
      /\ g.total = fn[f].total /\ g.source = fn[f].source
      /\ left \in 0..(Word - 1) /\ left \in Nat /\ c \in Nat \ {0} /\ fn[f].total \in Nat /\ percents \in Seq(Nat)
      /\ Len(percents) \in Nat
    BY ParserAssumption, LenProperties DEF FunctionOK, FunctionShape
<1>2. CASE ~IsRedefineRow(f)
    BY <1>2 DEF Offers
<1>3. CASE IsRedefineRow(f)
    <2>1. given \in Calculated(fn[f], n)
        BY <1>3 DEF Offers
    <2>. HIDE DEF g, left, c, percents
    <2>2. ASSUME NEW r \in 0..left, given = Gives(g, r),
                 c = n /\ n > Len(percents) /\ fn[f].source = "Default" => r = left
          PROVE  /\ FunctionOK(given[1]) /\ given[1].current = c /\ given[1].source = fn[f].source
                 /\ given[1].total = fn[f].total /\ given[1].percents = percents
                 /\ given[2] \in 0..left /\ given[1].left = left - given[2]
                 /\ fn[f].source = "Default" /\ c = n /\ n > Len(percents) => given[1].left = 0
        <3>1. given[2] = r /\ given[1] = [g EXCEPT !.left = left - r]
            BY <1>1, <2>2 DEF Gives
        <3>2. left - r \in 0..(Word - 1) /\ (r = left => left - r = 0)
            BY <1>1, ParserAssumption
        <3>3. /\ FunctionShape(given[1]) /\ given[1].left = left - r /\ given[1].current = c
              /\ given[1].source = fn[f].source /\ given[1].total = fn[f].total /\ given[1].percents = percents
            BY <1>1, <3>1 DEF FunctionShape
        <3>. QED
            BY <1>1, <2>2, <3>1, <3>2, <3>3 DEF FunctionOK
    <2>3. CASE c > n \/ fn[f].source = "Other"
        <3>1. given = Gives(g, 0) /\ 0 \in 0..left
            BY <1>1, <2>1, <2>3 DEF Calculated, g
        <3>2. ~(c = n /\ n > Len(percents) /\ fn[f].source = "Default")
            BY <1>1, <2>3
        <3>. QED
            BY <1>3, <2>2, <3>1, <3>2 DEF left, c, percents
    <2>4. CASE ~(c > n \/ fn[f].source = "Other") /\ c <= Len(percents)
        <3>1. given \in Share(g, percents[c])
            BY <1>1, <2>1, <2>4 DEF Calculated, g
        <3>2. PICK rows \in Product(percents[c], g.total) :
                  given = Gives(g, IF g.left >= rows THEN rows ELSE g.left)
            BY <3>1 DEF Share
        <3>3. rows \in Nat
            <4>1. percents[c] \in Nat /\ g.total \in Nat
                BY <1>1, <2>4, ElementOfSeq
            <4>2. \A x, y \in Nat : x * y \in Nat
                OBVIOUS
            <4>3. PICK xy \in Nat : xy = percents[c] * g.total
                BY <4>1, <4>2
            <4>4. xy \div Whole \in Nat
                BY ParserAssumption
            <4>. QED
                BY <4>3, <4>4, ParserAssumption DEF Product
        <3>. DEFINE r == IF g.left >= rows THEN rows ELSE g.left
        <3>4. r \in 0..left
            BY <1>1, <3>3
        <3>. HIDE DEF r
        <3>5. ~(c = n /\ n > Len(percents))
            BY <1>1, <2>4
        <3>. QED
            BY <1>3, <2>2, <3>2, <3>4, <3>5 DEF left, c, percents, r
    <2>5. CASE ~(c > n \/ fn[f].source = "Other") /\ ~(c <= Len(percents))
        <3>1. given \in Rest(g, n)
            BY <1>1, <2>1, <2>5 DEF Calculated, g
        <3>. DEFINE r == left \div (n - c + 1)
        <3>2. given = Gives(g, r)
            BY <1>1, <3>1 DEF Rest
        <3>3. r \in 0..left /\ (c = n => r = left)
            <4>1. \A a \in Nat, b \in Nat \ {0} : a \div b \in 0..a /\ a \div 1 = a
                OBVIOUS
            <4>2. n - c + 1 \in Nat \ {0} /\ (c = n => n - c + 1 = 1)
                BY <1>1, <2>5
            <4>. QED
                BY <1>1, <4>1, <4>2
        <3>. HIDE DEF r
        <3>. QED
            BY <1>3, <2>2, <3>2, <3>3 DEF left, c, percents
    <2>. QED
        BY <2>3, <2>4, <2>5
<1>. QED
    BY <1>2, <1>3

HasTotal(f) == \E p \in Range(params[f]) : IsTotal(p)

Divides(f) == fn[f].read /\ fn[f].source = "Default" /\ Element(f).wraps = Word /\ HasTotal(f)

RowsGiven(f) == SumOf([e \in Customers(f) |-> table[e].rows])

\* The rows that were given and those that are left are the total; the function counts the
\* tables that asked, and the last of them left nothing.
Balanced(f) ==
    LET asking == Customers(f)
        n == Cardinality(asking)
    IN  /\ \A e \in asking : table[e].rows \in Int
        /\ RowsGiven(f) + fn[f].left = fn[f].total % Word
        /\ fn[f].current = n
        /\ n > Len(fn[f].percents) /\ (\A e \in asking : table[e].files = n) => fn[f].left = 0

Counting == {"process", "release", "fill"}

RowsOK ==
    /\ \A e \in Elements : /\ FunctionOK(fn[e]) /\ table[e].files \in Nat
                           /\ params[e] \in Seq(ParameterElements)
    /\ phase \in {"initialise", "layout"} =>
           \A e \in Elements : table[e].rows = Unmapped /\ fn[e].current = 0 /\ ~fn[e].read
    /\ phase = "process" =>
           \A e \in Elements :
               /\ e >= at => table[e].rows = Unmapped /\ fn[e].current = 0
               /\ fn[e].read => e < at /\ IsRedefineRow(e)
    /\ phase \in Counting => \A f \in functions : Divides(f) => Balanced(f)

LEMMA CustomersAre ==
    ASSUME tpl \in Templates, NEW f
    PROVE  IsFiniteSet(Customers(f)) /\ Cardinality(Customers(f)) \in Nat
<1>1. Elements = 1..Len(tpl.elements) /\ Len(tpl.elements) \in Nat
    BY ElementsAre
<1>2. IsFiniteSet(Elements)
    BY <1>1, FS_Interval
<1>3. Customers(f) \in SUBSET Elements
    BY DEF Customers
<1>. QED
    BY <1>2, <1>3, FS_Subset, FS_CardinalityType

\* A function whose customers stay, and get no other rows.
LEMMA BalanceStays ==
    ASSUME NEW f, Divides(f) => Balanced(f), tpl' = tpl, params' = params, fn'[f] = fn[f],
           Customers(f)' = Customers(f),
           \A e \in Customers(f) : table'[e].rows = table[e].rows /\ table'[e].files = table[e].files
    PROVE  (Divides(f) => Balanced(f))'
<1>1. Divides(f)' = Divides(f)
    BY DEF Divides, HasTotal, IsTotal, Element
<1>2. RowsGiven(f)' = RowsGiven(f)
    <2>1. [e \in Customers(f)' |-> table'[e].rows] = [e \in Customers(f) |-> table[e].rows]
        OBVIOUS
    <2>. QED
        BY <2>1 DEF RowsGiven
<1>. QED
    BY <1>1, <1>2 DEF Balanced

\* A function that gave rows to one more table.
LEMMA BalanceAfter ==
    ASSUME tpl \in Templates, NEW f, Balanced(f), FunctionOK(fn[f]), tpl' = tpl,
           NEW d \in Elements, d \notin Customers(f), Customers(f)' = Customers(f) \union {d},
           \A e \in Customers(f) : table'[e].rows = table[e].rows /\ table'[e].files = table[e].files,
           table'[d].rows \in 0..fn[f].left, table'[d].files \in Nat,
           FunctionOK(fn'[f]), fn'[f].current = fn[f].current + 1, fn'[f].total = fn[f].total,
           fn'[f].percents = fn[f].percents, fn'[f].left = fn[f].left - table'[d].rows,
           fn[f].current + 1 = table'[d].files /\ table'[d].files > Len(fn[f].percents) => fn'[f].left = 0
    PROVE  Balanced(f)'
<1>. DEFINE T == Customers(f)
            n == Cardinality(T)
            r == [e \in T \union {d} |-> table'[e].rows]
<1>1. IsFiniteSet(T) /\ n \in Nat /\ Cardinality(T \union {d}) = n + 1
    BY CustomersAre, FS_AddElement
<1>2. /\ fn[f].left \in Nat /\ table'[d].rows \in Int
      /\ \A e \in T : table[e].rows \in Int
      /\ r \in [T \union {d} -> Int]
    <2>1. Word - 1 \in Nat /\ fn[f].left \in 0..(Word - 1)
        BY ParserAssumption DEF FunctionOK
    <2>2. fn[f].left \in Nat
        BY <2>1
    <2>3. table'[d].rows \in Int
        BY <2>2
    <2>4. \A e \in T : table[e].rows \in Int
        BY DEF Balanced
    <2>. QED
        BY <2>2, <2>3, <2>4
<1>3. SumOf([e \in T |-> r[e]]) \in Int /\ SumOf([e \in T \union {d} |-> r[e]]) = SumOf([e \in T |-> r[e]]) + r[d]
    <2>. HIDE DEF T, r
    <2>. QED
        BY <1>1, <1>2, SumAdds DEF T
<1>4. [e \in T |-> r[e]] = [e \in T |-> table[e].rows]
    OBVIOUS
<1>5. [e \in T \union {d} |-> r[e]] = [e \in Customers(f)' |-> table'[e].rows]
    OBVIOUS
<1>6. RowsGiven(f) \in Int /\ RowsGiven(f)' = RowsGiven(f) + table'[d].rows
    <2>1. r[d] = table'[d].rows
        OBVIOUS
    <2>2. RowsGiven(f) = SumOf([e \in T |-> r[e]])
        BY <1>4 DEF RowsGiven
    <2>3. RowsGiven(f)' = SumOf([e \in T \union {d} |-> r[e]])
        BY <1>5 DEF RowsGiven
    <2>. HIDE DEF r, T
    <2>. QED
        BY <1>3, <2>1, <2>2, <2>3
<1>7. RowsGiven(f)' + fn'[f].left = fn'[f].total % Word
    <2>1. \A a, b, c \in Int : (a + c) + (b - c) = a + b
        OBVIOUS
    <2>2. RowsGiven(f) + fn[f].left = fn[f].total % Word
        BY DEF Balanced
    <2>. QED
        BY <1>2, <1>6, <2>1, <2>2
<1>8. Cardinality(Customers(f)') = n + 1 /\ fn[f].current = n
    BY <1>1 DEF Balanced
<1>9. n + 1 > Len(fn'[f].percents) /\ (\A e \in Customers(f)' : table'[e].files = n + 1) => fn'[f].left = 0
    BY <1>8
<1>10. \A e \in Customers(f)' : table'[e].rows \in Int
    BY <1>2
<1>. QED
    BY <1>7, <1>8, <1>9, <1>10 DEF Balanced

LEMMA StepRows ==
    ASSUME ReadyOK, SeedOK, ParametersOK, RowsOK, [Next]_vars, ReadyOK', SeedOK', ParametersOK'
    PROVE  RowsOK'
<1>. DEFINE n == Len(tpl.elements)
<1>1. /\ tpl' = tpl /\ tpl \in Templates /\ Elements' = Elements /\ at \in Nat
      /\ n \in Nat /\ Elements = 1..n
      /\ functions \in SUBSET Elements
    BY ElementsAre, TemplateStays DEF ReadyOK, FunctionsOK, Elements
<1>2. /\ ParameterElements' = ParameterElements
      /\ \A e : Element(e)' = Element(e) /\ Kind(e)' = Kind(e) /\ IsRedefineRow(e)' = IsRedefineRow(e)
                /\ Asks(e)' = Asks(e) /\ AllParameters(e)' = AllParameters(e)
    <2>1. \A e : Element(e)' = Element(e) /\ Kind(e)' = Kind(e) /\ IsRedefineRow(e)' = IsRedefineRow(e)
                 /\ Asks(e)' = Asks(e)
        BY <1>1 DEF Element, Kind, IsRedefineRow, Asks
    <2>2. \A e : AllParameters(e)' = AllParameters(e)
        BY <1>1 DEF AllParameters, Parameters, Element, Kind, IsParameterOf
    <2>. QED
        BY <1>1, <2>1, <2>2 DEF ParameterElements
<1>3. /\ fn = [e \in Elements |-> fn[e]] /\ table = [e \in Elements |-> table[e]]
      /\ params = [e \in Elements |-> params[e]]
      /\ \A e \in Elements : TableShape(table[e])
    BY DEF ReadyOK, ObjectsOK, SeedOK, TablesOK, ParametersOK
<1>4. ASSUME functions' = functions, NEW f,
             \A e \in Elements : table'[e].rows = table[e].rows
      PROVE  Customers(f)' = Customers(f)
    <2>1. \A e : Used(e)' = Used(e)
        BY <1>2, <1>4 DEF Used
    <2>. QED
        BY <1>1, <1>2, <1>4, <2>1 DEF Customers
\* Nothing of it changes, or no balance is kept.
<1>5. ASSUME fn' = fn, params' = params, functions' = functions,
             \A e \in Elements : table'[e].rows = table[e].rows /\ table'[e].files = table[e].files,
             \/ phase' \notin {"initialise", "layout"} \union Counting
             \/ phase' = phase /\ at' = at
             \/ phase = "initialise" /\ phase' = "layout"
             \/ phase = "process" /\ phase' = "process" /\ at' = at + 1
             \/ phase \in Counting /\ phase' \in {"release", "fill"}
      PROVE  RowsOK'
    <2>1. \A e \in Elements : /\ FunctionOK(fn'[e]) /\ table'[e].files \in Nat
                              /\ params'[e] \in Seq(ParameterElements')
        <3>1. \A e \in Elements : FunctionOK(fn[e]) /\ table[e].files \in Nat /\ params[e] \in Seq(ParameterElements)
            BY DEF RowsOK
        <3>. QED
            BY <1>2, <1>5, <3>1
    <2>2. phase' \in {"initialise", "layout"} =>
              \A e \in Elements : table'[e].rows = Unmapped /\ fn'[e].current = 0 /\ ~fn'[e].read
        BY <1>5 DEF RowsOK, Counting
    <2>3. phase' = "process" =>
              \A e \in Elements :
                  /\ e >= at' => table'[e].rows = Unmapped /\ fn'[e].current = 0
                  /\ fn'[e].read => e < at' /\ IsRedefineRow(e)'
        <3>1. phase' = "process" => phase = "process" /\ at' \in Nat /\ at <= at'
            BY <1>1, <1>5 DEF Counting
        <3>. QED
            BY <1>1, <1>2, <1>5, <3>1 DEF RowsOK
    <2>4. phase' \in Counting => \A f \in functions : (Divides(f) => Balanced(f))'
        <3>1. phase' \in Counting => phase \in Counting
            BY <1>5 DEF Counting
        <3>. SUFFICES ASSUME phase' \in Counting, NEW f \in functions PROVE (Divides(f) => Balanced(f))'
            OBVIOUS
        <3>2. Divides(f) => Balanced(f)
            BY <3>1 DEF RowsOK
        <3>3. Customers(f)' = Customers(f) /\ Customers(f) \subseteq Elements
            BY <1>4, <1>5 DEF Customers
        <3>. QED
            BY <1>1, <1>5, <3>2, <3>3, BalanceStays
    <2>. QED
        BY <1>1, <1>5, <2>1, <2>2, <2>3, <2>4 DEF RowsOK
\* While the elements are laid out nobody has asked.
<1>6. ASSUME phase \in {"initialise", "layout"}, phase' = phase, fn' = fn,
             \A e \in Elements : table'[e].rows = table[e].rows /\ table'[e].files \in Nat,
             \A e \in Elements : params'[e] \in Seq(ParameterElements)
      PROVE  RowsOK'
    <2>1. \A e \in Elements : FunctionOK(fn'[e]) /\ table'[e].rows = Unmapped /\ fn'[e].current = 0 /\ ~fn'[e].read
        BY <1>6 DEF RowsOK
    <2>2. phase' # "process" /\ phase' \notin Counting
        BY <1>6 DEF Counting
    <2>. QED
        BY <1>1, <1>2, <1>6, <2>1, <2>2 DEF RowsOK
<1>7. CASE Start
    <2>1. phase' \in {"initialise", "release"} /\ functions' = {} /\ params' = [e \in Elements |-> <<>>]
        BY <1>7 DEF Start
    <2>2. PICK source \in Sources, i \in Junk, j \in Junk :
                 /\ fn' = [e \in Elements |-> NewFunction(source, i, j)]
                 /\ table' = [e \in Elements |-> NewTable(i, j)]
        <3>. HIDE DEF n
        <3>. QED
            BY <1>7, Zenon DEF Start
    <2>3. FunctionOK(NewFunction(source, i, j)) /\ ~NewFunction(source, i, j).read /\ NewFunction(source, i, j).current = 0
        <3>1. i \in 0..(Word - 1) /\ j \in 0..(Word - 1) /\ <<>> \in Seq(Nat)
            BY ParserAssumption
        <3>. QED
            BY <3>1 DEF FunctionOK, FunctionShape, NewFunction
    <2>4. NewTable(i, j).files \in Nat /\ NewTable(i, j).rows = Unmapped
        BY ParserAssumption DEF NewTable
    <2>5. \A e \in Elements : /\ FunctionOK(fn'[e]) /\ ~fn'[e].read /\ fn'[e].current = 0
                              /\ table'[e].files \in Nat /\ table'[e].rows = Unmapped
                              /\ params'[e] \in Seq(ParameterElements)
        BY <2>1, <2>2, <2>3, <2>4
    <2>. QED
        BY <1>1, <1>2, <2>1, <2>5 DEF RowsOK
<1>. USE DEF Goes, Ends
<1>8. CASE Initialize
    <2>1. CASE Ends("undefined")
        BY <1>5, <2>1 DEF objects, Counting
    <2>2. CASE Goes("refused", at) /\ UNCHANGED objects
        BY <1>5, <2>2 DEF objects, Counting
    <2>3. CASE /\ phase = "initialise" /\ at \in Elements /\ params' = Given(at) /\ Goes("initialise", at + 1)
               /\ UNCHANGED <<fn, table>>
        <3>1. \A e \in Elements : params'[e] = IF IsParameterOf(at, e) THEN Append(params[e], at) ELSE params[e]
            BY <1>3, <2>3 DEF Given, IsParameterOf
        <3>2. \A e : IsParameterOf(at, e) => at \in ParameterElements
            BY <2>3 DEF IsParameterOf, ParameterElements
        <3>3. \A e \in Elements : params'[e] \in Seq(ParameterElements)
            <4>1. ASSUME NEW e \in Elements, IsParameterOf(at, e) PROVE Append(params[e], at) \in Seq(ParameterElements)
                <5>1. params[e] \in Seq(ParameterElements) /\ at \in ParameterElements
                    BY <3>2, <4>1 DEF RowsOK
                <5>. QED
                    BY <5>1, AppendProperties
            <4>. QED
                BY <3>1, <4>1 DEF RowsOK
        <3>4. \A e \in Elements : table'[e].rows = table[e].rows /\ table'[e].files \in Nat
            BY <2>3 DEF RowsOK
        <3>. QED
            BY <1>6, <2>3, <3>3, <3>4
    <2>. QED
        BY <1>8, <2>1, <2>2, <2>3 DEF Initialize
<1>9. CASE EndOfElements
    BY <1>5, <1>9 DEF EndOfElements, objects, Counting
<1>10. CASE LayTable
    <2>1. CASE Ends("undefined")
        BY <1>5, <2>1 DEF objects, Counting
    <2>2. CASE /\ phase = "layout" /\ at \in Elements /\ Goes("layout", at + 1) /\ fn' = fn
               /\ params' = IF Kind(at) = "Table" THEN GivenAgain(at) ELSE params
               /\ table' = IF Kind(at) = "Table" THEN [table EXCEPT ![at] = ProcessItem(at)] ELSE table
        <3>1. ASSUME NEW e \in Elements PROVE params'[e] \in Seq(ParameterElements)
            <4>1. params[e] \in Seq(ParameterElements) /\ AllParameters(e) \in Seq(ParameterElements)
                BY <1>1, ParametersListed DEF RowsOK
            <4>2. params[e] \o AllParameters(e) \in Seq(ParameterElements)
                BY <4>1, ConcatProperties
            <4>. QED
                BY <2>2, <4>1, <4>2 DEF GivenAgain
        <3>2. ASSUME NEW e \in Elements PROVE table'[e].rows = table[e].rows /\ table'[e].files \in Nat
            <4>1. table[e].files \in Nat /\ TableShape(table[e])
                BY <1>3 DEF RowsOK
            <4>2. CASE Kind(at) = "Table" /\ e = at
                <5>1. table'[e] = ProcessItem(e)
                    BY <1>3, <2>2, <4>2
                <5>2. Element(e).fileNum \in Nat
                    BY <1>1, <4>2, TemplatesAssumption DEF Element, Kind, Elements
                <5>3. ProcessItem(e).rows = table[e].rows /\ ProcessItem(e).files \in {table[e].files, Element(e).fileNum}
                    BY <4>1 DEF ProcessItem, TableShape
                <5>. QED
                    BY <4>1, <5>1, <5>2, <5>3
            <4>3. CASE ~(Kind(at) = "Table" /\ e = at)
                <5>1. table'[e] = table[e]
                    BY <1>3, <2>2, <4>3
                <5>. QED
                    BY <4>1, <5>1
            <4>. QED
                BY <4>2, <4>3
        <3>. QED
            BY <1>6, <2>2, <3>1, <3>2
    <2>. QED
        BY <1>10, <2>1, <2>2 DEF LayTable
<1>11. CASE EndOfLayout
    <2>1. phase = "layout" /\ phase' = "process" /\ at' = 1 /\ UNCHANGED <<functions, params, fn, table>>
        BY <1>11 DEF EndOfLayout, objects
    <2>2. \A e \in Elements : table'[e].rows = Unmapped /\ fn'[e].current = 0 /\ ~fn'[e].read
        BY <2>1 DEF RowsOK
    <2>3. \A e \in Elements : FunctionOK(fn'[e]) /\ table'[e].files \in Nat /\ params'[e] \in Seq(ParameterElements)
        BY <2>1 DEF RowsOK
    <2>4. \A f \in functions' : ~Divides(f)'
        BY <1>1, <2>1, <2>2 DEF Divides
    <2>. QED
        BY <1>1, <1>2, <2>1, <2>2, <2>3, <2>4 DEF RowsOK
<1>12. CASE ProcessOther \/ ProcessSubColumn
    BY <1>5, <1>12 DEF ProcessOther, ProcessSubColumn, objects, Counting
<1>13. CASE LoadFiles \/ Release \/ EndOfFill \/ UNCHANGED vars
    BY <1>5, <1>13 DEF LoadFiles, Release, EndOfFill, objects, vars, Counting
<1>14. ASSUME phase = "process", NEW e \in Elements, ~(e < at)
       PROVE  table[e].rows = Unmapped /\ fn[e].current = 0 /\ ~fn[e].read
    <2>1. e >= at
        BY <1>1, <1>14
    <2>. QED
        BY <1>14, <2>1 DEF RowsOK
<1>15. ASSUME NEW e \in Elements, NEW f, functions' = functions, phase = "process",
              \A d \in Elements : d # e => table'[d].rows = table[d].rows,
              table[e].rows = Unmapped, ~(Kind(e) = "Table" /\ Asks(e) /\ Used(e) = f)
       PROVE  Customers(f)' = Customers(f)
    <2>1. \A d : Used(d)' = Used(d)
        BY <1>2, <1>15 DEF Used
    <2>2. e \notin Customers(f) /\ e \notin Customers(f)'
        BY <1>2, <1>15, <2>1 DEF Customers
    <2>3. \A d \in Elements : d # e => (d \in Customers(f)' <=> d \in Customers(f))
        BY <1>1, <1>2, <1>15, <2>1 DEF Customers
    <2>. QED
        BY <1>1, <2>2, <2>3 DEF Customers
<1>16. ASSUME NEW e \in Elements, Kind(e) = "Table", Asks(e), phase = "process"
       PROVE  Used(e) \in functions /\ Used(e) \in Elements /\ Used(e) < e
    <2>1. Element(e).uses # "none"
        BY <1>1, <1>16, TemplatesAssumption DEF Asks, Element, Kind, Elements
    <2>. QED
        BY <1>16, <2>1, UsedIs
<1>17. CASE ProcessFunction
    <2>1. CASE Ends("refused")
        BY <1>5, <2>1 DEF objects, Counting
    <2>2. CASE /\ phase = "process" /\ at \in Elements /\ IsRedefineRow(at) /\ ReadFunction(at).read
               /\ fn' = [fn EXCEPT ![at] = ReadFunction(at)]
               /\ Goes("process", at + 1) /\ UNCHANGED <<functions, params, table>>
        <3>. DEFINE f == ReadFunction(at)
                    f0 == [fn[at] EXCEPT !.read = Element(at).processes]
                    g == ReadParameters(f0, params[at])
        <3>1. /\ FunctionOK(fn[at]) /\ params[at] \in Seq(ParameterElements)
              /\ fn[at].current = 0 /\ table[at].rows = Unmapped
            BY <1>1, <2>2 DEF RowsOK
        <3>2. FunctionOK(f0)
            BY <3>1 DEF FunctionOK, FunctionShape
        <3>. HIDE DEF f0
        <3>3. FunctionOK(g) /\ (g.read /\ HasTotal(at) => g.left = g.total % Word)
            BY <1>1, <3>1, <3>2, TotalRead DEF HasTotal
        <3>. HIDE DEF g
        <3>4. f = [read |-> g.read, source |-> g.source, total |-> g.total, left |-> g.left,
                   percents |-> g.percents, current |-> fn[at].current, asks |-> g.asks]
            BY DEF ReadFunction, g, f0
        <3>. HIDE DEF f
        <3>5. /\ FunctionOK(f) /\ f.current = 0 /\ f.percents = g.percents
              /\ f.read /\ HasTotal(at) => f.left = f.total % Word
            BY <3>1, <3>3, <3>4 DEF FunctionOK, FunctionShape
        <3>6. fn'[at] = f /\ \A d \in Elements : d # at => fn'[d] = fn[d]
            BY <1>3, <2>2 DEF f
        <3>7. \A e \in Elements : /\ FunctionOK(fn'[e]) /\ table'[e].files \in Nat
                                  /\ params'[e] \in Seq(ParameterElements)
            BY <2>2, <3>5, <3>6 DEF RowsOK
        <3>8. at' = at + 1 /\ phase' = "process"
            BY <2>2
        <3>9. ASSUME NEW e \in Elements
              PROVE  /\ e >= at' => table'[e].rows = Unmapped /\ fn'[e].current = 0
                     /\ fn'[e].read => e < at' /\ IsRedefineRow(e)
            <4>1. CASE e = at
                BY <1>1, <2>2, <3>8, <4>1
            <4>2. CASE e # at
                BY <1>1, <2>2, <3>6, <3>8, <4>2 DEF RowsOK
            <4>. QED
                BY <4>1, <4>2
        <3>10. \A d : Customers(d)' = Customers(d)
            BY <1>4, <2>2
        <3>11. ASSUME NEW d \in functions PROVE (Divides(d) => Balanced(d))'
            <4>1. CASE d # at
                <5>1. fn'[d] = fn[d] /\ (Divides(d) => Balanced(d))
                    BY <1>1, <2>2, <3>6, <4>1 DEF RowsOK, Counting
                <5>. QED
                    BY <1>1, <2>2, <3>10, <5>1, BalanceStays
            <4>2. CASE d = at
                <5>1. Customers(d) = {}
                    <6>. SUFFICES ASSUME NEW e \in Customers(d) PROVE FALSE
                        OBVIOUS
                    <6>1. /\ e \in Elements /\ Kind(e) = "Table" /\ table[e].rows # Unmapped
                          /\ Asks(e) /\ Used(e) = d
                        BY DEF Customers
                    <6>2. d < e
                        BY <1>16, <2>2, <6>1
                    <6>. QED
                        BY <1>1, <1>14, <2>2, <4>2, <6>1, <6>2
                <5>2. HasTotal(d)' = HasTotal(d)
                    BY <1>2, <2>2 DEF HasTotal, IsTotal
                <5>. SUFFICES ASSUME Divides(d)' PROVE Balanced(d)'
                    OBVIOUS
                <5>3. f.left = f.total % Word
                    BY <3>5, <3>6, <4>2, <5>2 DEF Divides
                <5>4. RowsGiven(d)' = 0
                    <6>1. Customers(d)' = {}
                        BY <3>10, <5>1
                    <6>2. [e \in Customers(d)' |-> table'[e].rows] = [e \in {} |-> 0]
                        BY <6>1
                    <6>. QED
                        BY <6>2, SumOfNone DEF RowsGiven
                <5>5. /\ Customers(d)' = {} /\ Cardinality({}) = 0 /\ fn'[d] = f
                      /\ Len(f.percents) \in Nat /\ f.left \in Nat
                    <6>1. f.percents \in Seq(Nat) /\ f.left \in 0..(Word - 1)
                        BY <3>5 DEF FunctionOK
                    <6>. QED
                        BY <3>6, <3>10, <4>2, <5>1, <6>1, FS_EmptySet, LenProperties
                <5>6. 0 + f.left = f.left /\ ~(0 > Len(f.percents))
                    BY <5>5
                <5>. QED
                    BY <3>5, <5>3, <5>4, <5>5, <5>6 DEF Balanced
            <4>. QED
                BY <4>1, <4>2
        <3>. QED
            BY <1>1, <1>2, <2>2, <3>7, <3>8, <3>9, <3>11 DEF RowsOK
    <2>. QED
        BY <1>17, <2>1, <2>2 DEF ProcessFunction
<1>18. ASSUME phase = "process", at \in Elements, Kind(at) = "Table", NEW rows,
              table' = [table EXCEPT ![at] = [@ EXCEPT !.rows = rows, !.buffer = [i \in 1..rows |-> Zeros]]]
       PROVE  /\ table'[at].rows = rows /\ table'[at].files = table[at].files /\ table[at].rows = Unmapped
              /\ \A e \in Elements : e # at => table'[e] = table[e]
              /\ \A e \in Elements : table'[e].files = table[e].files
    <2>1. TableShape(table[at]) /\ table[at].rows = Unmapped
        <3>1. ~(at < at)
            BY <1>1
        <3>2. TableShape(table[at])
            BY <1>3, <1>18
        <3>. QED
            BY <1>14, <1>18, <3>1, <3>2
    <2>2. table'[at] = [table[at] EXCEPT !.rows = rows, !.buffer = [i \in 1..rows |-> Zeros]]
        BY <1>3, <1>18
    <2>3. \A e \in Elements : e # at => table'[e] = table[e]
        BY <1>3, <1>18
    <2>4. table'[at].rows = rows /\ table'[at].files = table[at].files
        BY <2>1, <2>2 DEF TableShape
    <2>. QED
        BY <2>1, <2>3, <2>4
<1>19. CASE ProcessTable
    <2>1. CASE Ends("refused")
        BY <1>5, <2>1 DEF objects, Counting
    <2>2. CASE /\ phase = "process" /\ at \in Elements /\ Kind(at) = "Table" /\ ~Asks(at)
               /\ \E rows : Mapping(at, rows)
               /\ UNCHANGED <<functions, params, fn>>
        <3>1. PICK rows : Mapping(at, rows)
            BY <2>2
        <3>2. CASE Goes("undefined", at) /\ table' = table
            BY <1>5, <2>2, <3>2 DEF Counting
        <3>3. CASE /\ Goes("process", at + 1)
                   /\ table' = [table EXCEPT ![at] = [@ EXCEPT !.rows = rows, !.buffer = [i \in 1..rows |-> Zeros]]]
            <4>1. /\ table[at].rows = Unmapped
                  /\ \A e \in Elements : e # at => table'[e] = table[e]
                  /\ \A e \in Elements : table'[e].files = table[e].files
                BY <1>18, <2>2, <3>3
            <4>2. \A e \in Elements : /\ FunctionOK(fn'[e]) /\ table'[e].files \in Nat
                                      /\ params'[e] \in Seq(ParameterElements)
                BY <2>2, <4>1 DEF RowsOK
            <4>3. ASSUME NEW e \in Elements
                  PROVE  /\ e >= at + 1 => table'[e].rows = Unmapped /\ fn'[e].current = 0
                         /\ fn'[e].read => e < at + 1 /\ IsRedefineRow(e)
                BY <1>1, <2>2, <4>1 DEF RowsOK
            <4>4. ASSUME NEW d \in functions PROVE (Divides(d) => Balanced(d))'
                <5>1. Customers(d)' = Customers(d)
                    BY <1>15, <2>2, <4>1
                <5>2. at \notin Customers(d) /\ Customers(d) \subseteq Elements
                    BY <4>1 DEF Customers
                <5>3. Divides(d) => Balanced(d)
                    BY <2>2 DEF RowsOK, Counting
                <5>. QED
                    BY <1>1, <2>2, <4>1, <5>1, <5>2, <5>3, BalanceStays
            <4>. QED
                BY <1>1, <1>2, <2>2, <3>3, <4>2, <4>3, <4>4 DEF RowsOK
        <3>. QED
            BY <3>1, <3>2, <3>3, MappingMaps
    <2>3. ASSUME phase = "process", at \in Elements, Kind(at) = "Table", Asks(at),
                 NEW given \in Offers(Used(at), table[at].files),
                 fn' = [fn EXCEPT ![Used(at)] = given[1]],
                 Mapping(at, given[2] % Element(Used(at)).wraps),
                 UNCHANGED <<functions, params>>
          PROVE  RowsOK'
        <3>. DEFINE u == Used(at)
                    rows == given[2] % Element(Used(at)).wraps
        <3>1. u \in functions /\ u \in Elements /\ u < at
            BY <1>16, <2>3
        <3>2. FunctionOK(fn[u]) /\ table[at].files \in Nat /\ FunctionShape(fn[u])
            BY <2>3, <3>1 DEF RowsOK, FunctionOK
        <3>3. /\ FunctionOK(given[1])
              /\ IsRedefineRow(u) =>
                     /\ given[1].current = fn[u].current + 1 /\ given[1].source = fn[u].source
                     /\ given[1].total = fn[u].total /\ given[1].percents = fn[u].percents
              /\ IsRedefineRow(u) /\ fn[u].source = "Default" =>
                     /\ given[2] \in 0..fn[u].left /\ given[1].left = fn[u].left - given[2]
                     /\ fn[u].current + 1 = table[at].files /\ table[at].files > Len(fn[u].percents)
                            => given[1].left = 0
            BY <2>3, <3>2, OfferDivides
        <3>4. given[1].read = fn[u].read
            BY <2>3, <3>2, OffersKeep
        <3>5. fn'[u] = given[1] /\ \A e \in Elements : e # u => fn'[e] = fn[e]
            BY <1>3, <2>3, <3>1
        <3>6. \A e \in Elements : FunctionOK(fn'[e]) /\ params'[e] \in Seq(ParameterElements)
            BY <2>3, <3>3, <3>5 DEF RowsOK
        <3>7. CASE Goes("undefined", at) /\ table' = table
            <4>1. \A e \in Elements : table'[e].files \in Nat
                BY <3>7 DEF RowsOK
            <4>. QED
                BY <1>1, <1>2, <3>6, <3>7, <4>1 DEF RowsOK, Counting
        <3>8. CASE /\ Goes("process", at + 1)
                   /\ table' = [table EXCEPT ![at] = [@ EXCEPT !.rows = rows, !.buffer = [i \in 1..rows |-> Zeros]]]
            <4>1. /\ table[at].rows = Unmapped /\ table'[at].rows = rows /\ table'[at].files = table[at].files
                  /\ \A e \in Elements : e # at => table'[e] = table[e]
                  /\ \A e \in Elements : table'[e].files = table[e].files
                BY <1>18, <2>3, <3>8
            <4>. HIDE DEF u, rows
            <4>2. \A e \in Elements : table'[e].files \in Nat
                BY <4>1 DEF RowsOK
            <4>3. ASSUME NEW e \in Elements
                  PROVE  /\ e >= at + 1 => table'[e].rows = Unmapped /\ fn'[e].current = 0
                         /\ fn'[e].read => e < at + 1 /\ IsRedefineRow(e)
                <5>1. /\ e >= at => table[e].rows = Unmapped /\ fn[e].current = 0
                      /\ fn[e].read => e < at /\ IsRedefineRow(e)
                    BY <2>3 DEF RowsOK
                <5>2. fn'[e].read = fn[e].read
                    BY <3>4, <3>5
                <5>3. e >= at + 1 => e # u /\ e # at /\ e >= at
                    BY <1>1, <3>1
                <5>4. e < at => e < at + 1
                    BY <1>1
                <5>. QED
                    BY <3>5, <4>1, <5>1, <5>2, <5>3, <5>4
            <4>4. ASSUME NEW d \in functions PROVE (Divides(d) => Balanced(d))'
                <5>1. at \notin Customers(d) /\ Customers(d) \subseteq Elements
                    BY <4>1 DEF Customers
                <5>2. Divides(d) => Balanced(d)
                    BY <2>3 DEF RowsOK, Counting
                <5>3. CASE d # u
                    <6>1. Customers(d)' = Customers(d)
                        BY <1>15, <2>3, <4>1, <5>3 DEF u
                    <6>2. fn'[d] = fn[d]
                        BY <1>1, <3>5, <5>3
                    <6>. QED
                        BY <1>1, <2>3, <4>1, <5>1, <5>2, <6>1, <6>2, BalanceStays
                <5>4. CASE d = u
                    <6>. SUFFICES ASSUME Divides(d)' PROVE Balanced(d)'
                        OBVIOUS
                    <6>. PICK c \in Elements : c = at
                        BY <2>3
                    <6>1. HasTotal(d)' = HasTotal(d) /\ Element(d)' = Element(d)
                        BY <1>2, <2>3, <5>4 DEF HasTotal, IsTotal
                    <6>2. fn[d].read /\ IsRedefineRow(d)
                        BY <2>3, <3>1, <3>4, <3>5, <5>4 DEF Divides, RowsOK
                    <6>3. fn[d].source = "Default" /\ Element(d).wraps = Word /\ HasTotal(d)
                        BY <3>3, <3>5, <6>1, <6>2, <5>4 DEF Divides
                    <6>4. Balanced(d)
                        BY <5>2, <5>4, <6>2, <6>3 DEF Divides
                    <6>5. rows = given[2] /\ given[2] \in 0..fn[d].left
                        <7>1. given[2] \in 0..fn[d].left
                            BY <3>3, <6>2, <6>3, <5>4
                        <7>2. fn[d].left \in 0..(Word - 1) /\ Word \in Nat \ {0}
                            BY <3>2, ParserAssumption, <5>4 DEF FunctionOK
                        <7>3. given[2] \in 0..(Word - 1)
                            BY <7>1, <7>2
                        <7>4. \A a, b \in Nat : a < b => a % b = a
                            OBVIOUS
                        <7>5. given[2] % Word = given[2]
                            BY <7>2, <7>3, <7>4
                        <7>. QED
                            BY <6>3, <7>1, <7>5, <5>4 DEF rows, u
                    <6>6. Customers(d)' = Customers(d) \union {c}
                        <7>1. \A e : Used(e)' = Used(e)
                            BY <1>2, <2>3, <5>4 DEF Used
                        <7>2. rows # Unmapped
                            <8>1. fn[d].left \in Nat
                                BY <3>2, ParserAssumption, <5>4 DEF FunctionOK
                            <8>. QED
                                BY <6>5, <8>1 DEF Unmapped
                        <7>3. c \in Customers(d)'
                            BY <1>1, <1>2, <2>3, <4>1, <7>1, <7>2, <5>4 DEF Customers, u
                        <7>4. \A e \in Elements : e # c => (e \in Customers(d)' <=> e \in Customers(d))
                            BY <1>1, <1>2, <4>1, <7>1, <5>4 DEF Customers
                        <7>5. Customers(d)' \subseteq Elements
                            BY <1>1 DEF Customers
                        <7>. QED
                            BY <5>1, <5>4, <7>3, <7>4, <7>5
                    <6>7. /\ c \in Elements /\ c \notin Customers(d)
                          /\ \A e \in Customers(d) : table'[e].rows = table[e].rows /\ table'[e].files = table[e].files
                        BY <2>3, <4>1, <5>1, <5>4
                    <6>8. /\ table'[c].rows \in 0..fn[d].left /\ table'[c].files \in Nat
                          /\ FunctionOK(fn'[d]) /\ fn'[d].current = fn[d].current + 1 /\ fn'[d].total = fn[d].total
                          /\ fn'[d].percents = fn[d].percents /\ fn'[d].left = fn[d].left - table'[c].rows
                          /\ fn[d].current + 1 = table'[c].files /\ table'[c].files > Len(fn[d].percents)
                                 => fn'[d].left = 0
                        BY <3>2, <3>3, <3>5, <4>1, <6>2, <6>3, <6>5, <5>4
                    <6>. QED
                        BY <1>1, <3>2, <6>4, <6>6, <6>7, <6>8, BalanceAfter, <5>4
                <5>. QED
                    BY <5>3, <5>4
            <4>. QED
                BY <1>1, <1>2, <2>3, <3>6, <3>8, <4>2, <4>3, <4>4 DEF RowsOK
        <3>. QED
            BY <2>3, <3>7, <3>8, MappingMaps
    <2>. QED
        BY <1>19, <2>1, <2>2, <2>3 DEF ProcessTable, Asks
<1>20. CASE CopySeed \/ NextTable
    <2>1. CASE Ends("undefined")
        BY <1>5, <2>1 DEF objects, Counting
    <2>2. CASE /\ phase = "fill" /\ at \in Elements /\ phase' = "fill"
               /\ UNCHANGED <<functions, params, fn>>
               /\ \/ table' = table
                  \/ \E rows : table' = [table EXCEPT ![at].buffer = rows]
                  \/ \E rows, after : table' = [table EXCEPT ![at] = [@ EXCEPT !.copied = after, !.buffer = rows]]
        <3>1. ASSUME NEW e \in Elements
              PROVE  table'[e].rows = table[e].rows /\ table'[e].files = table[e].files
            <4>1. CASE table' = table
                BY <4>1
            <4>2. CASE \E rows : table' = [table EXCEPT ![at].buffer = rows]
                BY <1>3, <4>2 DEF TableShape
            <4>3. CASE \E rows, after : table' = [table EXCEPT ![at] = [@ EXCEPT !.copied = after, !.buffer = rows]]
                BY <1>3, <4>3 DEF TableShape
            <4>. QED
                BY <2>2, <4>1, <4>2, <4>3
        <3>. QED
            BY <1>5, <2>2, <3>1 DEF Counting
    <2>. QED
        BY <1>20, <2>1, <2>2 DEF CopySeed, NextTable
<1>. QED
    BY <1>7, <1>8, <1>9, <1>10, <1>11, <1>12, <1>13, <1>17, <1>19, <1>20 DEF Next

\* The rows that a function of a total gave to the tables that asked it, whatever they are, and
\* those it has left are the total, as 32 bits hold it; and the last of the tables left nothing,
\* for every set of templates.
THEOREM RowsDivided == Spec => []RowsOfTotal
<1>. DEFINE Inv == ReadyOK /\ SeedOK /\ ParametersOK /\ RowsOK
<1>1. Init => Inv
    <2>. SUFFICES ASSUME Init PROVE Inv
        OBVIOUS
    <2>1. /\ fn = [e \in Elements |-> NewFunction("Other", 0, 0)]
          /\ table = [e \in Elements |-> NewTable(0, 0)]
          /\ params = [e \in Elements |-> <<>>]
          /\ tpl \in Templates /\ phase = "new" /\ at = 1 /\ functions = {} /\ tables = {} /\ feed = 0
        BY DEF Init
    <2>2. FunctionOK(NewFunction("Other", 0, 0)) /\ NewFunction("Other", 0, 0).current = 0
        BY ParserAssumption DEF FunctionOK, FunctionShape, NewFunction
    <2>3. /\ TableShape(NewTable(0, 0)) /\ NewTable(0, 0).files \in Nat
          /\ \A e : Lined(e, NewTable(0, 0))
        BY DEF TableShape, NewTable, Lined
    <2>4. ReadyOK
        BY <2>1, <2>2 DEF ReadyOK, FunctionsOK, ObjectsOK, FunctionOK
    <2>5. SeedOK
        BY <2>1, <2>3 DEF SeedOK, TablesOK
    <2>6. ParametersOK
        BY <2>1 DEF ParametersOK
    <2>7. RowsOK
        BY <2>1, <2>2, <2>3 DEF RowsOK, Counting
    <2>. QED
        BY <2>4, <2>5, <2>6, <2>7
<1>2. Inv /\ [Next]_vars => Inv'
    <2>. SUFFICES ASSUME Inv, [Next]_vars PROVE Inv'
        OBVIOUS
    <2>1. ReadyOK' /\ SeedOK' /\ ParametersOK'
        BY StepReady, StepSeed, StepParameters
    <2>. QED
        BY <2>1, StepRows
<1>3. Inv => RowsOfTotal
    <2>. SUFFICES ASSUME Inv, NEW f \in functions,
                         fn[f].read /\ fn[f].source = "Default" /\ Element(f).wraps = Word,
                         phase \in {"process", "release", "fill"},
                         \E p \in Range(params[f]) : Element(p).tag = "TotNumber"
                  PROVE  /\ SumOf([e \in Customers(f) |-> table[e].rows]) + fn[f].left = fn[f].total % Word
                         /\ /\ Cardinality(Customers(f)) > Len(fn[f].percents)
                            /\ \A e \in Customers(f) : table[e].files = Cardinality(Customers(f))
                            => fn[f].left = 0
        BY DEF RowsOfTotal
    <2>1. Divides(f)
        BY DEF Divides, HasTotal, IsTotal
    <2>2. Balanced(f)
        BY <2>1 DEF RowsOK, Counting
    <2>. QED
        BY <2>2 DEF Balanced, RowsGiven
<1>. HIDE DEF Inv
<1>. QED
    BY <1>1, <1>2, <1>3, PTL DEF Spec
=============================================================================
