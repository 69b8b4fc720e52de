--------------------------- MODULE TemplateParser ---------------------------
(***************************************************************************)
(* The parsing of a template (CXmlParser::Initialize) and what it leaves   *)
(* to the production: the walk that initialises the elements, the walk     *)
(* that lays them out and reads the seeds, the walk that processes them    *)
(* and counts the rows of the tables, the load of the dimension files; and *)
(* the copy of the seeds into the buffers with which the production        *)
(* begins.  A stream parses its template anew for each request.            *)
(*                                                                         *)
(* A template is a sequence of elements in the order of the text, each     *)
(* with its kind, its parent and what of its attributes the code looks at: *)
(* the first is the root, an interface is in no other, and tables with a   *)
(* directory of seeds name the same one.  Numbers are scaled: Word stands  *)
(* for 2^32, and percentages of a RedefineRow function are out of Whole.   *)
(***************************************************************************)
EXTENDS Integers, Sequences, FiniteSets, SequencesExt, Functions

CONSTANTS
    Templates,    \* the templates
    Requests,     \* how often a template is parsed
    Word,         \* 2^32
    Whole,        \* 10000
    Memory,       \* the bytes that can be mapped
    Junk          \* what members that are not initialised may hold

ASSUME ParserAssumption ==
    /\ {Requests, Word, Whole, Memory} \subseteq Nat \ {0} /\ Word > 1
    /\ Junk \subseteq 0..(Word - 1) /\ Junk # {}

\* A file of seeds has a number of lines, and the number of rows may be negative.  Only an
\* attribute "$name" leaves the number of rows to a function.  A text of percentages is numbers,
\* whatever it says: what strtoull makes of its parts.
ASSUME TemplatesAssumption ==
    \A t \in Templates :
        /\ Len(t.elements) \in Nat /\ DOMAIN t.elements = 1..Len(t.elements)
        /\ \A i \in DOMAIN t.elements :
             LET e == t.elements[i]
             IN  /\ e.kind = "Table" =>
                        /\ e.seed.lines \in Nat /\ e.rowNum.n \in Int /\ e.fileNum \in Nat
                        /\ e.rowNum.kind = "function" => e.uses # "none"
                 /\ e.kind = "Parameter" =>
                        e.numbers \in Seq(Nat) /\ (e.tag = "TotNumber" => e.says \in Nat)

VARIABLES
    tpl,          \* the template
    past,         \* how it was parsed before
    phase,        \* the walk, or how the parsing ended
    at,           \* its next element
    functions,    \* m_FunctionMap, the elements in it
    files,        \* m_DimensionFileMap
    interfaces,   \* m_Interfacelist
    tables,       \* m_mapLitealigndataObject of the interfaces, the elements in it
    params,       \* m_parameterlist of the function of each element
    fn,           \* the RedefineRowFunc of each element
    table,        \* the CTableObject of each element
    asked,        \* the dimension files to be loaded
    library,      \* XMLPlatformUtils: initialised more often than terminated
    feed          \* lines of the feed made of a directory of seeds

objects == <<functions, files, interfaces, tables, params, fn, table, asked>>
vars == <<tpl, past, phase, at, objects, library, feed>>

Elements == DOMAIN tpl.elements
Element(e) == tpl.elements[e]
Kind(e) == Element(e).kind
Sources == {"Default", "File", "Other"}

IsParameterOf(p, e) == Kind(p) = "Parameter" /\ Element(p).parent = e

\* The parameters of e among the first n elements, in the order of the text.
Parameters(e, n) ==
    LET among[i \in Nat] ==
            IF i = 0 THEN <<>>
            ELSE IF IsParameterOf(i, e) THEN Append(among[i - 1], i) ELSE among[i - 1]
    IN  among[n]

AllParameters(e) == Parameters(e, Len(tpl.elements))

\* getParent, and again; the root has the parent 0.
Above == LET above[e \in {0} \union Elements] ==
                 IF e = 0 THEN {} ELSE {Element(e).parent} \union above[Element(e).parent]
         IN  above

Below(e, kinds) == {c \in Elements : e \in Above[c] /\ Kind(c) \in kinds}
UnderTable(e) == \E a \in Above[e] \ {0} : Kind(a) = "Table"

Unmapped == -1      \* rows that are not yet counted
Zeros == 0          \* a row of the buffer without a line of the seed

\* A constructor leaves of its members what it does not name.
NewFunction(source, total, left) ==
    [read |-> FALSE, source |-> source, total |-> total, left |-> left, percents |-> <<>>, current |-> 0,
     asks |-> {}]

NewTable(number, size) ==
    [files |-> number, size |-> size, seedRows |-> 0, lines |-> 0, rows |-> Unmapped, buffer |-> <<>>, copied |-> 0]

Init ==
    /\ tpl \in Templates
    /\ past = <<>> /\ phase = "new" /\ at = 1
    /\ functions = {} /\ files = {} /\ interfaces = <<>> /\ tables = {} /\ asked = {}
    /\ params = [e \in Elements |-> <<>>]
    /\ fn = [e \in Elements |-> NewFunction("Other", 0, 0)]
    /\ table = [e \in Elements |-> NewTable(0, 0)]
    /\ library = 0 /\ feed = 0

Goes(to, next) == phase' = to /\ at' = next /\ UNCHANGED <<tpl, past>>
Ends(how) == Goes(how, at) /\ UNCHANGED <<objects, library, feed>>

\* A new CXmlParser, and the library started.  Of a text that is not XML nothing is kept, and
\* the parser returns true.
Start ==
    /\ phase \in {"new", "refused", "produced"} /\ Len(past) < Requests
    /\ past' = IF phase = "new" THEN past ELSE Append(past, phase)
    /\ functions' = {} /\ files' = {} /\ interfaces' = <<>> /\ tables' = {} /\ asked' = {}
    /\ params' = [e \in Elements |-> <<>>]
    /\ \E source \in Sources, m, n \in Junk :
          /\ fn' = [e \in Elements |-> NewFunction(source, m, n)]
          /\ table' = [e \in Elements |-> NewTable(m, n)]
    /\ library' = library + 1
    /\ phase' = IF tpl.readable THEN "initialise" ELSE "release"
    /\ at' = 1
    /\ UNCHANGED <<tpl, feed>>

-----------------------------------------------------------------------------
(* travelXmlElement: Initialize of each element, before that of its        *)
(* children.                                                               *)

InMap(map, name) == \E e \in map : Element(e).name = name

\* Fault: any function of the template will do.
UsesUndefinedOfAll(e) ==
    Element(e).uses # "none" /\ ~InMap({f \in Elements : Kind(f) = "Function"}, Element(e).uses)

\* An attribute "$name" names a function, which has to be defined before.
UsesUndefined(e) == Element(e).uses # "none" /\ ~InMap(functions, Element(e).uses)

ColumnKinds == {"Column", "SubColumn", "Bit"}
HaveFunctions == {"Column", "SubColumn", "Function"}

\* The attributes that have to be there, and to say what they may; a parameter's name says
\* what it is.  A column's function may miss its type: nobody looks.
TableNeeds == {"interval"}
FunctionNeeds == {"genFuncName"}
FuncNeeds == {"type"}
FileNeeds == {"path", "sourceType"}
FileColumnNeeds == {"type", "colIdx"}

Needs(e) ==
    CASE Kind(e) = "Table" -> TableNeeds
      [] Kind(e) = "Function" -> FunctionNeeds \union FuncNeeds
      [] Kind(e) = "SubColumn" -> FuncNeeds
      [] Kind(e) = "DimensionalFile" -> FileNeeds
      [] Kind(e) = "FileColumn" -> FileColumnNeeds
      [] Kind(e) = "Parameter" -> {"name"}
      [] OTHER -> {}

Lacks(e) == Needs(e) \intersect Element(e).lacks # {}

\* An attribute that nobody knows, or that names a function that is not there, ends the
\* reading of the attributes; an interface goes on with those it has.
BadAttributes(e) == Kind(e) # "Interface" /\ (Element(e).unknown \/ UsesUndefined(e))

\* A subcolumn gives its function to that of its parent, which has to be one that merges.
MergedByNobody(e) ==
    /\ Kind(e) = "SubColumn" /\ Kind(Element(e).parent) \in {"Column", "SubColumn"}
    /\ Element(Element(e).parent).func # "Merge"

Misplaced(e) ==
    LET parent == Element(e).parent
    IN  \/ Kind(e) \in ColumnKinds /\ ~UnderTable(e)
        \/ Kind(e) = "Parameter" /\ Kind(parent) \notin HaveFunctions
        \/ Kind(e) = "Table" /\ parent = 0

\* A table takes its parent for an interface.  A function that is not found is taken from the
\* place behind the last, whatever that holds.
Astray(e) ==
    \/ Kind(e) = "Table" /\ Element(e).parent # 0 /\ Kind(Element(e).parent) # "Interface"
    \/ UsesUndefined(e)

DefinedTwice(e) ==
    \/ Kind(e) = "Function" /\ InMap(functions, Element(e).name)
    \/ Kind(e) = "DimensionalFile" /\ InMap(files, Element(e).name)

Refused(e) ==
    \/ Kind(e) = "Invalid" \/ BadAttributes(e) \/ Lacks(e)
    \/ Misplaced(e) \/ MergedByNobody(e) \/ DefinedTwice(e)

\* addObjectInMapper of the interface: of tables with one name the first; nobody looks at
\* what it returns.
Mapped(e) ==
    IF Kind(e) = "Table" /\ \A t \in tables : <<Element(t).parent, Element(t).name>> # <<Element(e).parent, Element(e).name>>
    THEN {e} ELSE {}

\* The lines of all the files of a directory go to the end of its feed.
FeedAfter(e) ==
    IF Kind(e) = "Table" /\ Element(e).seed.kind = "directory" THEN feed + Element(e).seed.lines ELSE feed

\* A parameter gives itself to the function of its parent.
Given(e) ==
    IF Kind(e) = "Parameter" THEN [params EXCEPT ![Element(e).parent] = Append(@, e)] ELSE params

Initialize ==
    /\ phase = "initialise" /\ at \in Elements
    /\ LET e == at
       IN  \/ Astray(e) /\ Ends("undefined")
           \/ /\ Refused(e)
              /\ feed' \in {FeedAfter(e)} \union (IF BadAttributes(e) THEN {feed} ELSE {})
              /\ Goes("refused", e)
              /\ UNCHANGED <<objects, library>>
           \/ /\ ~Astray(e) /\ ~Refused(e)
              /\ functions' = functions \union (IF Kind(e) = "Function" THEN {e} ELSE {})
              /\ files' = files \union (IF Kind(e) = "DimensionalFile" THEN {e} ELSE {})
              /\ interfaces' = IF Kind(e) = "Interface" THEN Append(interfaces, e) ELSE interfaces
              /\ tables' = tables \union Mapped(e)
              /\ params' = Given(e)
              /\ feed' = FeedAfter(e)
              /\ Goes("initialise", e + 1)
              /\ UNCHANGED <<fn, table, asked, library>>

\* The root has to be a model.
EndOfElements ==
    /\ phase = "initialise" /\ at = Len(tpl.elements) + 1
    /\ IF \E e \in Elements : Kind(e) = "AligndataModel"
       THEN Goes("layout", 1) /\ UNCHANGED <<objects, library, feed>>
       ELSE Ends("refused")

-----------------------------------------------------------------------------
(* SetAllItemOffset: what parse_node does for the tables of the            *)
(* interfaces.  RecordLayout has the offsets.                              *)

\* What atol makes of the number of rows; of "$name" it makes 0.
RowsInText(e) == IF Element(e).rowNum.kind = "function" THEN 0 ELSE Element(e).rowNum.n

\* SetAlignseedfilenum: the rows of the seed that are used.
SeedRows(e, lines) ==
    IF Element(e).rowNum.kind \in {"none", "perFlow"} THEN 0
    ELSE IF lines > RowsInText(e) THEN RowsInText(e) % Word ELSE lines

\* processItem.  When it returns early the rest keeps what it had, and nobody looks.
ProcessItem(e) ==
    LET seed == Element(e).seed
        lines == IF seed.kind = "directory" THEN feed ELSE seed.lines
    IN  CASE seed.kind \in {"none", "badType"} -> table[e]
          [] seed.kind = "nowhere" -> [table[e] EXCEPT !.size = Element(e).size]
          [] seed.kind = "empty" -> [table[e] EXCEPT !.files = Element(e).fileNum]
          [] OTHER -> [table[e] EXCEPT !.files = Element(e).fileNum, !.size = Element(e).size,
                                       !.lines = lines, !.seedRows = SeedRows(e, lines)]

\* Fault: the objects of a table know their parents already.
GivenOnce(e) == params

\* The table sets the parents of its objects once more, and the parameters give themselves to
\* the functions once more.
GivenAgain(e) ==
    [c \in Elements |->
        IF c \in Below(e, HaveFunctions) THEN params[c] \o AllParameters(c) ELSE params[c]]

LayTable ==
    /\ phase = "layout" /\ at \in Elements
    /\ IF Kind(at) = "Table" /\ Element(at).seed.kind = "noBody"
       THEN Ends("undefined")
       ELSE /\ params' = IF Kind(at) = "Table" THEN GivenAgain(at) ELSE params
            /\ table' = IF Kind(at) = "Table" THEN [table EXCEPT ![at] = ProcessItem(at)] ELSE table
            /\ Goes("layout", at + 1)
            /\ UNCHANGED <<functions, files, interfaces, tables, fn, asked, library, feed>>

EndOfLayout ==
    /\ phase = "layout" /\ at = Len(tpl.elements) + 1
    /\ Goes("process", 1)
    /\ UNCHANGED <<objects, library, feed>>

-----------------------------------------------------------------------------
(* ProcessObject: processOjbect of each element, before its children.      *)

IsRedefineRow(e) == Kind(e) = "Function" /\ Element(e).func = "RedefineRow"

\* RedefineRowFunc::process refuses a parameter.
BadParameter(f, q) ==
    \/ q.text = "empty"
    \/ q.tag = "SourceType" /\ q.says = "Invalid"
    \/ q.tag = "Percent" /\ f.source = "File" /\ q.says = "unknown"

\* It goes on with the others unless it did.
ReadParameter(f, p) ==
    LET q == Element(p)
    IN  IF ~f.read \/ BadParameter(f, q) THEN [f EXCEPT !.read = FALSE]
        ELSE CASE q.tag = "SourceType" -> [f EXCEPT !.source = q.says]
               [] q.tag = "TotNumber" -> [f EXCEPT !.total = q.says, !.left = q.says % Word]
               [] q.tag = "Percent" /\ f.source = "Default" -> [f EXCEPT !.percents = @ \o q.numbers]
               [] q.tag = "Percent" /\ f.source = "File" -> [f EXCEPT !.asks = @ \union q.asks]
               [] OTHER -> f

ReadParameters(f, parameters) == FoldLeft(ReadParameter, f, parameters)

\* They say nothing of its counter.
ReadFunction(e) ==
    LET f == ReadParameters([fn[e] EXCEPT !.read = Element(e).processes], params[e])
    IN  [read |-> f.read, source |-> f.source, total |-> f.total, left |-> f.left,
         percents |-> f.percents, current |-> fn[e].current, asks |-> f.asks]

ProcessFunction ==
    /\ phase = "process" /\ at \in Elements /\ IsRedefineRow(at)
    /\ IF ReadFunction(at).read
       THEN /\ fn' = [fn EXCEPT ![at] = ReadFunction(at)]
            /\ asked' = asked \union ReadFunction(at).asks
            /\ Goes("process", at + 1)
            /\ UNCHANGED <<functions, files, interfaces, tables, params, table, library, feed>>
       ELSE Ends("refused")

\* What the function of a column, and a parameter, make of themselves: see RandomFunc.
ProcessOther ==
    /\ phase = "process" /\ at \in Elements
    /\ Kind(at) \notin {"Table", "SubColumn"} /\ ~IsRedefineRow(at)
    /\ IF Element(at).processes
       THEN /\ asked' = asked \union Element(at).asks
            /\ Goes("process", at + 1)
            /\ UNCHANGED <<functions, files, interfaces, tables, params, fn, table, library, feed>>
       ELSE Ends("refused")

\* Without its bits a subcolumn is one of an address, which are not merged by them.
BitsMissing(e) == "bitLen" \in Element(e).lacks /\ ~Element(Element(e).parent).address

\* A subcolumn takes its parent for a column.
ProcessSubColumn ==
    /\ phase = "process" /\ at \in Elements /\ Kind(at) = "SubColumn"
    /\ LET e == at
           column == Kind(Element(e).parent) \in HaveFunctions
       IN  \/ Element(e).processes /\ ~column /\ Ends("undefined")
           \/ (~Element(e).processes \/ (column /\ BitsMissing(e))) /\ Ends("refused")
           \/ /\ Element(e).processes /\ column /\ ~BitsMissing(e)
              /\ asked' = asked \union Element(e).asks
              /\ Goes("process", e + 1)
              /\ UNCHANGED <<functions, files, interfaces, tables, params, fn, table, library, feed>>

-----------------------------------------------------------------------------
(* RedefineRowFunc::Calculate: f is asked for the rows of the next of n    *)
(* files.  Each of these is the set of what f may become, with the value.   *)

Gives(f, rows) == <<[f EXCEPT !.left = @ - rows], rows>>

\* percent / 10000 * total as doubles, cut to a whole number: a product that is whole may come
\* out below it, and one that has no place in 32 bits as anything.
Product(percent, total) ==
    LET exact == (percent * total) \div Whole
    IN  IF exact >= Word THEN 0..(Word - 1)
        ELSE {exact} \union (IF exact > 0 /\ (percent * total) % Whole = 0 THEN {exact - 1} ELSE {})

\* CalulateRowbaseOnPercent
Share(f, percent) ==
    {Gives(f, IF f.left >= rows THEN rows ELSE f.left) : rows \in Product(percent, f.total)}

\* Fault: one file more is to come.
RestAndOne(f, n) == {Gives(f, f.left \div (n - f.current + 2))}

\* CalculateOutofRownumber: files without a percentage share what is left.
Rest(f, n) == {Gives(f, f.left \div (n - f.current + 1))}

\* The dimension files are loaded after the tables ask: no rows are found in them, and it fails.
Calculated(f, n) ==
    LET g == [f EXCEPT !.current = @ + 1]
    IN  IF g.current > n \/ g.source = "Other" THEN {Gives(g, 0)}
        ELSE IF g.source = "File" THEN {}
        ELSE IF g.current <= Len(g.percents) THEN Share(g, g.percents[g.current]) ELSE Rest(g, n)

\* The function that e names.
Used(e) == CHOOSE f \in functions : Element(f).name = Element(e).uses

\* A function of the base class makes no value, which is 0; others are not named by tables here.
Offers(f, n) == IF IsRedefineRow(f) THEN Calculated(fn[f], n) ELSE {<<fn[f], 0>>}

Asks(e) == Element(e).processes /\ Element(e).rowNum.kind = "function"

\* mmap, and memset: what can't be mapped is not found out.
Mapping(e, rows) ==
    IF rows * table[e].size > Memory THEN Goes("undefined", e) /\ UNCHANGED <<table, asked>>
    ELSE /\ table' = [table EXCEPT ![e] = [@ EXCEPT !.rows = rows, !.buffer = [i \in 1..rows |-> Zeros]]]
         /\ asked' = asked \union Element(e).asks
         /\ Goes("process", e + 1)

\* calculateRowNum of a table whose number of rows is a text.
RowsOf(e) ==
    LET rows == RowsInText(e) % Word
    IN  IF rows = 0 /\ table[e].seedRows # 0 THEN Word - 2 ELSE rows

\* processOjbect of a table: Element(e).processes says whether the columns of other tables are
\* there that its attributes name.
ProcessTable ==
    /\ phase = "process" /\ at \in Elements /\ Kind(at) = "Table"
    /\ LET e == at
           n == table[e].files
       IN  \/ /\ \/ ~Element(e).processes \/ Element(e).rowNum.kind = "none"
                 \/ Asks(e) /\ Offers(Used(e), n) = {}
              /\ Ends("refused")
           \/ /\ Element(e).processes /\ Element(e).rowNum.kind \in {"number", "perFlow"}
              /\ Mapping(e, RowsOf(e))
              /\ UNCHANGED <<functions, files, interfaces, tables, params, fn, library, feed>>
           \/ /\ Asks(e)
              /\ \E given \in Offers(Used(e), n) :
                    /\ fn' = [fn EXCEPT ![Used(e)] = given[1]]
                    /\ Mapping(e, given[2] % Element(Used(e)).wraps)
              /\ UNCHANGED <<functions, files, interfaces, tables, params, library, feed>>

\* LoadDimensionFiles
LoadFiles ==
    /\ phase = "process" /\ at = Len(tpl.elements) + 1
    /\ IF asked \ tpl.onDisk # {} THEN Ends("refused")
       ELSE Goes("release", at) /\ UNCHANGED <<objects, library, feed>>

\* Fault: the library is left as it is.
NotTerminated == library' = library

Terminated == library' = library - 1

\* The parser is done; the production begins.
Release ==
    /\ phase = "release"
    /\ Terminated
    /\ Goes("fill", 1)
    /\ UNCHANGED <<objects, feed>>

-----------------------------------------------------------------------------
(* fillAlltheTableData, of the tables the interfaces know.                 *)

Seeded(e) == e \in tables /\ table[e].seedRows # 0

\* The rows of the next memcpy: those of the seed, or the rest.
Chunk(t) ==
    IF t.copied = 0 \/ t.rows - t.copied > t.seedRows THEN t.seedRows ELSE t.rows - t.copied

\* Fault: the rows of the end that are fewer than those of the seed are left.
ToCopyWhole(e) ==
    Seeded(e) /\ Element(e).mode = "false" /\ table[e].copied + table[e].seedRows <= table[e].rows

ToCopy(e) == Seeded(e) /\ Element(e).mode = "false" /\ table[e].copied < table[e].rows

\* Of a seed that is to be used as a whole.  Behind the lines that were read there is nothing.
CopySeed ==
    /\ phase = "fill" /\ at \in Elements
    /\ ToCopy(at)
    /\ LET t == table[at]
           after == t.copied + Chunk(t)
           rows == [i \in 1..t.rows |-> IF i \in (t.copied + 1)..after THEN i - t.copied ELSE t.buffer[i]]
       IN  IF after > t.rows \/ Chunk(t) > t.lines THEN Ends("undefined")
           ELSE /\ table' = [table EXCEPT ![at] = [@ EXCEPT !.copied = after, !.buffer = rows]]
                /\ Goes("fill", at)
                /\ UNCHANGED <<functions, files, interfaces, tables, params, fn, asked, library, feed>>

\* Of one that is read line by line each row gets the first, to begin with.
NextTable ==
    /\ phase = "fill" /\ at \in Elements
    /\ ~ToCopy(at)
    /\ LET first == Seeded(at) /\ Element(at).mode = "true"
           rows == [i \in 1..table[at].rows |-> 1]
       IN  IF first /\ table[at].rows > 0 /\ table[at].lines = 0 THEN Ends("undefined")
           ELSE /\ table' = IF first THEN [table EXCEPT ![at].buffer = rows] ELSE table
                /\ Goes("fill", at + 1)
                /\ UNCHANGED <<functions, files, interfaces, tables, params, fn, asked, library, feed>>

\* What the threads of the interfaces go on with is in TableProduction.
EndOfFill ==
    /\ phase = "fill" /\ at = Len(tpl.elements) + 1
    /\ Ends("produced")

Next ==
    \/ Start
    \/ Initialize \/ EndOfElements
    \/ LayTable \/ EndOfLayout
    \/ ProcessFunction \/ ProcessOther \/ ProcessSubColumn \/ ProcessTable \/ LoadFiles \/ Release
    \/ CopySeed \/ NextTable \/ EndOfFill

Spec == Init /\ [][Next]_vars

-----------------------------------------------------------------------------
(* Properties.                                                             *)

\* A table is told its rows only by a function that was processed: functions are defined
\* before they are named, and processed before the tables that name them.
ReadyWhenAsked == \A e \in Elements : fn[e].current > 0 => fn[e].read

\* The tables whose rows f gave.
Customers(f) == {e \in Elements : Kind(e) = "Table" /\ table[e].rows # Unmapped /\ Asks(e) /\ Used(e) = f}

SumOf(numbers) == FoldFunction(+, 0, numbers)

\* The rows that a function of a total gave and those it has left are the total, as the 32 bits
\* it keeps it in; and when as many tables asked as each has files, the last of them without a
\* percentage, none is left.
RowsOfTotal ==
    \A f \in functions :
        LET asking == Customers(f)
            n == Cardinality(asking)
            given == SumOf([e \in asking |-> table[e].rows])
        IN  /\ fn[f].read /\ fn[f].source = "Default" /\ Element(f).wraps = Word
            /\ phase \in {"process", "release", "fill"}
            /\ \E p \in Range(params[f]) : Element(p).tag = "TotNumber"
            => /\ given + fn[f].left = fn[f].total % Word
               /\ n > Len(fn[f].percents) /\ (\A e \in asking : table[e].files = n) => fn[f].left = 0

\* When the production begins row i of a table holds the line of the seed it should: the lines
\* in turn, each time from the first, no more of them than were read and than the table has
\* rows.
SeedIsCopied ==
    phase = "produced" =>
        \A e \in tables :
            LET t == table[e]
            IN  Seeded(e) => \A i \in 1..t.rows :
                    /\ t.buffer[i] <= Min({t.lines, t.rows})
                    /\ t.buffer[i] = CASE Element(e).mode = "false" -> ((i - 1) % Min({t.lines, t.rows})) + 1
                                       [] Element(e).mode = "true" -> 1
                                       [] OTHER -> Zeros

\* The tables that e stands in.
TablesAround(e) == {t \in Elements : Kind(t) = "Table" /\ t \in Above[e]}

\* What functions are processed with: of a column its parameters twice over, as RandomFunc has
\* it, of a Function element outside the tables once.
ParametersTwice ==
    phase = "process" =>
        \A e \in Elements :
            Kind(e) \in HaveFunctions =>
                /\ TablesAround(e) = {} => params[e] = AllParameters(e)
                /\ Cardinality(TablesAround(e)) = 1 => params[e] = AllParameters(e) \o AllParameters(e)

\* A parser that refuses its template leaves the XML library started; no other does.
LibraryHeldByRefused ==
    phase # "undefined" =>
        library = Cardinality({i \in DOMAIN past : past[i] = "refused"})
                  + IF phase \in {"new", "fill", "produced"} THEN 0 ELSE 1

\* AlignDataObject.cc logs that a function is not defined in the xml file, and refuses it.
UnknownFunctionRefused ==
    phase = "undefined" => ~(at \in Elements /\ UsesUndefined(at))
=============================================================================
