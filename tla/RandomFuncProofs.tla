-------------------------- MODULE RandomFuncProofs --------------------------
(***************************************************************************)
(* Proofs about RandomFunc, for every set of templates: a column that      *)
(* draws from a dimension file gets a field of the column its parameter    *)
(* names, rows fail only for a column with a reason, the rows of a window  *)
(* are drawn in turn, and the files of a column share the rows as their    *)
(* percentages say.                                                        *)
(*                                                                         *)
(* All rest on what the parameters leave behind.  A dimension column that  *)
(* was asked for is mapped to a position of its file where a column with   *)
(* its index is loaded, and stays mapped to it; the row drawn next is      *)
(* one of the file's, however its ranges and windows were cut; and the     *)
(* array of picks has each file as often as its percentage says, however   *)
(* it was shuffled.                                                        *)
(***************************************************************************)
EXTENDS RandomFunc, SequenceTheorems, FiniteSetTheorems, WellFoundedInduction, TLAPS

Phases == {"process", "depend", "load", "rows"} \union Ended

Placed ==
    /\ tpl \in Templates /\ phase \in Phases
    /\ DOMAIN at = 1..2 /\ at[1] \in DOMAIN tpl.columns /\ at[2] \in Nat
    /\ row \in 0..(tpl.rows - 1)
    /\ phase \in {"process", "depend"} => at[2] # 0

(* The columns to load, and what the functions ask for of them.            *)
InfoOK ==
    /\ info \in [Files -> Seq(DOMAIN tpl.dim)] /\ mapping \in [DOMAIN tpl.dim -> Nat]
    /\ \A file \in Files : \A i \in DOMAIN info[file] : File(info[file][i]) = file

Asked(d) ==
    /\ mapping[d] \in DOMAIN info[File(d)]
    /\ tpl.dim[info[File(d)][mapping[d]]].idx = tpl.dim[d].idx

Dependencies ==
    [dim : DOMAIN tpl.dim, percent : Nat, number : Nat, init : Nat, end : Nat, last : Nat]

Shaped(g) ==
    /\ DOMAIN g = {"type", "values", "low", "high", "percent", "deps", "dims", "key", "picks",
                   "pick", "windows"}
    /\ g.low \in Nat /\ g.high \in Nat
    /\ g.deps \in Seq(DOMAIN tpl.tables)
    /\ g.dims \in Seq(Dependencies)
    /\ DOMAIN g.picks = 1..Hundred /\ g.pick \in 1..Hundred
    /\ \A i \in 1..Hundred : g.picks[i] \in DOMAIN g.dims \union {1}

FunctionOK(g) == Shaped(g) /\ \A k \in DOMAIN g.dims : Asked(g.dims[k].dim)

SaidBy(type, c) ==
    type \in FileKinds
    => \E p \in Range(tpl.columns[c].parameters) : p.tag = "SourceType" /\ p.says = type

FunctionsOK ==
    /\ DOMAIN fn = DOMAIN tpl.columns
    /\ \A c \in DOMAIN fn : FunctionOK(fn[c]) /\ SaidBy(fn[c].type, c)

(* The files, while rows are made.                                         *)
LoadedOK ==
    phase = "rows" =>
        /\ Missing = {}
        /\ \E garbled \in BOOLEAN :
              data = [file \in AskedFor |->
                         [i \in DOMAIN tpl.reads[file] |-> LoadedRow(file, i, garbled)]]

(* The row to draw next is one of the file's, or the file's end.           *)
Ahead(dep) ==
    Lines(dep) # 0 => /\ dep.init = 0 \/ dep.init < Lines(dep)
                      /\ dep.last = 0 \/ dep.last <= Lines(dep)

AheadOK ==
    \A c \in DOMAIN fn : \A k \in DOMAIN fn[c].dims :
        /\ phase \in {"process", "depend", "load"} =>
              fn[c].dims[k].init = 0 /\ fn[c].dims[k].last = 0
        /\ phase = "rows" => Ahead(fn[c].dims[k])

IInv == Placed /\ InfoOK /\ FunctionsOK /\ LoadedOK /\ AheadOK

-----------------------------------------------------------------------------
(* Numbers and sequences.                                                  *)

LEMMA Least ==
    ASSUME NEW T \in SUBSET Nat, T # {}
    PROVE  \E m \in T : \A k \in T : m <= k
<1>. DEFINE R == OpToRel(<, Nat)
<1>1. IsWellFoundedOn(R, Nat)
    BY NatLessThanWellFounded
<1>. HIDE DEF R
<1>2. \E x \in T : \A y \in T : ~(<<y, x>> \in R)
    BY <1>1, WFMin
<1>3. \A x, y \in Nat : <<y, x>> \in R <=> y < x
    BY DEF R, OpToRel
<1>4. PICK x \in T : \A y \in T : ~(<<y, x>> \in R)
    BY <1>2
<1>5. \A y \in T : ~(y < x)
    BY <1>3, <1>4
<1>. QED
    BY <1>4, <1>5

LEMMA MinOf ==
    ASSUME NEW T \in SUBSET Nat, T # {}
    PROVE  Min(T) \in T /\ \A k \in T : Min(T) <= k
BY Least DEF Min

LEMMA MaxOf ==
    ASSUME NEW T \in SUBSET Nat, T # {}, NEW n \in Nat, \A k \in T : k <= n
    PROVE  Max(T) \in T /\ \A k \in T : Max(T) >= k
<1>. DEFINE U == {n - k : k \in T}
<1>1. U \in SUBSET Nat /\ U # {}
    <2>1. \A k \in T : n - k \in Nat
        OBVIOUS
    <2>. QED
        BY <2>1
<1>2. PICK m \in U : \A k \in U : m <= k
    BY <1>1, Least
<1>3. PICK x \in T : m = n - x
    BY <1>2
<1>4. \A k \in T : x >= k
    BY <1>2, <1>3
<1>. QED
    BY <1>3, <1>4 DEF Max

LEMMA TemplateIs ==
    ASSUME Placed
    PROVE  /\ tpl.columns \in Seq(Range(tpl.columns)) /\ tpl.columns # <<>>
           /\ tpl.rows \in Nat \ {0}
           /\ \A c \in DOMAIN tpl.columns :
                 /\ tpl.columns[c].parameters \in Seq(Range(tpl.columns[c].parameters))
                 /\ \A p \in Range(tpl.columns[c].parameters) :
                       p.tag \in {"LowRange", "HighRange"} /\ p.text = "digits" => p.says \in Nat
                 /\ \A type \in FileKinds, p \in Range(tpl.columns[c].parameters) :
                       SaidBy(type, c) /\ p.tag = "Value" /\ p.text # "empty"
                       => p.says.percent \in Nat /\ p.says.number \in Nat
<1>1. \A c \in DOMAIN tpl.columns : tpl.columns[c] \in Range(tpl.columns)
    BY DEF Range
<1>2. tpl \in Templates
    BY DEF Placed
<1>. QED
    BY <1>1, <1>2, TemplatesAssumption DEF SaidBy

\* The parameter under way is one of the column's.
LEMMA ParameterIs ==
    ASSUME Placed, at[2] \in DOMAIN Parameters(at[1])
    PROVE  parameter \in Range(column.parameters)
<1>. DEFINE s == column.parameters
<1>1. s \in Seq(Range(s))
    BY TemplateIs DEF Placed, column
<1>2. Parameters(at[1]) = s \o s
    BY DEF Parameters, column
<1>. HIDE DEF s
<1>3. s \o s \in Seq(Range(s))
    BY <1>1, ConcatProperties
<1>. QED
    BY <1>2, <1>3, ElementOfSeq, LenProperties DEF parameter, s

-----------------------------------------------------------------------------
(* The invariant holds at the start, and each step keeps it.               *)

LEMMA InitInvariant == Init => IInv
<1>. SUFFICES ASSUME Init PROVE IInv
    OBVIOUS
<1>1. tpl \in Templates /\ phase = "process" /\ at = <<1, 1>> /\ row = 0
    BY DEF Init
<1>2. /\ tpl.columns \in Seq(Range(tpl.columns)) /\ tpl.columns # <<>> /\ tpl.rows \in Nat \ {0}
    BY <1>1, TemplatesAssumption
<1>3. 1 \in DOMAIN tpl.columns
    BY <1>2, EmptySeq, LenProperties
<1>4. Placed
    BY <1>1, <1>2, <1>3 DEF Placed, Phases
<1>5. InfoOK
    BY DEF Init, DimensionInit, InfoOK, Files
<1>6. FunctionsOK
    <2>1. DOMAIN fn = DOMAIN tpl.columns /\ \A c \in DOMAIN fn : fn[c] = Function
        BY DEF Init
    <2>2. /\ DOMAIN Function = {"type", "values", "low", "high", "percent", "deps", "dims", "key",
                                 "picks", "pick", "windows"}
          /\ Function.low = 0 /\ Function.high = MaxUint64 /\ Function.type = "Invalid"
          /\ Function.deps = <<>> /\ Function.dims = <<>> /\ Function.pick = 1
          /\ DOMAIN Function.picks = 1..Hundred /\ \A i \in 1..Hundred : Function.picks[i] = 1
        BY DEF Function
    <2>3. MaxUint64 \in Nat /\ 1 \in 1..Hundred
        BY RandomAssumption
    <2>4. \A g : g.deps = <<>> /\ g.dims = <<>> =>
              g.deps \in Seq(DOMAIN tpl.tables) /\ g.dims \in Seq(Dependencies) /\ DOMAIN g.dims = {}
        BY EmptySeq
    <2>5. FunctionOK(Function)
        BY <2>2, <2>3, <2>4 DEF FunctionOK, Shaped
    <2>6. \A c : SaidBy("Invalid", c)
        BY DEF SaidBy, FileKinds
    <2>. QED
        BY <2>1, <2>2, <2>5, <2>6 DEF FunctionsOK
<1>7. LoadedOK
    BY <1>1 DEF LoadedOK
<1>8. AheadOK
    BY DEF Init, Function, AheadOK
<1>. QED
    BY <1>4, <1>5, <1>6, <1>7, <1>8 DEF IInv

LEMMA StepPlaced ==
    ASSUME Placed, [Next]_vars
    PROVE  Placed' /\ tpl' = tpl
<1>1. /\ tpl \in Templates /\ phase \in Phases /\ DOMAIN at = 1..2
      /\ at[1] \in DOMAIN tpl.columns /\ at[2] \in Nat /\ row \in 0..(tpl.rows - 1)
    BY DEF Placed
<1>2. /\ tpl.columns \in Seq(Range(tpl.columns)) /\ tpl.columns # <<>> /\ tpl.rows \in Nat \ {0}
    BY TemplateIs
<1>3. DOMAIN tpl.columns = 1..Len(tpl.columns) /\ Len(tpl.columns) \in Nat
      /\ 1 \in DOMAIN tpl.columns
    BY <1>2, EmptySeq, LenProperties
<1>4. ASSUME NEW how \in Ended, Halts(how)
      PROVE  Placed' /\ tpl' = tpl
    BY <1>1, <1>4 DEF Placed, Halts, Phases, Ended
<1>5. ASSUME NextColumn, phase = "rows"
      PROVE  Placed' /\ tpl' = tpl
    <2>1. tpl' = tpl /\ phase' \in {"done", "rows"}
          /\ (at' = <<1, 0>> \/ (at[1] # Len(tpl.columns) /\ at' = <<at[1] + 1, 0>>))
          /\ (row' = row \/ row' = (row + 1) % tpl.rows)
        BY <1>5 DEF NextColumn
    <2>2. row' \in 0..(tpl.rows - 1)
        <3>1. (row + 1) % tpl.rows \in 0..(tpl.rows - 1)
            BY <1>1, <1>2
        <3>. QED
            BY <1>1, <2>1, <3>1
    <2>3. DOMAIN at' = 1..2 /\ at'[1] \in DOMAIN tpl.columns /\ at'[2] \in Nat
        BY <1>1, <1>3, <2>1
    <2>. QED
        BY <1>1, <2>1, <2>2, <2>3 DEF Placed, Phases, Ended
<1>6. CASE ProcessParameter
    <2>1. CASE Ends("refused") \/ Ends("undefined")
        BY <1>4, <2>1 DEF Ends, Ended
    <2>2. CASE at' = [at EXCEPT ![2] = @ + 1] /\ UNCHANGED <<tpl, phase, row>>
        BY <1>1, <2>2 DEF Placed
    <2>. QED
        BY <1>6, <2>1, <2>2 DEF ProcessParameter
<1>7. CASE EndParameters
    <2>1. CASE Ends("refused") \/ Ends("undefined")
        BY <1>4, <2>1 DEF Ends, Ended
    <2>2. CASE phase' = "depend" /\ UNCHANGED <<tpl, at, row>>
        BY <1>1, <1>7, <2>2 DEF Placed, EndParameters, Phases
    <2>. QED
        BY <1>7, <2>1, <2>2 DEF EndParameters, Ends, Halts
<1>8. CASE AddDependencies
    <2>1. CASE Ends("refused")
        BY <1>4, <2>1 DEF Ends, Ended
    <2>2. CASE UNCHANGED <<tpl, row, at>> /\ phase' = "load"
        BY <1>1, <2>2 DEF Placed, Phases
    <2>3. CASE UNCHANGED <<tpl, row>> /\ phase' = "process" /\ at' = <<at[1] + 1, 1>>
               /\ at[1] # Len(tpl.columns)
        BY <1>1, <1>3, <2>3 DEF Placed, Phases
    <2>. QED
        BY <1>8, <2>1, <2>2, <2>3 DEF AddDependencies
<1>9. CASE LoadFiles
    <2>1. CASE Ends("refused")
        BY <1>4, <2>1 DEF Ends, Ended
    <2>2. CASE UNCHANGED <<tpl, row>> /\ phase' = "rows" /\ at' = <<1, 0>>
        BY <1>1, <1>3, <2>2 DEF Placed, Phases
    <2>. QED
        BY <1>9, <2>1, <2>2 DEF LoadFiles
<1>. USE <1>4, <1>5 DEF Calculates, Ends, Ended, Give, GiveNumber, GiveNumberOrNot
<1>10. CASE DefaulRandomCalculate \/ PercentRandomCalculate
    BY <1>10 DEF DefaulRandomCalculate, PercentRandomCalculate
<1>11. CASE NatureRandomCaculate \/ PseudoRandomCaculate
    BY <1>11 DEF NatureRandomCaculate, PseudoRandomCaculate
<1>12. CASE TableRandomCalculate \/ LessOrMoreCalculate
    BY <1>12 DEF TableRandomCalculate, LessOrMoreCalculate
<1>13. CASE FileRandomCalculate \/ MultiFileRandomCalculate
    <2>1. phase = "rows" /\ \/ Ends("failed")
                            \/ \E d, r : SetsValue(d, r)
        BY <1>13 DEF FileRandomCalculate, MultiFileRandomCalculate
    <2>2. \A d, r : SetsValue(d, r) => Halts("crashed") \/ Halts("failed") \/ NextColumn
        BY DEF SetsValue
    <2>. QED
        BY <2>1, <2>2
<1>14. CASE MappingRandomCalculate \/ NothingCalculate
    BY <1>14 DEF MappingRandomCalculate, NothingCalculate
<1>15. CASE UNCHANGED vars
    BY <1>15 DEF vars, Placed
<1>. QED
    BY <1>6, <1>7, <1>8, <1>9, <1>10, <1>11, <1>12, <1>13, <1>14, <1>15 DEF Next, Calculate

-----------------------------------------------------------------------------
(* The columns of the dimension files.                                     *)

LEMMA PositionIs ==
    ASSUME InfoOK, NEW d \in DOMAIN tpl.dim
    PROVE  /\ SameColumn(d) # {} => PositionOf(d) \in SameColumn(d)
           /\ SameColumn(d) = {} => PositionOf(d) = Len(info[File(d)]) + 1
           /\ SameColumn(d) \subseteq DOMAIN info[File(d)]
           /\ info[File(d)] \in Seq(DOMAIN tpl.dim) /\ File(d) \in Files
<1>1. File(d) \in Files /\ info[File(d)] \in Seq(DOMAIN tpl.dim)
    BY DEF InfoOK, Files
<1>2. SameColumn(d) \subseteq DOMAIN info[File(d)] /\ DOMAIN info[File(d)] \subseteq Nat
    BY <1>1, LenProperties DEF SameColumn
<1>3. SameColumn(d) # {} => Min(SameColumn(d)) \in SameColumn(d)
    BY <1>2, MinOf
<1>. QED
    BY <1>1, <1>2, <1>3 DEF PositionOf

LEMMA AddKeepsInfo ==
    ASSUME InfoOK, tpl' = tpl, NEW d \in DOMAIN tpl.dim, AddDimensionInfo(d)
    PROVE  /\ InfoOK' /\ Asked(d)'
           /\ \A e \in DOMAIN tpl.dim : Asked(e) => Asked(e)'
<1>. DEFINE name == File(d)
            s == info[name]
            n == Len(s)
<1>1. /\ name \in Files /\ s \in Seq(DOMAIN tpl.dim) /\ n \in Nat /\ DOMAIN s = 1..n
      /\ DOMAIN info = Files
    BY PositionIs, LenProperties DEF InfoOK
<1>2. mapping' = [mapping EXCEPT ![d] = PositionOf(d)] /\ DOMAIN mapping = DOMAIN tpl.dim
    BY DEF AddDimensionInfo, InfoOK
<1>3. Files' = Files /\ \A e : File(e)' = File(e)
    BY DEF Files, File
<1>4. CASE SameColumn(d) # {}
    <2>1. info' = info /\ PositionOf(d) \in SameColumn(d) /\ SameColumn(d) \subseteq DOMAIN s
        BY <1>4, PositionIs DEF AddDimensionInfo
    <2>2. PositionOf(d) \in Nat
        BY <1>1, <2>1
    <2>3. InfoOK'
        BY <1>1, <1>2, <1>3, <2>1, <2>2 DEF InfoOK
    <2>4. mapping'[d] = PositionOf(d)
        BY <1>2
    <2>5. Asked(d)'
        BY <1>3, <2>1, <2>4 DEF Asked, SameColumn
    <2>6. ASSUME NEW e \in DOMAIN tpl.dim, Asked(e) PROVE Asked(e)'
        <3>1. CASE e = d
            BY <2>5, <3>1
        <3>2. CASE e # d
            <4>1. mapping'[e] = mapping[e]
                BY <1>2, <3>2
            <4>. QED
                BY <1>3, <2>1, <2>6, <4>1 DEF Asked
        <3>. QED
            BY <3>1, <3>2
    <2>. QED
        BY <2>3, <2>5, <2>6
<1>5. CASE SameColumn(d) = {}
    <2>1. PositionOf(d) = n + 1 /\ info' = [info EXCEPT ![name] = Append(s, d)]
        BY <1>5, PositionIs DEF AddDimensionInfo
    <2>2. /\ Append(s, d) \in Seq(DOMAIN tpl.dim) /\ DOMAIN Append(s, d) = 1..(n + 1)
          /\ Append(s, d)[n + 1] = d /\ \A i \in 1..n : Append(s, d)[i] = s[i]
        <3>1. /\ Append(s, d) \in Seq(DOMAIN tpl.dim) /\ Len(Append(s, d)) = n + 1
              /\ Append(s, d)[n + 1] = d /\ \A i \in 1..n : Append(s, d)[i] = s[i]
            BY <1>1, AppendProperties
        <3>. QED
            BY <3>1, LenProperties
    <2>3. info'[name] = Append(s, d) /\ DOMAIN info' = Files
          /\ \A other \in Files : other # name => info'[other] = info[other]
        BY <1>1, <2>1
    <2>4. mapping'[d] = n + 1 /\ n + 1 \in Nat
        BY <1>1, <1>2, <2>1
    <2>5. ASSUME NEW other \in Files
          PROVE  /\ info'[other] \in Seq(DOMAIN tpl.dim)
                 /\ DOMAIN info[other] \subseteq DOMAIN info'[other]
                 /\ \A i \in DOMAIN info[other] : info'[other][i] = info[other][i]
                 /\ \A i \in DOMAIN info'[other] : File(info'[other][i]) = other
        <3>1. CASE other = name
            <4>1. \A i \in 1..(n + 1) : i \in 1..n \/ i = n + 1
                BY <1>1
            <4>2. \A i \in 1..n : File(s[i]) = name
                BY <1>1 DEF InfoOK
            <4>3. info'[other] = Append(s, d) /\ info[other] = s /\ 1..n \subseteq 1..(n + 1)
                BY <1>1, <2>3, <3>1
            <4>. HIDE DEF n, s
            <4>4. \A i \in 1..(n + 1) : File(Append(s, d)[i]) = name
                <5>1. \A i \in 1..n : File(Append(s, d)[i]) = name
                    BY <2>2, <4>2 DEF File
                <5>2. File(Append(s, d)[n + 1]) = name
                    BY <2>2
                <5>. QED
                    BY <4>1, <5>1, <5>2
            <4>. QED
                BY <1>1, <2>2, <3>1, <4>3, <4>4
        <3>2. CASE other # name
            <4>1. info'[other] = info[other]
                BY <2>3, <3>2
            <4>. QED
                BY <4>1 DEF InfoOK
        <3>. QED
            BY <3>1, <3>2
    <2>6. InfoOK'
        <3>1. mapping' \in [DOMAIN tpl.dim -> Nat]
            BY <1>2, <2>1, <2>4 DEF InfoOK
        <3>2. info' \in [Files -> Seq(DOMAIN tpl.dim)]
            <4>1. info' = [other \in Files |-> info'[other]]
                BY <1>1, <2>1
            <4>. QED
                BY <2>5, <4>1
        <3>. QED
            BY <1>3, <2>5, <3>1, <3>2 DEF InfoOK
    <2>7. Asked(d)'
        <3>1. n + 1 \in DOMAIN info'[name] /\ info'[name][n + 1] = d
            BY <1>1, <2>2, <2>3
        <3>. QED
            BY <1>3, <2>4, <3>1 DEF Asked
    <2>8. ASSUME NEW e \in DOMAIN tpl.dim, Asked(e) PROVE Asked(e)'
        <3>1. CASE e = d
            BY <2>7, <3>1
        <3>2. CASE e # d
            <4>1. mapping'[e] = mapping[e]
                BY <1>2, <3>2
            <4>2. File(e) \in Files
                BY DEF Files
            <4>. QED
                BY <1>3, <2>5, <2>8, <4>1, <4>2 DEF Asked
        <3>. QED
            BY <3>1, <3>2
    <2>. QED
        BY <2>6, <2>7, <2>8
<1>. QED
    BY <1>4, <1>5

\* A parameter that asks for a column and is not refused has one that there is.
LEMMA AsksForOne ==
    ASSUME NEW p, Asks(p), ~Refused(p), ~Undefined(p)
    PROVE  p.says.dim \in DOMAIN tpl.dim
BY DEF Asks, Refused, Undefined, NoSuchDimension

LEMMA StepInfo ==
    ASSUME Placed, InfoOK, [Next]_vars
    PROVE  InfoOK' /\ \A e \in DOMAIN tpl.dim : Asked(e) => Asked(e)'
<1>1. tpl' = tpl
    BY StepPlaced
<1>2. ASSUME UNCHANGED <<info, mapping>>
      PROVE  InfoOK' /\ \A e \in DOMAIN tpl.dim : Asked(e) => Asked(e)'
    BY <1>1, <1>2 DEF InfoOK, Asked, Files, File
<1>3. CASE ProcessParameter
    <2>1. CASE Ends("refused") \/ Ends("undefined")
        BY <1>2, <2>1 DEF Ends, Halts, dimensions
    <2>2. CASE UNCHANGED dimensions
        BY <1>2, <2>2 DEF dimensions
    <2>3. CASE /\ ~Refused(parameter) /\ ~Undefined(parameter) /\ Asks(parameter)
               /\ AddDimensionInfo(parameter.says.dim)
        BY <1>1, <2>3, AsksForOne, AddKeepsInfo
    <2>. QED
        BY <1>3, <2>1, <2>2, <2>3 DEF ProcessParameter
<1>. USE <1>2 DEF Ends, Halts, dimensions
<1>4. CASE EndParameters \/ AddDependencies
    BY <1>4 DEF EndParameters, AddDependencies
<1>5. CASE LoadFiles
    BY <1>5 DEF LoadFiles, LoadDimensionFiles
<1>6. ASSUME NextColumn PROVE UNCHANGED <<info, mapping>>
    BY <1>6 DEF NextColumn
<1>. USE <1>6 DEF Give, GiveNumber, GiveNumberOrNot
<1>7. CASE DefaulRandomCalculate \/ PercentRandomCalculate
    BY <1>7 DEF DefaulRandomCalculate, PercentRandomCalculate
<1>8. CASE NatureRandomCaculate \/ PseudoRandomCaculate
    BY <1>8 DEF NatureRandomCaculate, PseudoRandomCaculate
<1>9. CASE TableRandomCalculate \/ LessOrMoreCalculate
    BY <1>9 DEF TableRandomCalculate, LessOrMoreCalculate
<1>10. CASE FileRandomCalculate \/ MultiFileRandomCalculate
    <2>1. Ends("failed") \/ \E d, r : SetsValue(d, r)
        BY <1>10 DEF FileRandomCalculate, MultiFileRandomCalculate
    <2>2. \A d, r : SetsValue(d, r) => Halts("crashed") \/ Halts("failed") \/ NextColumn
        BY DEF SetsValue
    <2>. QED
        BY <2>1, <2>2
<1>11. CASE MappingRandomCalculate \/ NothingCalculate
    BY <1>11 DEF MappingRandomCalculate, NothingCalculate
<1>12. CASE UNCHANGED vars
    BY <1>12 DEF vars
<1>. QED
    BY <1>3, <1>4, <1>5, <1>7, <1>8, <1>9, <1>10, <1>11, <1>12 DEF Next, Calculate

-----------------------------------------------------------------------------
(* The lines of the files that are loaded.                                 *)

LEMMA StepLoaded ==
    ASSUME Placed, LoadedOK, [Next]_vars
    PROVE  LoadedOK'
<1>1. tpl' = tpl
    BY StepPlaced
<1>2. ASSUME phase = "rows", UNCHANGED <<info, mapping, data>> PROVE LoadedOK'
    <2>1. /\ Missing = {}
          /\ \E garbled \in BOOLEAN :
                data = [file \in AskedFor |->
                           [i \in DOMAIN tpl.reads[file] |-> LoadedRow(file, i, garbled)]]
        BY <1>2 DEF LoadedOK
    <2>2. AskedFor' = AskedFor /\ Missing' = Missing
        BY <1>1, <1>2 DEF AskedFor, Missing, Files, File
    <2>3. \A file, i, garbled : LoadedRow(file, i, garbled)' = LoadedRow(file, i, garbled)
        BY <1>1, <1>2 DEF LoadedRow
    <2>. QED
        BY <1>1, <1>2, <2>1, <2>2, <2>3 DEF LoadedOK
<1>3. ASSUME phase' # "rows" PROVE LoadedOK'
    BY <1>3 DEF LoadedOK
<1>4. CASE ProcessParameter \/ EndParameters \/ AddDependencies
    BY <1>3, <1>4 DEF ProcessParameter, EndParameters, AddDependencies, Ends, Halts
<1>5. CASE LoadFiles
    <2>1. CASE Ends("refused")
        BY <1>3, <2>1 DEF Ends, Halts
    <2>2. CASE Missing = {} /\ LoadDimensionFiles
        <3>1. /\ UNCHANGED <<info, mapping>>
              /\ \E garbled \in BOOLEAN :
                    data' = [file \in AskedFor |->
                                [i \in DOMAIN tpl.reads[file] |-> LoadedRow(file, i, garbled)]]
            BY <2>2 DEF LoadDimensionFiles
        <3>2. AskedFor' = AskedFor /\ Missing' = Missing
            BY <1>1, <3>1 DEF AskedFor, Missing, Files, File
        <3>3. \A file, i, garbled : LoadedRow(file, i, garbled)' = LoadedRow(file, i, garbled)
            BY <1>1, <3>1 DEF LoadedRow
        <3>. QED
            BY <1>1, <2>2, <3>1, <3>2, <3>3 DEF LoadedOK
    <2>. QED
        BY <1>5, <2>1, <2>2 DEF LoadFiles
<1>. USE <1>2 DEF Calculates, Ends, Halts, dimensions, NextColumn, Give, GiveNumber, GiveNumberOrNot
<1>6. CASE DefaulRandomCalculate \/ PercentRandomCalculate
    BY <1>6 DEF DefaulRandomCalculate, PercentRandomCalculate
<1>7. CASE NatureRandomCaculate \/ PseudoRandomCaculate
    BY <1>7 DEF NatureRandomCaculate, PseudoRandomCaculate
<1>8. CASE TableRandomCalculate \/ LessOrMoreCalculate
    BY <1>8 DEF TableRandomCalculate, LessOrMoreCalculate
<1>9. CASE FileRandomCalculate \/ MultiFileRandomCalculate
    <2>1. phase = "rows" /\ (Ends("failed") \/ \E d, r : SetsValue(d, r))
        BY <1>9 DEF FileRandomCalculate, MultiFileRandomCalculate
    <2>2. \A d, r : SetsValue(d, r) => Halts("crashed") \/ Halts("failed") \/ NextColumn
        BY DEF SetsValue
    <2>. QED
        BY <2>1, <2>2
<1>10. CASE MappingRandomCalculate \/ NothingCalculate
    BY <1>10 DEF MappingRandomCalculate, NothingCalculate
<1>11. CASE UNCHANGED vars
    BY <1>3, <1>11 DEF vars
<1>. QED
    BY <1>4, <1>5, <1>6, <1>7, <1>8, <1>9, <1>10, <1>11 DEF Next, Calculate

\* While rows are made a file that was asked for has the lines it has in the template.
LEMMA LinesAre ==
    ASSUME Placed, InfoOK, LoadedOK, phase = "rows", NEW d \in DOMAIN tpl.dim, Asked(d)
    PROVE  /\ File(d) \in DOMAIN tpl.reads /\ File(d) \in DOMAIN data
           /\ Len(data[File(d)]) \in Nat
           /\ DOMAIN data[File(d)] = 1..Len(data[File(d)])
           /\ DOMAIN tpl.reads[File(d)] = 1..Len(data[File(d)])
           /\ HasRows(File(d)) <=> Len(data[File(d)]) # 0
           /\ \E garbled \in BOOLEAN : \A i \in DOMAIN data[File(d)] :
                 data[File(d)][i] = LoadedRow(File(d), i, garbled)
<1>. DEFINE file == File(d)
            n == Len(tpl.reads[file])
<1>1. file \in Files /\ info[file] # <<>>
    <2>1. mapping[d] \in DOMAIN info[file]
        BY DEF Asked
    <2>2. DOMAIN <<>> = {}
        OBVIOUS
    <2>3. file \in Files
        BY DEF Files
    <2>. QED
        BY <2>1, <2>2, <2>3
<1>2. file \in AskedFor
    BY <1>1 DEF AskedFor
<1>3. file \in DOMAIN tpl.reads
    BY <1>2 DEF LoadedOK, Missing
<1>4. tpl.reads[file] \in Seq(Range(tpl.reads[file]))
    BY <1>3, TemplatesAssumption DEF Placed
<1>5. n \in Nat /\ DOMAIN tpl.reads[file] = 1..n
    BY <1>4, LenProperties
<1>6. PICK garbled \in BOOLEAN :
          data = [name \in AskedFor |-> [i \in DOMAIN tpl.reads[name] |-> LoadedRow(name, i, garbled)]]
    BY DEF LoadedOK
<1>. HIDE DEF file, n
<1>7. file \in DOMAIN data /\ data[file] = [i \in 1..n |-> LoadedRow(file, i, garbled)]
    BY <1>2, <1>5, <1>6
<1>8. data[file] \in Seq(Range(data[file])) /\ Len(data[file]) = n
    <2>1. data[file] \in [1..n -> Range(data[file])] /\ DOMAIN data[file] = 1..n
        BY <1>7 DEF Range
    <2>. QED
        BY <1>5, <2>1, SeqDef, LenProperties
<1>9. data[file] # <<>> <=> n # 0
    BY <1>5, <1>8, EmptySeq, LenProperties
<1>. QED
    BY <1>3, <1>5, <1>7, <1>8, <1>9 DEF file, HasRows

-----------------------------------------------------------------------------
(* The functions.                                                          *)

LEMMA FunctionKept ==
    ASSUME Placed, InfoOK, [Next]_vars
    PROVE  \A g : FunctionOK(g) => FunctionOK(g)'
<1>1. tpl' = tpl /\ \A e \in DOMAIN tpl.dim : Asked(e) => Asked(e)'
    BY StepPlaced, StepInfo
<1>2. Dependencies' = Dependencies
    BY <1>1 DEF Dependencies
<1>3. ASSUME NEW g, FunctionOK(g)
      PROVE  FunctionOK(g)'
    <2>1. g.dims \in Seq(Dependencies)
        BY <1>3 DEF FunctionOK, Shaped
    <2>2. \A k \in DOMAIN g.dims : g.dims[k].dim \in DOMAIN tpl.dim
        <3>1. \A k \in DOMAIN g.dims : g.dims[k] \in Dependencies
            BY <2>1, ElementOfSeq, LenProperties
        <3>. QED
            BY <3>1 DEF Dependencies
    <2>. QED
        BY <1>1, <1>2, <1>3, <2>2 DEF FunctionOK, Shaped
<1>. QED
    BY <1>3

\* What a parameter makes of its function.
LEMMA ReadIs ==
    ASSUME NEW p
    PROVE  \/ Read(p) = f
           \/ p.tag = "SourceType" /\ Read(p) = [f EXCEPT !.type = p.says]
           \/ Read(p) = [f EXCEPT !.values = f.values + p.says]
           \/ /\ p.tag = "Value" /\ f.type \in FileKinds /\ p.says.dim # NoReference
              /\ Read(p) = [f EXCEPT !.dims = Append(f.dims, Dependency(p.says))]
           \/ p.tag = "LowRange" /\ Read(p) = [f EXCEPT !.low = p.says]
           \/ p.tag = "HighRange" /\ Read(p) = [f EXCEPT !.high = p.says]
           \/ Read(p) = [f EXCEPT !.percent = p.says]
           \/ Read(p) = [f EXCEPT !.key = File(p.says.dim)]
BY DEF Read

LEMMA ReadKeeps ==
    ASSUME Placed, Shaped(f), SaidBy(f.type, at[1]),
           NEW p \in Range(column.parameters), ~Refused(p), ~Undefined(p)
    PROVE  /\ Shaped(Read(p)) /\ SaidBy(Read(p).type, at[1])
           /\ DOMAIN f.dims \subseteq DOMAIN Read(p).dims
           /\ \A k \in DOMAIN Read(p).dims :
                 \/ k \in DOMAIN f.dims /\ Read(p).dims[k] = f.dims[k]
                 \/ Asks(p) /\ Read(p).dims[k] = Dependency(p.says)
<1>. DEFINE g == Read(p)
<1>1. at[1] \in DOMAIN tpl.columns /\ column = tpl.columns[at[1]]
    BY DEF Placed, column
<1>2. DOMAIN f = {"type", "values", "low", "high", "percent", "deps", "dims", "key", "picks",
                  "pick", "windows"}
    BY DEF Shaped
<1>3. ASSUME DOMAIN g = DOMAIN f, g.type = f.type \/ (p.tag = "SourceType" /\ g.type = p.says),
             g.low = f.low \/ (p.tag = "LowRange" /\ g.low = p.says),
             g.high = f.high \/ (p.tag = "HighRange" /\ g.high = p.says),
             g.deps = f.deps, g.dims = f.dims, g.picks = f.picks, g.pick = f.pick
      PROVE  Shaped(g) /\ SaidBy(g.type, at[1])
    <2>1. p.tag \in {"LowRange", "HighRange"} => p.says \in Nat
        BY <1>1, TemplateIs DEF Refused
    <2>2. SaidBy(g.type, at[1])
        BY <1>1, <1>3 DEF SaidBy
    <2>3. Shaped(g)
        BY <1>3, <2>1 DEF Shaped
    <2>. QED
        BY <2>2, <2>3
<1>. USE <1>2
<1>4. CASE g = f
    BY <1>3, <1>4
<1>5. CASE p.tag = "SourceType" /\ g = [f EXCEPT !.type = p.says]
    BY <1>3, <1>5
<1>6. CASE g = [f EXCEPT !.values = f.values + p.says]
    BY <1>3, <1>6
<1>7. CASE /\ p.tag = "Value" /\ f.type \in FileKinds /\ p.says.dim # NoReference
           /\ g = [f EXCEPT !.dims = Append(f.dims, Dependency(p.says))]
    <2>1. p.text # "empty" /\ Asks(p)
        BY <1>7 DEF Undefined, Asks
    <2>2. p.says.dim \in DOMAIN tpl.dim
        BY <2>1, AsksForOne
    <2>3. p.says.percent \in Nat /\ p.says.number \in Nat
        BY <1>1, <1>7, <2>1, TemplateIs
    <2>4. p.says.percent % Byte \in Nat
        BY <2>3, RandomAssumption
    <2>5. /\ Dependency(p.says) \in Dependencies /\ Dependency(p.says).dim = p.says.dim
        BY <2>2, <2>3, <2>4 DEF Dependency, Dependencies
    <2>. DEFINE e == Dependency(p.says)
                s == f.dims
                n == Len(s)
    <2>. HIDE DEF e
    <2>6. s \in Seq(Dependencies) /\ n \in Nat /\ DOMAIN s = 1..n
        BY LenProperties DEF Shaped
    <2>7. /\ Append(s, e) \in Seq(Dependencies) /\ DOMAIN Append(s, e) = 1..(n + 1)
          /\ Append(s, e)[n + 1] = e /\ \A i \in 1..n : Append(s, e)[i] = s[i]
        <3>1. /\ Append(s, e) \in Seq(Dependencies) /\ Len(Append(s, e)) = n + 1
              /\ Append(s, e)[n + 1] = e /\ \A i \in 1..n : Append(s, e)[i] = s[i]
            BY <2>5, <2>6, AppendProperties DEF e
        <3>. QED
            BY <3>1, LenProperties
    <2>8. /\ DOMAIN g = DOMAIN f /\ g.type = f.type /\ g.low = f.low /\ g.high = f.high
          /\ g.deps = f.deps /\ g.picks = f.picks /\ g.pick = f.pick /\ g.dims = Append(s, e)
        BY <1>7 DEF e
    <2>11. \A i \in 1..Hundred : f.picks[i] \in 1..(n + 1)
        BY <2>6 DEF Shaped
    <2>. HIDE DEF n, s, g
    <2>12. \A k \in 1..(n + 1) : k \in 1..n \/ k = n + 1
        BY <2>6
    <2>13. Shaped(g) /\ SaidBy(g.type, at[1])
        BY <2>7, <2>8, <2>11 DEF Shaped, SaidBy
    <2>14. 1..n \subseteq 1..(n + 1)
        BY <2>6
    <2>. QED
        <3>1. \A k \in DOMAIN g.dims :
                  (k \in DOMAIN s /\ g.dims[k] = s[k]) \/ (Asks(p) /\ g.dims[k] = e)
            BY <2>1, <2>6, <2>7, <2>8, <2>12
        <3>. QED
            BY <2>6, <2>7, <2>8, <2>13, <2>14, <3>1 DEF e, s, g
<1>8. CASE p.tag = "LowRange" /\ g = [f EXCEPT !.low = p.says]
    BY <1>3, <1>8
<1>9. CASE p.tag = "HighRange" /\ g = [f EXCEPT !.high = p.says]
    BY <1>3, <1>9
<1>10. CASE g = [f EXCEPT !.percent = p.says]
    BY <1>3, <1>10
<1>11. CASE g = [f EXCEPT !.key = File(p.says.dim)]
    BY <1>3, <1>11
<1>. QED
    BY ReadIs, <1>4, <1>5, <1>6, <1>7, <1>8, <1>9, <1>10, <1>11

LEMMA FileIdxIs ==
    ASSUME NEW k \in Nat \ {0}
    PROVE  FileIdx(k) \in 1..k /\ (k <= Byte => FileIdx(k) = k)
<1>. PICK b \in Nat \ {0} : b = Byte
    BY RandomAssumption
<1>1. (k - 1) % b \in 0..(k - 1)
    OBVIOUS
<1>2. k <= b => (k - 1) % b = k - 1
    OBVIOUS
<1>. QED
    BY <1>1, <1>2 DEF FileIdx

\* Every place of the array has one of the files.
LEMMA PicksAre ==
    ASSUME NEW dims \in Seq(Dependencies), NEW picks \in Shuffled(Filled(dims))
    PROVE  DOMAIN picks = 1..Hundred /\ \A i \in 1..Hundred : picks[i] \in DOMAIN dims \union {1}
<1>. DEFINE a == Filled(dims)
            ks(i) == {k \in DOMAIN dims : i \in Places(dims, k)}
<1>1. Len(dims) \in Nat /\ DOMAIN dims = 1..Len(dims)
    BY LenProperties
<1>2. \A i \in 1..Hundred : a[i] = IF ks(i) = {} THEN 1 ELSE FileIdx(Max(ks(i)))
    BY DEF Filled
<1>3. \A i : ks(i) # {} => Max(ks(i)) \in ks(i)
    <2>1. ASSUME NEW i, ks(i) # {} PROVE Max(ks(i)) \in ks(i)
        <3>1. ks(i) \in SUBSET Nat /\ \A k \in ks(i) : k <= Len(dims)
            BY <1>1
        <3>. HIDE DEF ks
        <3>. QED
            BY <1>1, <2>1, <3>1, MaxOf
    <2>. QED
        BY <2>1
<1>4. \A i : ks(i) \subseteq DOMAIN dims
    OBVIOUS
<1>7. \A k \in DOMAIN dims : FileIdx(k) \in DOMAIN dims
    BY <1>1, FileIdxIs
<1>. HIDE DEF ks
<1>5. \A i \in 1..Hundred : a[i] \in DOMAIN dims \union {1}
    BY <1>2, <1>3, <1>4, <1>7
<1>. HIDE DEF a
<1>6. picks \in [1..Hundred -> {a[i] : i \in 1..Hundred}]
    BY DEF Shuffled, a
<1>. QED
    BY <1>5, <1>6

WindowSet(dep) ==
    /\ dep.number \in 1..Lines(dep) /\ dep.init \in 0..(Lines(dep) - 1)
    /\ dep.end = (dep.init + dep.number) % Lines(dep)

\* The windows go to the files before the first without lines, and start at their first row.
LEMMA WindowsAre ==
    ASSUME NEW dims \in Seq(Dependencies), \A k \in DOMAIN dims : Lines(dims[k]) \in Nat,
           NEW w \in Windows(dims)
    PROVE  /\ w \in Seq(Dependencies) /\ DOMAIN w = DOMAIN dims
           /\ \A k \in DOMAIN dims :
                 /\ w[k].dim = dims[k].dim /\ w[k].percent = dims[k].percent
                 /\ w[k] = dims[k] \/ (WindowSet(w[k]) /\ w[k].last = w[k].init)
                 /\ (\A j \in 1..k : Lines(dims[j]) # 0) => WindowSet(w[k]) /\ w[k].last = w[k].init
<1>. DEFINE empty == {k \in DOMAIN dims : Lines(dims[k]) = 0}
            done == IF empty = {} THEN Len(dims) ELSE Min(empty) - 1
            number(k) == IF dims[k].number = 0 \/ dims[k].number > Lines(dims[k])
                         THEN Lines(dims[k]) ELSE dims[k].number
<1>1. Len(dims) \in Nat /\ DOMAIN dims = 1..Len(dims)
    BY LenProperties
<1>2. \A k \in DOMAIN dims : dims[k] \in Dependencies
    BY <1>1, ElementOfSeq
<1>3. /\ done \in Int
      /\ \A k \in DOMAIN dims : k <= done => Lines(dims[k]) # 0
      /\ \A k \in DOMAIN dims : k > done => \E j \in 1..k : Lines(dims[j]) = 0
    <2>1. CASE empty = {}
        BY <1>1, <2>1
    <2>2. CASE empty # {}
        <3>1. empty \in SUBSET Nat
            BY <1>1
        <3>2. Min(empty) \in empty /\ \A k \in empty : Min(empty) <= k
            BY <2>2, <3>1, MinOf
        <3>3. done = Min(empty) - 1
            BY <2>2
        <3>4. /\ Min(empty) \in 1..Len(dims) /\ Lines(dims[Min(empty)]) = 0
              /\ \A k \in DOMAIN dims : Lines(dims[k]) = 0 => Min(empty) <= k
            BY <1>1, <3>2
        <3>. HIDE DEF empty, done
        <3>. QED
            BY <1>1, <3>3, <3>4
    <2>. QED
        BY <2>1, <2>2
<1>4. PICK inits \in [DOMAIN dims -> 0..RandMax] :
          /\ \A k \in DOMAIN dims : inits[k] < Lines(dims[k]) \/ (inits[k] = 0 /\ k > done)
          /\ w = [k \in DOMAIN dims |->
                     IF k > done THEN dims[k]
                     ELSE [dims[k] EXCEPT !.number = number(k), !.init = inits[k], !.last = inits[k],
                                          !.end = (inits[k] + number(k)) % Lines(dims[k])]]
    <2>1. Windows(dims) =
             {[k \in DOMAIN dims |->
                  IF k > done THEN dims[k]
                  ELSE [dims[k] EXCEPT !.number = number(k), !.init = inits[k], !.last = inits[k],
                                       !.end = (inits[k] + number(k)) % Lines(dims[k])]] :
               inits \in {s \in [DOMAIN dims -> 0..RandMax] :
                             \A k \in DOMAIN dims :
                                 s[k] < Lines(dims[k]) \/ (s[k] = 0 /\ k > done)}}
        BY DEF Windows
    <2>. HIDE DEF done, number
    <2>. QED
        BY <2>1
<1>. HIDE DEF done, empty
<1>5. ASSUME NEW k \in DOMAIN dims
      PROVE  /\ w[k] \in Dependencies
             /\ w[k].dim = dims[k].dim /\ w[k].percent = dims[k].percent
             /\ w[k] = dims[k] \/ (WindowSet(w[k]) /\ w[k].last = w[k].init)
             /\ (\A j \in 1..k : Lines(dims[j]) # 0) => WindowSet(w[k]) /\ w[k].last = w[k].init
    <2>1. CASE k > done
        BY <1>2, <1>3, <1>4, <2>1
    <2>2. CASE ~(k > done)
        <3>. DEFINE L == Lines(dims[k])
        <3>1. L \in Nat \ {0} /\ k <= done
            BY <1>1, <1>3, <2>2
        <3>2. inits[k] \in 0..RandMax /\ RandMax \in Nat /\ inits[k] < L
            BY <1>4, <2>2, RandomAssumption
        <3>3. number(k) \in 1..L
            <4>1. dims[k].number \in Nat
                BY <1>2 DEF Dependencies
            <4>. HIDE DEF L
            <4>. QED
                BY <3>1, <4>1 DEF L
        <3>. HIDE DEF number
        <3>4. /\ w[k] = [dims[k] EXCEPT !.number = number(k), !.init = inits[k], !.last = inits[k],
                                        !.end = (inits[k] + number(k)) % L]
              /\ dims[k] \in Dependencies
            BY <1>2, <1>4, <2>2
        <3>5. /\ DOMAIN dims[k] = {"dim", "percent", "number", "init", "end", "last"}
              /\ dims[k].dim \in DOMAIN tpl.dim /\ dims[k].percent \in Nat
            BY <3>4 DEF Dependencies
        <3>6. /\ w[k].number = number(k) /\ w[k].init = inits[k] /\ w[k].last = inits[k]
              /\ w[k].end = (inits[k] + number(k)) % L
              /\ w[k].dim = dims[k].dim /\ w[k].percent = dims[k].percent
            BY <3>4, <3>5
        <3>7. (inits[k] + number(k)) % L \in Nat
            BY <3>1, <3>2, <3>3
        <3>8. w[k] \in Dependencies
            <4>1. number(k) \in Nat /\ inits[k] \in Nat
                BY <3>1, <3>2, <3>3
            <4>. HIDE DEF L
            <4>. QED
                BY <3>4, <3>7, <4>1 DEF Dependencies
        <3>9. Lines(w[k]) = L
            BY <3>6 DEF Lines
        <3>. HIDE DEF L
        <3>10. inits[k] \in 0..(L - 1)
            BY <3>1, <3>2
        <3>11. WindowSet(w[k]) /\ w[k].last = w[k].init
            BY <3>3, <3>6, <3>9, <3>10 DEF WindowSet
        <3>. QED
            BY <3>6, <3>8, <3>11
    <2>. QED
        BY <2>1, <2>2
<1>6. w \in [1..Len(dims) -> Dependencies] /\ DOMAIN w = DOMAIN dims
    BY <1>1, <1>4, <1>5
<1>7. w \in Seq(Dependencies)
    BY <1>1, <1>6, SeqDef
<1>. QED
    BY <1>5, <1>6, <1>7

-----------------------------------------------------------------------------
(* The rows that are drawn are the file's.                                 *)

LEMMA RowAtIs ==
    ASSUME NEW dep \in Dependencies, Lines(dep) \in Nat \ {0}, Ahead(dep)
    PROVE  RowAt(dep) \in 0..(Lines(dep) - 1)
<1>1. dep.init \in Nat /\ dep.last \in Nat
    BY DEF Dependencies
<1>2. dep.init < Lines(dep) /\ dep.last <= Lines(dep)
    BY DEF Ahead
<1>. QED
    BY <1>1, <1>2 DEF RowAt

\* The function after a row of file k was drawn, and what a draw of MultiFile does.
Drawn(dims, k) ==
    [f EXCEPT !.dims = [dims EXCEPT ![k] = [dims[k] EXCEPT !.last = RowAt(dims[k]) + 1]],
              !.pick = (f.pick % Hundred) + 1,
              !.windows = f.windows \/ (row = 0 /\ ~f.windows)]

Draws(dims, k) ==
    /\ f.dims # <<>> /\ k = f.picks[f.pick] /\ HasRows(File(f.dims[k].dim))
    /\ IF row = 0 /\ ~f.windows THEN dims \in Windows(f.dims) ELSE dims = f.dims
    /\ SetsValue(dims[k].dim, RowAt(dims[k]))
    /\ fn' = [fn EXCEPT ![at[1]] = Drawn(dims, k)]
    /\ picked' = [picked EXCEPT ![at[1]] = Append(@, <<k, RowAt(dims[k])>>)]

\* A row is drawn, or there are no files, or the file whose turn it is has none.
LEMMA MultiIs ==
    ASSUME Placed, FunctionsOK, MultiFileRandomCalculate
    PROVE  /\ phase = "rows" /\ f.type = "MultiFile"
           /\ \/ /\ Ends("failed")
                 /\ f.dims = <<>> \/ \E k \in DOMAIN f.dims : ~HasRows(File(f.dims[k].dim))
              \/ \E dims, k : Draws(dims, k)
<1>. DEFINE k == f.picks[f.pick]
<1>1. FunctionOK(f)
    BY DEF Placed, FunctionsOK, f
<1>2. f.dims # <<>> => k \in DOMAIN f.dims
    <2>1. k \in DOMAIN f.dims \union {1}
        BY <1>1 DEF FunctionOK, Shaped
    <2>2. f.dims # <<>> => 1 \in DOMAIN f.dims
        BY <1>1, EmptySeq, LenProperties DEF FunctionOK, Shaped
    <2>. QED
        BY <2>1, <2>2
<1>3. phase = "rows" /\ f.type = "MultiFile"
    BY DEF MultiFileRandomCalculate, Calculates
<1>4. CASE f.dims = <<>> \/ (f.dims # <<>> /\ ~HasRows(File(f.dims[k].dim)))
    <2>1. Ends("failed")
        BY <1>4 DEF MultiFileRandomCalculate
    <2>. QED
        BY <1>2, <1>3, <1>4, <2>1
<1>5. CASE ~(f.dims = <<>> \/ (f.dims # <<>> /\ ~HasRows(File(f.dims[k].dim))))
    <2>1. PICK dims \in (IF row = 0 /\ ~f.windows THEN Windows(f.dims) ELSE {f.dims}) :
              /\ SetsValue(dims[k].dim, RowAt(dims[k]))
              /\ fn' = [fn EXCEPT ![at[1]] =
                           [f EXCEPT !.dims = [dims EXCEPT ![k].last = RowAt(dims[k]) + 1],
                                     !.pick = (f.pick % Hundred) + 1,
                                     !.windows = f.windows \/ (row = 0 /\ ~f.windows)]]
              /\ picked' = [picked EXCEPT ![at[1]] = Append(@, <<k, RowAt(dims[k])>>)]
        BY <1>5 DEF MultiFileRandomCalculate
    <2>2. Draws(dims, k)
        BY <1>5, <2>1 DEF Draws, Drawn
    <2>. QED
        BY <1>3, <2>2
<1>. QED
    BY <1>4, <1>5

LEMMA DrawsFrom ==
    ASSUME Placed, InfoOK, FunctionsOK, LoadedOK, AheadOK, phase = "rows",
           NEW dims, NEW k, Draws(dims, k)
    PROVE  /\ dims \in Seq(Dependencies) /\ DOMAIN dims = DOMAIN f.dims /\ k \in DOMAIN dims
           /\ \A j \in DOMAIN dims :
                 /\ dims[j] \in Dependencies /\ dims[j].dim = f.dims[j].dim
                 /\ dims[j].percent = f.dims[j].percent
                 /\ Asked(dims[j].dim) /\ Lines(dims[j]) \in Nat /\ Ahead(dims[j])
           /\ Lines(dims[k]) \in Nat \ {0}
           /\ RowAt(dims[k]) \in 0..(Lines(dims[k]) - 1)
<1>1. FunctionOK(f) /\ at[1] \in DOMAIN fn /\ f = fn[at[1]]
    BY DEF Placed, FunctionsOK, f
<1>2. f.dims \in Seq(Dependencies) /\ f.dims # <<>>
    BY <1>1 DEF FunctionOK, Shaped, Draws
<1>3. k \in DOMAIN f.dims
    <2>1. k \in DOMAIN f.dims \union {1}
        BY <1>1 DEF FunctionOK, Shaped, Draws
    <2>. QED
        BY <1>2, <2>1, EmptySeq, LenProperties
<1>4. \A j \in DOMAIN f.dims :
          f.dims[j] \in Dependencies /\ Asked(f.dims[j].dim) /\ Ahead(f.dims[j])
    <2>1. \A j \in DOMAIN f.dims : f.dims[j] \in Dependencies
        BY <1>2, ElementOfSeq, LenProperties
    <2>. QED
        BY <1>1, <2>1 DEF FunctionOK, Shaped, AheadOK
<1>5. \A dep \in Dependencies : dep.dim \in DOMAIN tpl.dim
    BY DEF Dependencies
<1>6. \A dep \in Dependencies : Asked(dep.dim) => Lines(dep) \in Nat
    BY <1>5, LinesAre DEF Lines
<1>7. /\ dims \in Seq(Dependencies) /\ DOMAIN dims = DOMAIN f.dims
      /\ \A j \in DOMAIN f.dims :
            /\ dims[j].dim = f.dims[j].dim /\ dims[j].percent = f.dims[j].percent
            /\ dims[j] = f.dims[j] \/ (WindowSet(dims[j]) /\ dims[j].last = dims[j].init)
    <2>1. CASE row = 0 /\ ~f.windows
        BY <1>2, <1>4, <1>6, <2>1, WindowsAre DEF Draws
    <2>2. CASE ~(row = 0 /\ ~f.windows)
        BY <1>2, <2>2 DEF Draws
    <2>. QED
        BY <2>1, <2>2
<1>8. \A j \in DOMAIN dims : dims[j] \in Dependencies
    BY <1>7, ElementOfSeq, LenProperties
<1>9. ASSUME NEW j \in DOMAIN dims
      PROVE  Asked(dims[j].dim) /\ Lines(dims[j]) \in Nat /\ Ahead(dims[j])
    <2>1. Asked(dims[j].dim)
        BY <1>4, <1>7 DEF Asked, File
    <2>2. Lines(dims[j]) \in Nat
        BY <1>6, <1>8, <2>1
    <2>3. dims[j].init \in Nat
        BY <1>8 DEF Dependencies
    <2>4. Ahead(dims[j])
        <3>1. CASE dims[j] = f.dims[j]
            BY <1>4, <1>7, <3>1 DEF Ahead, Lines
        <3>2. CASE WindowSet(dims[j]) /\ dims[j].last = dims[j].init
            BY <2>2, <2>3, <3>2 DEF Ahead, WindowSet
        <3>. QED
            BY <1>7, <3>1, <3>2
    <2>. QED
        BY <2>1, <2>2, <2>4
<1>10. Lines(dims[k]) \in Nat \ {0}
    <2>1. HasRows(File(dims[k].dim))
        BY <1>3, <1>7 DEF Draws, File
    <2>. QED
        BY <1>3, <1>5, <1>7, <1>8, <1>9, <2>1, LinesAre DEF Lines
<1>11. RowAt(dims[k]) \in 0..(Lines(dims[k]) - 1)
    BY <1>3, <1>7, <1>8, <1>9, <1>10, RowAtIs
<1>. QED
    BY <1>3, <1>7, <1>8, <1>9, <1>10, <1>11

LEMMA DrawnIs ==
    ASSUME Placed, InfoOK, FunctionsOK, LoadedOK, AheadOK, phase = "rows",
           NEW dims, NEW k, Draws(dims, k)
    PROVE  LET g == Drawn(dims, k)
           IN  /\ DOMAIN g = DOMAIN f /\ g.type = f.type /\ g.low = f.low /\ g.high = f.high
               /\ g.deps = f.deps /\ g.picks = f.picks /\ g.pick = (f.pick % Hundred) + 1
               /\ g.windows = (f.windows \/ (row = 0 /\ ~f.windows))
               /\ g.dims \in Seq(Dependencies) /\ DOMAIN g.dims = DOMAIN f.dims
               /\ \A j \in DOMAIN g.dims :
                     /\ g.dims[j].dim = dims[j].dim /\ g.dims[j].percent = dims[j].percent
                     /\ g.dims[j].init = dims[j].init /\ g.dims[j].number = dims[j].number
                     /\ g.dims[j].end = dims[j].end
                     /\ j # k => g.dims[j] = dims[j]
                     /\ Lines(g.dims[j]) = Lines(dims[j]) /\ Ahead(g.dims[j])
               /\ g.dims[k].last = RowAt(dims[k]) + 1
               /\ FunctionOK(g)
<1>. DEFINE g == Drawn(dims, k)
            e == [dims[k] EXCEPT !.last = RowAt(dims[k]) + 1]
            s == [dims EXCEPT ![k] = e]
<1>1. /\ dims \in Seq(Dependencies) /\ DOMAIN dims = DOMAIN f.dims /\ k \in DOMAIN dims
      /\ \A j \in DOMAIN dims :
            /\ dims[j] \in Dependencies /\ dims[j].dim = f.dims[j].dim
            /\ dims[j].percent = f.dims[j].percent
            /\ Asked(dims[j].dim) /\ Lines(dims[j]) \in Nat /\ Ahead(dims[j])
      /\ Lines(dims[k]) \in Nat \ {0}
      /\ RowAt(dims[k]) \in 0..(Lines(dims[k]) - 1)
    BY DrawsFrom
<1>2. FunctionOK(f)
    BY DEF Placed, FunctionsOK, f
<1>3. DOMAIN f = {"type", "values", "low", "high", "percent", "deps", "dims", "key", "picks",
                  "pick", "windows"}
    BY <1>2 DEF FunctionOK, Shaped
<1>4. /\ DOMAIN g = DOMAIN f /\ g.type = f.type /\ g.low = f.low /\ g.high = f.high
      /\ g.deps = f.deps /\ g.picks = f.picks /\ g.pick = (f.pick % Hundred) + 1
      /\ g.windows = (f.windows \/ (row = 0 /\ ~f.windows)) /\ g.dims = s
    BY <1>3 DEF Drawn
<1>5. /\ e \in Dependencies /\ e.dim = dims[k].dim /\ e.percent = dims[k].percent
      /\ e.init = dims[k].init /\ e.number = dims[k].number /\ e.end = dims[k].end
      /\ e.last = RowAt(dims[k]) + 1
    <2>1. RowAt(dims[k]) + 1 \in Nat /\ dims[k] \in Dependencies
        BY <1>1
    <2>. QED
        BY <2>1 DEF Dependencies
<1>6. s[k] = e /\ DOMAIN s = DOMAIN dims /\ \A j \in DOMAIN dims : j # k => s[j] = dims[j]
    BY <1>1
<1>7. s \in Seq(Dependencies)
    BY <1>1, <1>5, ExceptSeq
<1>. HIDE DEF e, s
<1>8. ASSUME NEW j \in DOMAIN s
      PROVE  /\ s[j].dim = dims[j].dim /\ s[j].percent = dims[j].percent
             /\ s[j].init = dims[j].init /\ s[j].number = dims[j].number /\ s[j].end = dims[j].end
             /\ j # k => s[j] = dims[j]
             /\ Lines(s[j]) = Lines(dims[j]) /\ Ahead(s[j]) /\ Asked(s[j].dim)
    <2>1. /\ s[j].dim = dims[j].dim /\ s[j].percent = dims[j].percent
          /\ s[j].init = dims[j].init /\ s[j].number = dims[j].number /\ s[j].end = dims[j].end
          /\ j # k => s[j] = dims[j]
        <3>1. CASE j = k
            BY <1>5, <1>6, <3>1
        <3>2. CASE j # k
            BY <1>6, <3>2
        <3>. QED
            BY <3>1, <3>2
    <2>2. Lines(s[j]) = Lines(dims[j])
        BY <2>1 DEF Lines
    <2>3. Asked(s[j].dim)
        BY <1>1, <1>6, <2>1 DEF Asked, File
    <2>4. Ahead(s[j])
        <3>1. CASE j = k
            <4>1. s[j].last = RowAt(dims[k]) + 1 /\ s[j].init = dims[k].init
                BY <1>5, <1>6, <3>1
            <4>2. dims[k].init < Lines(dims[k])
                BY <1>1 DEF Ahead
            <4>. QED
                BY <1>1, <2>2, <3>1, <4>1, <4>2 DEF Ahead
        <3>2. CASE j # k
            BY <1>1, <1>6, <2>1, <3>2
        <3>. QED
            BY <3>1, <3>2
    <2>. QED
        BY <2>1, <2>2, <2>3, <2>4
<1>. HIDE DEF g
<1>9. FunctionOK(g)
    <2>1. f.pick \in 1..Hundred /\ Hundred \in Nat \ {0}
        BY <1>2, RandomAssumption DEF FunctionOK, Shaped
    <2>2. (f.pick % Hundred) + 1 \in 1..Hundred
        BY <2>1
    <2>3. \A j \in DOMAIN g.dims : Asked(g.dims[j].dim)
        BY <1>4, <1>8
    <2>. QED
        BY <1>1, <1>2, <1>3, <1>4, <1>6, <1>7, <2>2, <2>3 DEF FunctionOK, Shaped
<1>. QED
    BY <1>1, <1>4, <1>5, <1>6, <1>7, <1>8, <1>9 DEF g

\* What a draw of File does to its ranges.
FileDraws(d, low, high, r) ==
    /\ f.dims # <<>> /\ HasRows(File(d)) /\ d = f.dims[1].dim
    /\ low = Clamped(f.low, d)
    /\ high = IF f.high = 0 THEN LastRow(d) ELSE Clamped(f.high, d)
    /\ r \in RandNumer(low, high)
    /\ SetsValue(d, r)
    /\ fn' = [fn EXCEPT ![at[1]] = [f EXCEPT !.low = low, !.high = high]]
    /\ UNCHANGED picked

LEMMA FileIs ==
    ASSUME FileRandomCalculate
    PROVE  /\ phase = "rows" /\ f.type = "File"
           /\ \/ Ends("failed") /\ (f.dims = <<>> \/ ~HasRows(File(f.dims[1].dim)))
              \/ \E d, low, high, r : FileDraws(d, low, high, r)
<1>1. CASE f.dims = <<>> \/ (f.dims # <<>> /\ ~HasRows(File(f.dims[1].dim)))
    BY <1>1 DEF FileRandomCalculate, Calculates
<1>2. CASE ~(f.dims = <<>> \/ (f.dims # <<>> /\ ~HasRows(File(f.dims[1].dim))))
    <2>. DEFINE d == f.dims[1].dim
                low == Clamped(f.low, d)
                high == IF f.high = 0 THEN LastRow(d) ELSE Clamped(f.high, d)
    <2>1. \E r : FileDraws(d, low, high, r)
        BY <1>2 DEF FileRandomCalculate, FileDraws
    <2>. QED
        BY <2>1 DEF FileRandomCalculate, Calculates
<1>. QED
    BY <1>1, <1>2

LEMMA RandNumerIs ==
    ASSUME NEW low \in Nat, NEW high \in Nat, NEW n \in Nat \ {0}, high < n,
           NEW r \in RandNumer(low, high)
    PROVE  r \in 0..(n - 1)
<1>. DEFINE top == IF high = MaxUint64 THEN RandMax ELSE high
<1>1. top \in Nat /\ top < n
    BY RandomAssumption
<1>. HIDE DEF top
<1>2. r \in IF top = 0 \/ low > top THEN {0} ELSE {low + (x % (top - low + 1)) : x \in 0..RandMax}
    BY DEF RandNumer, top
<1>3. CASE top = 0 \/ low > top
    BY <1>1, <1>2, <1>3
<1>4. CASE ~(top = 0 \/ low > top)
    <2>1. PICK x \in 0..RandMax : r = low + (x % (top - low + 1))
        BY <1>2, <1>4
    <2>2. top - low + 1 \in Nat \ {0} /\ x \in Nat
        BY <1>1, <1>4, RandomAssumption
    <2>3. x % (top - low + 1) \in 0..(top - low)
        <3>1. \A m \in Nat \ {0} : x % m \in 0..(m - 1)
            BY <2>2
        <3>2. (top - low + 1) - 1 = top - low
            BY <1>1
        <3>. QED
            BY <2>2, <3>1, <3>2
    <2>. QED
        BY <1>1, <1>4, <2>1, <2>3
<1>. QED
    BY <1>3, <1>4

LEMMA FileDrawsFrom ==
    ASSUME Placed, InfoOK, FunctionsOK, LoadedOK, phase = "rows",
           NEW d, NEW low, NEW high, NEW r, FileDraws(d, low, high, r)
    PROVE  /\ d \in DOMAIN tpl.dim /\ Asked(d)
           /\ low \in Nat /\ high \in Nat
           /\ Len(data[File(d)]) \in Nat \ {0} /\ r \in 0..(Len(data[File(d)]) - 1)
<1>1. FunctionOK(f)
    BY DEF Placed, FunctionsOK, f
<1>2. f.dims \in Seq(Dependencies) /\ f.dims # <<>> /\ d = f.dims[1].dim
    BY <1>1 DEF FunctionOK, Shaped, FileDraws
<1>3. 1 \in DOMAIN f.dims
    BY <1>2, EmptySeq, LenProperties
<1>4. f.dims[1] \in Dependencies /\ Asked(f.dims[1].dim)
    BY <1>1, <1>2, <1>3, ElementOfSeq, LenProperties DEF FunctionOK, Shaped
<1>5. d \in DOMAIN tpl.dim
    BY <1>2, <1>4 DEF Dependencies
<1>6. Asked(d)
    BY <1>2, <1>4
<1>. DEFINE n == Len(data[File(d)])
<1>7. n \in Nat \ {0}
    BY <1>5, <1>6, LinesAre DEF FileDraws
<1>8. f.low \in Nat /\ f.high \in Nat
    BY <1>1 DEF FunctionOK, Shaped
<1>9. low \in Nat /\ high \in Nat /\ high < n
    <2>1. LastRow(d) = n - 1
        BY DEF LastRow
    <2>2. /\ low = Clamped(f.low, d)
          /\ high = IF f.high = 0 THEN LastRow(d) ELSE Clamped(f.high, d)
        BY DEF FileDraws
    <2>. HIDE DEF n
    <2>. QED
        BY <1>7, <1>8, <2>1, <2>2 DEF Clamped
<1>10. r \in RandNumer(low, high)
    BY DEF FileDraws
<1>11. r \in 0..(n - 1)
    BY <1>7, <1>9, <1>10, RandNumerIs
<1>. QED
    BY <1>5, <1>6, <1>7, <1>9, <1>11

\* A step of the rows goes to the next column or ends, and only the draws from files change
\* the functions.
RowsEnd == \E how \in {"failed", "crashed", "undefined"} : Halts(how)

LEMMA RowsStep ==
    ASSUME Placed, FunctionsOK, phase = "rows", [Next]_vars
    PROVE  /\ UNCHANGED <<tpl, info, mapping, data>>
           /\ UNCHANGED vars \/ RowsEnd \/ NextColumn
           /\ \/ UNCHANGED vars
              \/ /\ UNCHANGED <<fn, picked>> /\ DOMAIN value' = DOMAIN value
                 /\ f.type = "MultiFile" => phase' # "rows"
                 /\ \A c \in DOMAIN value : value'[c] = value[c]
                                            \/ (c = at[1] /\ f.type \notin {"File", "MultiFile"})
              \/ f.type = "File" /\ \E d, low, high, r : FileDraws(d, low, high, r)
              \/ f.type = "MultiFile" /\ \E dims, k : Draws(dims, k)
<1>. DEFINE Plain == /\ UNCHANGED <<fn, picked>> /\ DOMAIN value' = DOMAIN value
                     /\ f.type = "MultiFile" => phase' # "rows"
                     /\ \A c \in DOMAIN value : value'[c] = value[c]
                                                \/ (c = at[1] /\ f.type \notin {"File", "MultiFile"})
<1>1. RowsEnd \/ NextColumn => UNCHANGED <<tpl, info, mapping, data>>
    BY DEF RowsEnd, Halts, NextColumn, dimensions
<1>2. \A how \in {"failed", "crashed", "undefined"} : Ends(how) => RowsEnd /\ Plain
    BY DEF Ends, RowsEnd, Halts
<1>3. \A v : Give(v) => NextColumn
    BY DEF Give
<1>4. ASSUME NEW v, Give(v), UNCHANGED <<fn, picked>>, f.type \notin {"File", "MultiFile"}
      PROVE  NextColumn /\ Plain
    BY <1>4 DEF Give
<1>5. ASSUME NEW v, GiveNumber(v), f.type \notin {"File", "MultiFile"}
      PROVE  (RowsEnd \/ NextColumn) /\ Plain
    <2>1. CASE Ends("failed")
        BY <1>2, <2>1
    <2>2. CASE Give(<<"number", v>>) /\ UNCHANGED <<fn, picked>>
        BY <1>4, <1>5, <2>2
    <2>. HIDE DEF Plain
    <2>. QED
        BY <1>5, <2>1, <2>2 DEF GiveNumber
<1>6. ASSUME NEW v, GiveNumberOrNot(v), f.type \notin {"File", "MultiFile"}
      PROVE  NextColumn /\ Plain
    <2>1. \E w : Give(w) /\ UNCHANGED <<fn, picked>>
        BY <1>6 DEF GiveNumberOrNot
    <2>. QED
        BY <1>4, <1>6, <2>1
<1>7. ASSUME NEW d, NEW r, SetsValue(d, r) PROVE RowsEnd \/ NextColumn
    BY <1>3, <1>7 DEF SetsValue, RowsEnd
<1>. HIDE DEF Plain
<1>. USE <1>2, <1>4, <1>5, <1>6 DEF Calculates
<1>9. CASE DefaulRandomCalculate \/ PercentRandomCalculate
    <2>1. (RowsEnd \/ NextColumn) /\ Plain
        BY <1>9 DEF DefaulRandomCalculate, PercentRandomCalculate
    <2>. QED
        BY <1>1, <2>1 DEF Plain
<1>10. CASE NatureRandomCaculate \/ PseudoRandomCaculate
    <2>1. (RowsEnd \/ NextColumn) /\ Plain
        BY <1>10 DEF NatureRandomCaculate, PseudoRandomCaculate
    <2>. QED
        BY <1>1, <2>1 DEF Plain
<1>11. CASE TableRandomCalculate \/ LessOrMoreCalculate
    <2>1. (RowsEnd \/ NextColumn) /\ Plain
        BY <1>11 DEF TableRandomCalculate, LessOrMoreCalculate
    <2>. QED
        BY <1>1, <2>1 DEF Plain
<1>12. CASE MappingRandomCalculate
    <2>1. RowsEnd /\ Plain
        BY <1>12 DEF MappingRandomCalculate
    <2>. QED
        BY <1>1, <2>1 DEF Plain
<1>13. CASE NothingCalculate
    <2>1. NextColumn /\ Plain
        BY <1>13 DEF NothingCalculate, Plain
    <2>. QED
        BY <1>1, <2>1 DEF Plain
<1>14. CASE FileRandomCalculate
    <2>1. CASE Ends("failed")
        BY <1>1, <2>1 DEF Plain
    <2>2. CASE \E d, low, high, r : FileDraws(d, low, high, r)
        <3>1. RowsEnd \/ NextColumn
            BY <1>7, <2>2 DEF FileDraws
        <3>. QED
            BY <1>1, <1>14, <2>2, <3>1, FileIs
    <2>. QED
        BY <1>14, <2>1, <2>2, FileIs
<1>15. CASE MultiFileRandomCalculate
    <2>1. CASE Ends("failed")
        BY <1>1, <2>1 DEF Plain
    <2>2. CASE \E dims, k : Draws(dims, k)
        <3>1. RowsEnd \/ NextColumn
            BY <1>7, <2>2 DEF Draws
        <3>. QED
            BY <1>1, <1>15, <2>2, <3>1, MultiIs
    <2>. QED
        BY <1>15, <2>1, <2>2, MultiIs
<1>16. CASE UNCHANGED vars
    BY <1>16 DEF vars, dimensions
<1>17. CASE ProcessParameter \/ EndParameters \/ AddDependencies \/ LoadFiles
    BY <1>17 DEF ProcessParameter, EndParameters, AddDependencies, LoadFiles
<1>. QED
    BY <1>9, <1>10, <1>11, <1>12, <1>13, <1>14, <1>15, <1>16, <1>17 DEF Next, Calculate

LEMMA StepFunctions ==
    ASSUME Placed, InfoOK, FunctionsOK, LoadedOK, AheadOK, [Next]_vars
    PROVE  FunctionsOK'
<1>1. tpl' = tpl /\ \A e \in DOMAIN tpl.dim : Asked(e) => Asked(e)'
    BY StepPlaced, StepInfo
<1>2. \A g : FunctionOK(g) => FunctionOK(g)'
    BY FunctionKept
<1>3. \A type, c : SaidBy(type, c)' = SaidBy(type, c)
    BY <1>1 DEF SaidBy
<1>4. FunctionOK(f) /\ SaidBy(f.type, at[1]) /\ at[1] \in DOMAIN fn /\ f = fn[at[1]]
    BY DEF Placed, FunctionsOK, f
<1>5. ASSUME fn' = fn PROVE FunctionsOK'
    BY <1>1, <1>2, <1>3, <1>5 DEF FunctionsOK
<1>6. ASSUME NEW g, fn' = [fn EXCEPT ![at[1]] = g], FunctionOK(g)', SaidBy(g.type, at[1])
      PROVE  FunctionsOK'
    <2>1. DOMAIN fn' = DOMAIN tpl.columns /\ DOMAIN fn = DOMAIN tpl.columns
        BY <1>6 DEF FunctionsOK
    <2>2. ASSUME NEW c \in DOMAIN fn
          PROVE  FunctionOK(fn[c])' /\ SaidBy(fn'[c].type, c)
        <3>1. CASE c = at[1]
            <4>1. fn'[c] = g
                BY <1>6, <3>1
            <4>. QED
                BY <1>6, <3>1, <4>1
        <3>2. CASE c # at[1]
            <4>1. fn'[c] = fn[c]
                BY <1>6, <3>2
            <4>. QED
                BY <1>2, <4>1 DEF FunctionsOK
        <3>. QED
            BY <3>1, <3>2
    <2>. QED
        BY <1>1, <1>3, <2>1, <2>2 DEF FunctionsOK
<1>7. CASE ProcessParameter
    <2>1. CASE Ends("refused") \/ Ends("undefined")
        BY <1>5, <2>1 DEF Ends
    <2>2. CASE /\ ~Refused(parameter) /\ ~Undefined(parameter)
               /\ fn' = [fn EXCEPT ![at[1]] = Read(parameter)]
               /\ IF Asks(parameter)
                  THEN AddDimensionInfo(parameter.says.dim) ELSE UNCHANGED dimensions
        <3>. DEFINE p == parameter
        <3>1. p \in Range(column.parameters)
            BY <1>7, ParameterIs DEF ProcessParameter
        <3>2. /\ Shaped(Read(p)) /\ SaidBy(Read(p).type, at[1])
              /\ DOMAIN f.dims \subseteq DOMAIN Read(p).dims
              /\ \A k \in DOMAIN Read(p).dims :
                    \/ k \in DOMAIN f.dims /\ Read(p).dims[k] = f.dims[k]
                    \/ Asks(p) /\ Read(p).dims[k] = Dependency(p.says)
            BY <1>4, <2>2, <3>1, ReadKeeps DEF FunctionOK
        <3>3. PICK g : g = Read(p)
            OBVIOUS
        <3>4. PICK d : d = p.says.dim
            OBVIOUS
        <3>5. Asks(p) => Asked(d)'
            BY <1>1, <2>2, <3>4, AsksForOne, AddKeepsInfo
        <3>6. Dependency(p.says).dim = d
            BY <3>4 DEF Dependency
        <3>7. \A k \in DOMAIN f.dims : Asked(f.dims[k].dim) /\ f.dims[k].dim \in DOMAIN tpl.dim
            <4>1. f.dims \in Seq(Dependencies)
                BY <1>4 DEF FunctionOK, Shaped
            <4>2. \A k \in DOMAIN f.dims : f.dims[k] \in Dependencies
                BY <4>1, ElementOfSeq, LenProperties
            <4>. QED
                BY <1>4, <4>2 DEF FunctionOK, Dependencies
        <3>8. PICK s : s = f.dims
            OBVIOUS
        <3>9. \A k \in DOMAIN g.dims :
                 \/ k \in DOMAIN s /\ g.dims[k] = s[k]
                 \/ Asks(p) /\ g.dims[k].dim = d
            BY <3>2, <3>3, <3>6, <3>8
        <3>10. \A k \in DOMAIN s : Asked(s[k].dim)'
            BY <1>1, <3>7, <3>8
        <3>11. \A k \in DOMAIN g.dims : Asked(g.dims[k].dim)'
            BY <3>5, <3>9, <3>10 DEF Asked, File
        <3>12. Shaped(g)'
            BY <1>1, <3>2, <3>3 DEF Shaped, Dependencies
        <3>13. FunctionOK(g)'
            BY <3>11, <3>12 DEF FunctionOK
        <3>. QED
            BY <1>6, <2>2, <3>2, <3>3, <3>13
    <2>. QED
        BY <1>7, <2>1, <2>2 DEF ProcessParameter
<1>8. CASE EndParameters
    <2>1. CASE fn' = fn
        BY <1>5, <2>1
    <2>2. CASE \E picks \in Shuffled(Filled(f.dims)) : fn' = [fn EXCEPT ![at[1]].picks = picks]
        <3>1. PICK picks \in Shuffled(Filled(f.dims)) : fn' = [fn EXCEPT ![at[1]].picks = picks]
            BY <2>2
        <3>2. DOMAIN picks = 1..Hundred /\ \A i \in 1..Hundred : picks[i] \in DOMAIN f.dims \union {1}
            BY <1>4, <3>1, PicksAre DEF FunctionOK, Shaped
        <3>3. PICK g : g = [f EXCEPT !.picks = picks]
            OBVIOUS
        <3>4. fn' = [fn EXCEPT ![at[1]] = g]
            BY <1>4, <3>1, <3>3
        <3>5. FunctionOK(g) /\ g.type = f.type
            BY <1>4, <3>2, <3>3 DEF FunctionOK, Shaped
        <3>. QED
            BY <1>2, <1>4, <1>6, <3>4, <3>5
    <2>. QED
        BY <1>8, <2>1, <2>2 DEF EndParameters, Ends
<1>9. CASE AddDependencies
    <2>1. CASE Ends("refused")
        BY <1>5, <2>1 DEF Ends
    <2>2. CASE /\ \A i \in DOMAIN TableReferences : ~NoSuchTable(TableReferences[i])
               /\ fn' = [fn EXCEPT ![at[1]].deps =
                            [i \in DOMAIN TableReferences |-> TableReferences[i].says.table]]
        <3>. DEFINE S == {i \in DOMAIN column.parameters : RefersToTable(column.parameters[i])}
                    n == Cardinality(S)
                    deps == [i \in DOMAIN TableReferences |-> TableReferences[i].says.table]
        <3>1. n \in Nat
            <4>1. column.parameters \in Seq(Range(column.parameters))
                BY TemplateIs DEF Placed, column
            <4>2. IsFiniteSet(DOMAIN column.parameters)
                BY <4>1, LenProperties, FS_Interval
            <4>3. IsFiniteSet(S)
                BY <4>2, FS_Subset
            <4>. QED
                BY <4>3, FS_CardinalityType
        <3>2. DOMAIN TableReferences = 1..n
            BY DEF TableReferences, InOrder
        <3>3. \A i \in 1..n : deps[i] \in DOMAIN tpl.tables
            BY <2>2, <3>2 DEF NoSuchTable
        <3>4. DOMAIN deps = 1..n
            BY <3>2
        <3>. HIDE DEF S, n, deps
        <3>5. deps \in Seq(DOMAIN tpl.tables)
            <4>1. deps \in [1..n -> DOMAIN tpl.tables]
                <5>1. deps = [i \in 1..n |-> deps[i]]
                    BY <3>2 DEF deps
                <5>. QED
                    BY <3>3, <5>1
            <4>. QED
                BY <3>1, <4>1, SeqDef
        <3>6. PICK g : g = [f EXCEPT !.deps = deps]
            OBVIOUS
        <3>7. fn' = [fn EXCEPT ![at[1]] = g]
            BY <1>4, <2>2, <3>6 DEF deps
        <3>8. FunctionOK(g) /\ g.type = f.type
            BY <1>4, <3>5, <3>6 DEF FunctionOK, Shaped
        <3>. QED
            BY <1>2, <1>4, <1>6, <3>7, <3>8
    <2>. QED
        BY <1>9, <2>1, <2>2 DEF AddDependencies
<1>10. CASE FileRandomCalculate
    <2>1. phase = "rows"
        BY <1>10, FileIs
    <2>2. CASE Ends("failed")
        BY <1>5, <2>2 DEF Ends
    <2>3. CASE \E d, low, high, r : FileDraws(d, low, high, r)
        <3>1. PICK d, low, high, r : FileDraws(d, low, high, r)
            BY <2>3
        <3>2. low \in Nat /\ high \in Nat
            BY <2>1, <3>1, FileDrawsFrom
        <3>3. PICK g : g = [f EXCEPT !.low = low, !.high = high]
            OBVIOUS
        <3>4. fn' = [fn EXCEPT ![at[1]] = g]
            BY <3>1, <3>3 DEF FileDraws
        <3>5. FunctionOK(g) /\ g.type = f.type
            BY <1>4, <3>2, <3>3 DEF FunctionOK, Shaped
        <3>. QED
            BY <1>2, <1>4, <1>6, <3>4, <3>5
    <2>. QED
        BY <1>10, <2>2, <2>3, FileIs
<1>11. CASE MultiFileRandomCalculate
    <2>1. phase = "rows"
        BY <1>11, MultiIs
    <2>2. CASE Ends("failed")
        BY <1>5, <2>2 DEF Ends
    <2>3. CASE \E dims, k : Draws(dims, k)
        <3>1. PICK dims, k : Draws(dims, k)
            BY <2>3
        <3>2. PICK g : g = Drawn(dims, k)
            OBVIOUS
        <3>3. FunctionOK(g) /\ g.type = f.type
            BY <2>1, <3>1, <3>2, DrawnIs
        <3>4. fn' = [fn EXCEPT ![at[1]] = g]
            BY <3>1, <3>2 DEF Draws
        <3>. QED
            BY <1>2, <1>4, <1>6, <3>3, <3>4
    <2>. QED
        BY <1>11, <2>2, <2>3, MultiIs
<1>. USE <1>5 DEF Ends, GiveNumber, GiveNumberOrNot
<1>12. CASE LoadFiles
    BY <1>12 DEF LoadFiles
<1>13. CASE DefaulRandomCalculate \/ PercentRandomCalculate
    BY <1>13 DEF DefaulRandomCalculate, PercentRandomCalculate
<1>14. CASE NatureRandomCaculate \/ PseudoRandomCaculate
    BY <1>14 DEF NatureRandomCaculate, PseudoRandomCaculate
<1>15. CASE TableRandomCalculate \/ LessOrMoreCalculate
    BY <1>15 DEF TableRandomCalculate, LessOrMoreCalculate
<1>16. CASE MappingRandomCalculate \/ NothingCalculate
    BY <1>16 DEF MappingRandomCalculate, NothingCalculate
<1>17. CASE UNCHANGED vars
    BY <1>17 DEF vars
<1>. QED
    BY <1>7, <1>8, <1>9, <1>10, <1>11, <1>12, <1>13, <1>14, <1>15, <1>16, <1>17 DEF Next, Calculate

\* Before the files are loaded no row was drawn and no window set.
Unused(g) == \A k \in DOMAIN g.dims : g.dims[k].init = 0 /\ g.dims[k].last = 0

LEMMA StepAhead ==
    ASSUME Placed, InfoOK, FunctionsOK, LoadedOK, AheadOK, [Next]_vars
    PROVE  AheadOK'
<1>. DEFINE Early == {"process", "depend", "load"}
<1>1. FunctionOK(f) /\ at[1] \in DOMAIN fn /\ f = fn[at[1]]
    BY DEF Placed, FunctionsOK, f
<1>2. tpl' = tpl
    BY StepPlaced
<1>3. \A c \in DOMAIN fn : phase \in Early => Unused(fn[c])
    BY DEF AheadOK, Unused
<1>4. \A c \in DOMAIN fn : \A k : phase = "rows" /\ k \in DOMAIN fn[c].dims => Ahead(fn[c].dims[k])
    BY DEF AheadOK
<1>5. ASSUME \A c \in DOMAIN fn' : Unused(fn'[c]), phase' \in Early \union {"rows"}
      PROVE  AheadOK'
    BY <1>5 DEF AheadOK, Unused, Ahead
<1>6. ASSUME phase' \notin Early \union {"rows"} PROVE AheadOK'
    BY <1>6 DEF AheadOK
<1>7. ASSUME phase \in Early, NEW g, fn' = [fn EXCEPT ![at[1]] = g], Unused(g)
      PROVE  AheadOK'
    <2>1. \A c \in DOMAIN fn' : Unused(fn'[c])
        BY <1>3, <1>7
    <2>. QED
        BY <1>5, <1>6, <2>1
<1>8. ASSUME phase \in Early, fn' = fn PROVE AheadOK'
    BY <1>3, <1>5, <1>6, <1>8
<1>8a. phase = "rows" => phase' \notin Early
    BY RowsStep DEF RowsEnd, Halts, NextColumn, vars
<1>9. ASSUME phase = "rows", UNCHANGED <<fn, data>> PROVE AheadOK'
    <2>1. \A dep : Ahead(dep)' = Ahead(dep)
        BY <1>2, <1>9 DEF Ahead, Lines, File
    <2>2. \A c \in DOMAIN fn' : \A k : k \in DOMAIN fn'[c].dims => Ahead(fn'[c].dims[k])
        BY <1>4, <1>9
    <2>. QED
        BY <1>8a, <1>9, <2>1, <2>2 DEF AheadOK
<1>10. CASE ProcessParameter
    <2>0. phase \in Early
        BY <1>10 DEF ProcessParameter
    <2>1. CASE Ends("refused") \/ Ends("undefined")
        BY <1>8, <2>0, <2>1 DEF Ends
    <2>2. CASE ~Refused(parameter) /\ ~Undefined(parameter) /\ fn' = [fn EXCEPT ![at[1]] = Read(parameter)]
        <3>. DEFINE p == parameter
        <3>1. p \in Range(column.parameters)
            BY <1>10, ParameterIs DEF ProcessParameter
        <3>2. \A k \in DOMAIN Read(p).dims :
                 \/ k \in DOMAIN f.dims /\ Read(p).dims[k] = f.dims[k]
                 \/ Asks(p) /\ Read(p).dims[k] = Dependency(p.says)
            <4>1. Shaped(f) /\ SaidBy(f.type, at[1])
                BY <1>1 DEF FunctionOK, FunctionsOK
            <4>. QED
                BY <2>2, <3>1, <4>1, ReadKeeps
        <3>3. Dependency(p.says).init = 0 /\ Dependency(p.says).last = 0
            BY DEF Dependency
        <3>4. Unused(f)
            BY <1>1, <1>3, <2>0
        <3>5. Unused(Read(p))
            BY <3>2, <3>3, <3>4 DEF Unused
        <3>. QED
            BY <1>7, <2>0, <2>2, <3>5
    <2>. QED
        BY <1>10, <2>1, <2>2 DEF ProcessParameter
<1>11. CASE EndParameters
    <2>0. phase \in Early
        BY <1>11 DEF EndParameters
    <2>1. CASE fn' = fn
        BY <1>8, <2>0, <2>1
    <2>2. CASE \E picks : fn' = [fn EXCEPT ![at[1]].picks = picks]
        <3>1. PICK picks : fn' = [fn EXCEPT ![at[1]].picks = picks]
            BY <2>2
        <3>2. PICK g : g = [f EXCEPT !.picks = picks]
            OBVIOUS
        <3>3. fn' = [fn EXCEPT ![at[1]] = g] /\ g.dims = f.dims
            BY <1>1, <3>1, <3>2 DEF FunctionOK, Shaped
        <3>4. Unused(g)
            BY <1>1, <1>3, <2>0, <3>3 DEF Unused
        <3>. QED
            BY <1>7, <2>0, <3>3, <3>4
    <2>. QED
        BY <1>11, <2>1, <2>2 DEF EndParameters, Ends
<1>12. CASE AddDependencies
    <2>0. phase \in Early
        BY <1>12 DEF AddDependencies
    <2>1. CASE Ends("refused")
        BY <1>8, <2>0, <2>1 DEF Ends
    <2>2. CASE \E deps : fn' = [fn EXCEPT ![at[1]].deps = deps]
        <3>1. PICK deps : fn' = [fn EXCEPT ![at[1]].deps = deps]
            BY <2>2
        <3>2. PICK g : g = [f EXCEPT !.deps = deps]
            OBVIOUS
        <3>3. fn' = [fn EXCEPT ![at[1]] = g] /\ g.dims = f.dims
            BY <1>1, <3>1, <3>2 DEF FunctionOK, Shaped
        <3>4. Unused(g)
            BY <1>1, <1>3, <2>0, <3>3 DEF Unused
        <3>. QED
            BY <1>7, <2>0, <3>3, <3>4
    <2>. QED
        BY <1>12, <2>1, <2>2 DEF AddDependencies
<1>13. CASE LoadFiles
    BY <1>8, <1>13 DEF LoadFiles, Ends
<1>14. ASSUME phase = "rows", data' = data, NEW g, fn' = [fn EXCEPT ![at[1]] = g],
              \A k \in DOMAIN g.dims : Ahead(g.dims[k])
       PROVE  AheadOK'
    <2>1. \A dep : Ahead(dep)' = Ahead(dep)
        BY <1>2, <1>14 DEF Ahead, Lines, File
    <2>2. \A c \in DOMAIN fn' : \A k : k \in DOMAIN fn'[c].dims => Ahead(fn'[c].dims[k])
        <3>1. DOMAIN fn' = DOMAIN fn
            BY <1>14
        <3>2. \A c \in DOMAIN fn : fn'[c] = IF c = at[1] THEN g ELSE fn[c]
            BY <1>14
        <3>. QED
            BY <1>4, <1>14, <3>1, <3>2
    <2>3. \A c \in DOMAIN fn' : \A k : k \in DOMAIN fn'[c].dims => Ahead(fn[c].dims[k])'
        BY <2>1, <2>2
    <2>. QED
        BY <1>8a, <1>14, <2>3 DEF AheadOK
<1>15. CASE phase = "rows"
    <2>1. CASE fn' = fn
        BY <1>9, <1>15, <2>1, RowsStep
    <2>2. CASE \E d, low, high, r : FileDraws(d, low, high, r)
        <3>1. PICK d, low, high, r : FileDraws(d, low, high, r)
            BY <2>2
        <3>2. PICK g : g = [f EXCEPT !.low = low, !.high = high]
            OBVIOUS
        <3>3. fn' = [fn EXCEPT ![at[1]] = g] /\ g.dims = f.dims
            BY <1>1, <3>1, <3>2 DEF FileDraws, FunctionOK, Shaped
        <3>. QED
            BY <1>1, <1>4, <1>14, <1>15, <3>3, RowsStep
    <2>3. CASE \E dims, k : Draws(dims, k)
        <3>1. PICK dims, k : Draws(dims, k)
            BY <2>3
        <3>2. PICK g : g = Drawn(dims, k)
            OBVIOUS
        <3>3. fn' = [fn EXCEPT ![at[1]] = g]
            BY <3>1, <3>2 DEF Draws
        <3>4. \A k2 \in DOMAIN g.dims : Ahead(g.dims[k2])
            BY <1>15, <3>1, <3>2, DrawnIs
        <3>. QED
            BY <1>14, <1>15, <3>3, <3>4, RowsStep
    <2>. QED
        BY <1>15, <2>1, <2>2, <2>3, RowsStep DEF vars
<1>16. CASE UNCHANGED vars
    <2>1. \A dep : Ahead(dep)' = Ahead(dep)
        BY <1>16 DEF Ahead, Lines, File, vars, dimensions
    <2>. QED
        BY <1>16, <2>1 DEF AheadOK, vars
<1>17. CASE Calculate
    <2>1. phase = "rows"
        BY <1>17 DEF Calculate, DefaulRandomCalculate, PercentRandomCalculate, NatureRandomCaculate,
            PseudoRandomCaculate, TableRandomCalculate, LessOrMoreCalculate, FileRandomCalculate,
            MultiFileRandomCalculate, MappingRandomCalculate, NothingCalculate, Calculates
    <2>. QED
        BY <1>15, <2>1
<1>. QED
    BY <1>10, <1>11, <1>12, <1>13, <1>16, <1>17 DEF Next

-----------------------------------------------------------------------------
(* A token of a read stands where its field does, if no field before it is *)
(* passed over or ends what is made of the line.                           *)

LEMMA PlainTokenIs ==
    ASSUME NEW read, read.fields \in Seq(FieldKinds), NEW idx \in DOMAIN read.fields, ~Quoted(read),
           \A j \in 1..idx : read.fields[j] # "empty"
    PROVE  idx \in DOMAIN Tokens(read) /\ Tokens(read)[idx] = idx
<1>. DEFINE n == Len(read.fields)
            S == {i \in DOMAIN read.fields : read.fields[i] # "empty" \/ (i = n /\ read.newline)}
            upto(i) == {j \in S : j <= i}
<1>1. n \in Nat /\ DOMAIN read.fields = 1..n
    BY LenProperties
<1>2. Tokens(read) = InOrder(S)
    BY DEF Tokens, PlainTokens
<1>3. S \subseteq 1..n /\ 1..idx \subseteq S /\ idx \in 1..n
    BY <1>1
<1>. HIDE DEF n, S
<1>4. IsFiniteSet(S)
    <2>1. IsFiniteSet(1..n)
        BY <1>1, FS_Interval
    <2>. QED
        BY <1>3, <2>1, FS_Subset
<1>5. \A i \in 1..idx : Cardinality(upto(i)) = i /\ i \in S
    <2>1. ASSUME NEW i \in 1..idx PROVE upto(i) = 1..i /\ i \in Nat
        <3>1. i \in Nat /\ idx \in Nat /\ i <= idx
            BY <1>1, <1>3
        <3>2. \A j \in S : j \in Nat /\ 1 <= j
            BY <1>1, <1>3
        <3>3. \A j \in 1..i : j \in S
            BY <1>3, <3>1
        <3>4. \A j \in S : j <= i => j \in 1..i
            BY <3>1, <3>2
        <3>5. \A j \in 1..i : j <= i
            BY <3>1
        <3>. QED
            BY <3>1, <3>3, <3>4, <3>5
    <2>2. \A i \in Nat : Cardinality(1..i) = i
        BY FS_Interval
    <2>. HIDE DEF upto
    <2>. QED
        BY <1>1, <1>3, <2>1, <2>2
<1>6. ASSUME NEW i \in S, i > idx
      PROVE  Cardinality(upto(i)) # idx
    <2>1. upto(i) \subseteq S /\ upto(idx) \subseteq upto(i) /\ i \in upto(i) /\ i \notin upto(idx)
        <3>1. \A j \in S : j \in Nat
            BY <1>1, <1>3
        <3>2. i \in Nat /\ idx \in Nat /\ ~(i <= idx) /\ i <= i
            BY <1>3, <1>6, <3>1
        <3>3. \A j \in S : j <= idx => j <= i
            BY <3>1, <3>2
        <3>. QED
            BY <3>2, <3>3
    <2>2. IsFiniteSet(upto(i)) /\ IsFiniteSet(upto(idx))
        BY <1>4, <2>1, FS_Subset
    <2>. HIDE DEF upto
    <2>3. Cardinality(upto(idx)) < Cardinality(upto(i))
        BY <2>1, <2>2, FS_Subset, FS_CardinalityType
    <2>4. Cardinality(upto(idx)) = idx
        BY <1>1, <1>3, <1>5
    <2>. QED
        BY <1>1, <1>3, <2>2, <2>3, <2>4, FS_CardinalityType
<1>7. \A i \in S : Cardinality(upto(i)) = idx => i = idx
    <2>. HIDE DEF upto
    <2>1. \A i \in S : i \in 1..idx \/ i > idx
        BY <1>1, <1>3
    <2>. QED
        BY <1>5, <1>6, <2>1
<1>8. idx \in S /\ Cardinality(upto(idx)) = idx
    BY <1>1, <1>3, <1>5
<1>9. idx \in DOMAIN Tokens(read)
    <2>1. upto(idx) \subseteq S
        OBVIOUS
    <2>. HIDE DEF upto
    <2>2. Cardinality(upto(idx)) <= Cardinality(S) /\ Cardinality(S) \in Nat
        BY <1>4, <2>1, FS_Subset, FS_CardinalityType
    <2>3. DOMAIN Tokens(read) = 1..Cardinality(S)
        BY <1>2 DEF InOrder
    <2>. QED
        BY <1>1, <1>3, <1>8, <2>2, <2>3
<1>10. Tokens(read)[idx] = CHOOSE i \in S : Cardinality(upto(i)) = idx
    BY <1>2, <1>9 DEF InOrder
<1>. HIDE DEF upto
<1>. QED
    BY <1>7, <1>8, <1>9, <1>10

LEMMA QuotedTokenIs ==
    ASSUME NEW read, read.fields \in Seq(FieldKinds), NEW idx, HasField(read, idx), Quoted(read)
    PROVE  idx \in DOMAIN Tokens(read) /\ Tokens(read)[idx] = idx
<1>. DEFINE n == Len(read.fields)
            S == {i \in DOMAIN read.fields :
                     read.fields[i] \notin {"plain", "inner"} \/ i = Len(read.fields)}
            last == Min(S)
            m == IF read.fields[last] = "quoted" THEN last ELSE last - 1
<1>1. n \in Nat /\ DOMAIN read.fields = 1..n
    BY LenProperties
<1>2. /\ idx \in 1..n /\ read.fields[idx] \in FieldKinds /\ read.fields[idx] # "empty"
      /\ \A j \in 1..(idx - 1) : read.fields[j] \in {"plain", "inner"}
      /\ read.fields[idx] = "quoted" \/ (read.fields[idx] # "broken" /\ idx < n)
    <2>1. idx \in 1..n
        BY <1>1 DEF HasField
    <2>2. read.fields[idx] \in FieldKinds
        BY <1>1, <2>1
    <2>3. idx \in 1..idx
        BY <2>1
    <2>. QED
        BY <2>1, <2>2, <2>3 DEF HasField
<1>3. S \in SUBSET Nat /\ S # {}
    <2>1. n \in S
        BY <1>1, <1>2
    <2>. QED
        BY <1>1, <2>1
<1>4. last \in S
    BY <1>3, MinOf
<1>5. last >= idx
    <2>1. \A i \in S : i \in 1..n /\ (i < idx => i \in 1..(idx - 1) /\ i # n)
        BY <1>1, <1>2
    <2>2. \A i \in S : ~(i < idx)
        BY <1>1, <1>2, <2>1
    <2>. HIDE DEF S, last
    <2>. QED
        BY <1>2, <1>3, <1>4, <2>2
<1>6. last = idx => read.fields[last] = "quoted"
    <2>1. \A i \in S : i # n => read.fields[i] \notin {"plain", "inner"}
        OBVIOUS
    <2>. HIDE DEF S, last, n
    <2>2. last = idx /\ last = n => read.fields[idx] = "quoted"
        BY <1>2
    <2>3. last = idx /\ last # n => read.fields[idx] = "quoted"
        BY <1>2, <1>4, <2>1 DEF FieldKinds
    <2>. QED
        BY <2>2, <2>3
<1>7. idx <= m /\ m \in Int
    <2>1. last \in Nat
        BY <1>3, <1>4
    <2>. HIDE DEF S, last
    <2>. QED
        BY <1>2, <1>5, <1>6, <2>1
<1>8. Tokens(read) = [i \in 1..m |-> i]
    BY DEF Tokens, QuotedTokens
<1>. HIDE DEF S, last, m
<1>. QED
    BY <1>2, <1>7, <1>8

LEMMA TokenIs ==
    ASSUME NEW read, read.fields \in Seq(FieldKinds), NEW idx, HasField(read, idx)
    PROVE  idx \in DOMAIN Tokens(read) /\ Tokens(read)[idx] = idx
BY PlainTokenIs, QuotedTokenIs DEF HasField

\* What a row holds of column d of read i: the field or, of a read with quotes, what became of
\* its memory.
IsFieldOf(d, i, v) ==
    LET field == <<File(d), i, tpl.dim[d].idx>>
    IN  v = field \/ (v = Freed(field) /\ Quoted(tpl.reads[File(d)][i]))

\* A field of a complete line is the one of the column asked for, whichever column its
\* position was loaded for; it was read if that column's type is one to load.
LEMMA FieldIs ==
    ASSUME Placed, InfoOK, LoadedOK, phase = "rows",
           NEW d \in DOMAIN tpl.dim, Asked(d), Complete(d),
           NEW r \in 0..(Len(data[File(d)]) - 1)
    PROVE  /\ r + 1 \in DOMAIN tpl.reads[File(d)]
           /\ LoadedType(d) \notin Loadable => Field(d, r) = Null
           /\ LoadedType(d) \in Loadable => IsFieldOf(d, r + 1, Field(d, r))
<1>. DEFINE file == File(d)
            read == tpl.reads[file][r + 1]
            e == tpl.dim[info[file][mapping[d]]]
            idx == tpl.dim[d].idx
<1>1. /\ file \in DOMAIN tpl.reads /\ Len(data[file]) \in Nat
      /\ DOMAIN data[file] = 1..Len(data[file]) /\ DOMAIN tpl.reads[file] = 1..Len(data[file])
    BY LinesAre
<1>2. r + 1 \in DOMAIN tpl.reads[file] /\ r + 1 \in DOMAIN data[file]
    BY <1>1
<1>3. PICK garbled \in BOOLEAN : data[file][r + 1] = LoadedRow(file, r + 1, garbled)
    BY <1>2, LinesAre
<1>4. e.idx = idx /\ mapping[d] \in DOMAIN info[file]
    BY DEF Asked
<1>5. read.fields \in Seq(FieldKinds)
    <2>1. tpl.reads[file] \in Seq(Range(tpl.reads[file]))
          /\ \A l \in Range(tpl.reads[file]) : l.fields \in Seq(FieldKinds)
        BY <1>1, TemplatesAssumption DEF Placed
    <2>. QED
        BY <1>2, <2>1 DEF Range
<1>6. HasField(read, idx)
    BY <1>2 DEF Complete
<1>7. /\ DOMAIN data[file][r + 1] = DOMAIN info[file]
      /\ data[file][r + 1][mapping[d]] =
            IF e.idx \notin DOMAIN Tokens(read) \/ e.type \notin Loadable THEN Null
            ELSE IF garbled /\ Quoted(read) THEN Freed(<<file, r + 1, Tokens(read)[e.idx]>>)
            ELSE <<file, r + 1, Tokens(read)[e.idx]>>
    BY <1>3, <1>4 DEF LoadedRow
<1>8. Field(d, r) = data[file][r + 1][mapping[d]]
    BY <1>2, <1>4, <1>7 DEF Field
<1>9. e.type = LoadedType(d)
    BY DEF LoadedType
<1>10. IsFieldOf(d, r + 1, Field(d, r)) <=>
          Field(d, r) = <<file, r + 1, idx>> \/ (Field(d, r) = Freed(<<file, r + 1, idx>>) /\ Quoted(read))
    BY DEF IsFieldOf
<1>. HIDE DEF file, read, e, idx
<1>11. idx \in DOMAIN Tokens(read) /\ Tokens(read)[idx] = idx
    BY <1>5, <1>6, TokenIs
<1>12. /\ LoadedType(d) \notin Loadable => Field(d, r) = Null
       /\ LoadedType(d) \in Loadable => IsFieldOf(d, r + 1, Field(d, r))
    BY <1>4, <1>7, <1>8, <1>9, <1>10, <1>11
<1>. QED
    BY <1>2, <1>12 DEF file

-----------------------------------------------------------------------------
(* The invariant, and the column that is drawn.                            *)

\* The functions keep what they were told, the dimension columns their positions, and the rows
\* that come next are rows of their files, for every set of templates.
THEOREM TypeCorrect == Spec => []IInv
<1>1. IInv /\ [Next]_vars => IInv'
    BY StepPlaced, StepInfo, StepFunctions, StepLoaded, StepAhead DEF IInv
<1>. QED
    BY InitInvariant, <1>1, PTL DEF Spec

LEMMA EarlyStep ==
    ASSUME phase \notin {"rows"}, [Next]_vars
    PROVE  UNCHANGED <<value, row, rows, picked>>
<1>1. CASE ProcessParameter \/ EndParameters \/ AddDependencies \/ LoadFiles
    BY <1>1 DEF ProcessParameter, EndParameters, AddDependencies, LoadFiles, Ends, Halts
<1>2. CASE Calculate
    BY <1>2 DEF Calculate, DefaulRandomCalculate, PercentRandomCalculate, NatureRandomCaculate,
        PseudoRandomCaculate, TableRandomCalculate, LessOrMoreCalculate, FileRandomCalculate,
        MultiFileRandomCalculate, MappingRandomCalculate, NothingCalculate, Calculates
<1>3. CASE UNCHANGED vars
    BY <1>3 DEF vars
<1>. QED
    BY <1>1, <1>2, <1>3 DEF Next

LEMMA EndedStep ==
    ASSUME phase \in Ended, [Next]_vars
    PROVE  UNCHANGED vars
BY DEF Next, ProcessParameter, EndParameters, AddDependencies, LoadFiles, Calculate,
    DefaulRandomCalculate, PercentRandomCalculate, NatureRandomCaculate, PseudoRandomCaculate,
    TableRandomCalculate, LessOrMoreCalculate, FileRandomCalculate, MultiFileRandomCalculate,
    MappingRandomCalculate, NothingCalculate, Calculates, Ended

Sized ==
    /\ DOMAIN value = DOMAIN tpl.columns /\ DOMAIN picked = DOMAIN tpl.columns
    /\ \A c \in DOMAIN picked : picked[c] \in Seq(Nat \X Nat)

LEMMA StepSized ==
    ASSUME IInv, Sized, [Next]_vars
    PROVE  Sized'
<1>1. tpl' = tpl
    BY StepPlaced DEF IInv
<1>2. ASSUME picked' = picked, DOMAIN value' = DOMAIN value PROVE Sized'
    BY <1>1, <1>2 DEF Sized
<1>3. ASSUME NEW d, NEW r, SetsValue(d, r) PROVE DOMAIN value' = DOMAIN value
    BY <1>3 DEF SetsValue, Halts, Give
<1>4. CASE phase # "rows"
    BY <1>2, <1>4, EarlyStep
<1>5. CASE phase = "rows"
    <2>1. CASE \E d, low, high, r : FileDraws(d, low, high, r)
        BY <1>2, <1>3, <2>1 DEF FileDraws
    <2>2. CASE \E dims, k : Draws(dims, k)
        <3>1. PICK dims, k : Draws(dims, k)
            BY <2>2
        <3>2. /\ dims \in Seq(Dependencies) /\ k \in DOMAIN dims
              /\ Lines(dims[k]) \in Nat \ {0} /\ RowAt(dims[k]) \in 0..(Lines(dims[k]) - 1)
            BY <1>5, <3>1, DrawsFrom DEF IInv
        <3>3. k \in Nat /\ RowAt(dims[k]) \in Nat
            BY <3>2, LenProperties
        <3>4. PICK p \in Nat \X Nat : p = <<k, RowAt(dims[k])>>
            BY <3>3
        <3>5. picked' = [picked EXCEPT ![at[1]] = Append(@, p)]
            BY <3>1, <3>4 DEF Draws
        <3>6. \A c \in DOMAIN picked : picked'[c] \in Seq(Nat \X Nat)
            BY <3>5, AppendProperties DEF Sized
        <3>7. DOMAIN value' = DOMAIN value
            BY <1>3, <3>1 DEF Draws
        <3>. QED
            BY <1>1, <3>5, <3>6, <3>7 DEF Sized
    <2>. QED
        BY <1>2, <1>5, <2>1, <2>2, RowsStep DEF IInv, vars
<1>. QED
    BY <1>4, <1>5

(* No column has a value before the rows.                                  *)
Valueless == phase \in {"process", "depend", "load"} => \A c \in DOMAIN value : value[c] = Nothing

\* What column c drew from: the dependency of its last value.
DrawnBy(c) == IF fn[c].type = "File" THEN 1 ELSE Last(picked[c])[1]

FieldOf(d, v) == \E i \in DOMAIN tpl.reads[File(d)] : IsFieldOf(d, i, v)

LEMMA DrawsTheColumnIs ==
    DrawsTheColumn <=>
        \A c \in DOMAIN fn :
            /\ fn[c].type \in {"File", "MultiFile"} /\ value[c] # Nothing
            /\ phase \in {"rows", "done"} /\ Complete(fn[c].dims[DrawnBy(c)].dim)
            => FieldOf(fn[c].dims[DrawnBy(c)].dim, value[c])
BY DEF DrawsTheColumn, DrawnBy, FieldOf, IsFieldOf

\* What a draw sets is a field of its column.
LEMMA SetsField ==
    ASSUME IInv, Sized, phase = "rows", NEW d \in DOMAIN tpl.dim, Asked(d), Complete(d),
           NEW r \in 0..(Len(data[File(d)]) - 1), SetsValue(d, r), phase' \in {"rows", "done"}
    PROVE  FieldOf(d, value'[at[1]])
<1>1. Field(d, r) # Null /\ Give(Field(d, r))
    BY DEF SetsValue, Halts
<1>2. value'[at[1]] = Field(d, r)
    <2>1. at[1] \in DOMAIN value
        BY DEF IInv, Placed, Sized
    <2>. QED
        BY <1>1, <2>1 DEF Give
<1>. QED
    BY <1>1, <1>2, FieldIs DEF IInv, FieldOf

LEMMA StepDrawn ==
    ASSUME IInv, Sized, Valueless, DrawsTheColumn, [Next]_vars
    PROVE  Valueless' /\ DrawsTheColumn'
<1>. DEFINE drawn(c) ==
                /\ fn[c].type \in {"File", "MultiFile"} /\ value[c] # Nothing
                /\ phase \in {"rows", "done"} /\ Complete(fn[c].dims[DrawnBy(c)].dim)
                => FieldOf(fn[c].dims[DrawnBy(c)].dim, value[c])
<1>1. tpl' = tpl /\ DOMAIN fn = DOMAIN tpl.columns /\ DOMAIN fn' = DOMAIN tpl.columns
      /\ at[1] \in DOMAIN fn /\ f = fn[at[1]] /\ FunctionOK(f)
    BY StepPlaced, StepFunctions DEF IInv, FunctionsOK, Placed, f
<1>2. \A d, v : FieldOf(d, v)' = FieldOf(d, v)
    BY <1>1 DEF FieldOf, IsFieldOf, File, Quoted
<1>3. \A d : Complete(d)' = Complete(d)
    BY <1>1 DEF Complete, HasField, File, Quoted
<1>4. \A c \in DOMAIN fn : drawn(c)
    BY DrawsTheColumnIs
<1>5. ASSUME \A c \in DOMAIN fn : drawn(c)' PROVE DrawsTheColumn'
    BY <1>1, <1>5 DEF DrawsTheColumn, DrawnBy, FieldOf, IsFieldOf
<1>6. ASSUME NEW c \in DOMAIN fn, fn'[c] = fn[c], value'[c] = value[c], picked'[c] = picked[c],
             phase = "rows" \/ phase' = phase
      PROVE  drawn(c)'
    <2>1. DrawnBy(c)' = DrawnBy(c)
        BY <1>6 DEF DrawnBy
    <2>2. fn[c].dims[DrawnBy(c)].dim' = fn[c].dims[DrawnBy(c)].dim
        BY <1>6, <2>1
    <2>. QED
        BY <1>2, <1>3, <1>4, <1>6, <2>1
<1>7. CASE phase # "rows"
    <2>1. value' = value /\ picked' = picked
        BY <1>7, EarlyStep
    <2>2. CASE phase \in {"process", "depend", "load"}
        <3>1. Valueless'
            BY <2>1, <2>2 DEF Valueless
        <3>2. \A c \in DOMAIN fn : value'[c] = Nothing
            BY <1>1, <2>1, <2>2 DEF Valueless, Sized
        <3>3. \A c \in DOMAIN fn : drawn(c)'
            BY <1>1, <3>2
        <3>. QED
            BY <1>5, <3>1, <3>3
    <2>3. CASE phase \in Ended
        <3>1. UNCHANGED vars
            BY <2>3, EndedStep
        <3>2. phase' = phase /\ value' = value /\ fn' = fn /\ picked' = picked
            BY <3>1 DEF vars
        <3>3. Valueless'
            BY <3>2 DEF Valueless
        <3>. HIDE DEF drawn
        <3>. QED
            BY <1>5, <1>6, <3>2, <3>3
    <2>. QED
        BY <1>7, <2>2, <2>3 DEF IInv, Placed, Phases
<1>8. CASE phase = "rows"
    <2>1. Valueless'
        BY <1>8, RowsStep DEF Valueless, IInv, RowsEnd, Halts, NextColumn, vars
    <2>2. CASE phase' \notin {"rows", "done"}
        <3>1. \A c \in DOMAIN fn : drawn(c)'
            BY <1>1, <2>2
        <3>. QED
            BY <1>5, <2>1, <3>1
    <2>3. CASE UNCHANGED vars
        <3>1. value' = value /\ fn' = fn /\ picked' = picked
            BY <2>3 DEF vars
        <3>. HIDE DEF drawn
        <3>. QED
            BY <1>5, <1>6, <1>8, <2>1, <3>1
    <2>4. CASE /\ UNCHANGED <<fn, picked>> /\ DOMAIN value' = DOMAIN value
               /\ \A c \in DOMAIN value : value'[c] = value[c]
                                          \/ (c = at[1] /\ f.type \notin {"File", "MultiFile"})
        <3>1. ASSUME NEW c \in DOMAIN fn PROVE drawn(c)'
            <4>1. CASE value'[c] = value[c]
                <5>. HIDE DEF drawn
                <5>. QED
                    BY <1>6, <1>8, <2>4, <4>1
            <4>2. CASE c = at[1] /\ f.type \notin {"File", "MultiFile"}
                <5>1. fn'[c].type \notin {"File", "MultiFile"}
                    BY <1>1, <2>4, <4>2
                <5>. QED
                    BY <5>1
            <4>. QED
                BY <1>1, <2>4, <4>1, <4>2 DEF Sized
        <3>. HIDE DEF drawn
        <3>. QED
            BY <1>5, <2>1, <3>1
    <2>5. CASE phase' \in {"rows", "done"} /\ f.type = "File" /\ \E d, low, high, r : FileDraws(d, low, high, r)
        <3>1. PICK d, low, high, r : FileDraws(d, low, high, r)
            BY <2>5
        <3>2. d \in DOMAIN tpl.dim /\ Asked(d) /\ r \in 0..(Len(data[File(d)]) - 1)
            BY <1>8, <3>1, FileDrawsFrom DEF IInv
        <3>3. d = f.dims[1].dim /\ SetsValue(d, r)
              /\ fn' = [fn EXCEPT ![at[1]] = [f EXCEPT !.low = low, !.high = high]] /\ picked' = picked
            BY <3>1 DEF FileDraws
        <3>4. ASSUME NEW c \in DOMAIN fn, c # at[1] PROVE drawn(c)'
            <4>1. fn'[c] = fn[c]
                BY <3>3, <3>4
            <4>2. value'[c] = value[c]
                <5>1. c \in DOMAIN value
                    BY <1>1 DEF Sized
                <5>2. value' = value \/ \E v : value' = [value EXCEPT ![at[1]] = v]
                    BY <3>3 DEF SetsValue, Halts, Give
                <5>. QED
                    BY <3>4, <5>1, <5>2
            <4>. HIDE DEF drawn
            <4>. QED
                BY <1>6, <1>8, <3>3, <4>1, <4>2
        <3>5. Complete(d) => FieldOf(d, value'[at[1]])
            BY <1>8, <2>5, <3>2, <3>3, SetsField
        <3>6. ASSUME NEW c \in DOMAIN fn, c = at[1] PROVE drawn(c)'
            <4>1. fn'[c].type = "File" /\ fn'[c].dims = f.dims
                BY <1>1, <2>5, <3>3, <3>6 DEF FunctionOK, Shaped
            <4>2. DrawnBy(c)' = 1
                BY <4>1 DEF DrawnBy
            <4>3. fn'[c].dims[1].dim = d
                BY <3>3, <4>1
            <4>. QED
                BY <1>2, <1>3, <3>5, <3>6, <4>2, <4>3
        <3>. HIDE DEF drawn
        <3>. QED
            BY <1>5, <2>1, <3>4, <3>6
    <2>6. CASE phase' \in {"rows", "done"} /\ f.type = "MultiFile" /\ \E dims, k : Draws(dims, k)
        <3>1. PICK dims, k : Draws(dims, k)
            BY <2>6
        <3>2. PICK g : g = Drawn(dims, k)
            OBVIOUS
        <3>3. PICK d : d = dims[k].dim
            OBVIOUS
        <3>4. /\ k \in DOMAIN dims /\ dims[k] \in Dependencies /\ Asked(d)
              /\ RowAt(dims[k]) \in 0..(Len(data[File(d)]) - 1)
              /\ DOMAIN dims = DOMAIN f.dims
            BY <1>8, <3>1, <3>3, DrawsFrom DEF IInv, Lines, Asked, File
        <3>5. d \in DOMAIN tpl.dim
            BY <3>3, <3>4 DEF Dependencies
        <3>6. /\ SetsValue(d, RowAt(dims[k])) /\ fn' = [fn EXCEPT ![at[1]] = g]
              /\ picked' = [picked EXCEPT ![at[1]] = Append(@, <<k, RowAt(dims[k])>>)]
            BY <3>1, <3>2, <3>3 DEF Draws, SetsValue, Field, LoadedType, File
        <3>7. g.type = "MultiFile" /\ k \in DOMAIN g.dims /\ g.dims[k].dim = d
            BY <1>8, <2>6, <3>1, <3>2, <3>3, <3>4, DrawnIs DEF IInv
        <3>8. ASSUME NEW c \in DOMAIN fn, c # at[1] PROVE drawn(c)'
            <4>1. fn'[c] = fn[c] /\ picked'[c] = picked[c] /\ c \in DOMAIN value
                BY <1>1, <3>6, <3>8 DEF Sized
            <4>2. value' = value \/ \E v : value' = [value EXCEPT ![at[1]] = v]
                BY <3>6 DEF SetsValue, Halts, Give
            <4>3. value'[c] = value[c]
                BY <3>8, <4>1, <4>2
            <4>. HIDE DEF drawn
            <4>. QED
                BY <1>6, <1>8, <4>1, <4>3
        <3>9. Complete(d) => FieldOf(d, value'[at[1]])
            BY <1>8, <2>6, <3>4, <3>5, <3>6, SetsField
        <3>10. ASSUME NEW c \in DOMAIN fn, c = at[1] PROVE drawn(c)'
            <4>1. fn'[c] = g
                BY <3>6, <3>10
            <4>2. picked[c] \in Seq(Nat \X Nat) /\ picked'[c] = Append(picked[c], <<k, RowAt(dims[k])>>)
                BY <1>1, <3>6, <3>10 DEF Sized
            <4>3. k \in Nat /\ RowAt(dims[k]) \in Nat
                <5>1. dims \in Seq(Dependencies)
                    BY <1>8, <3>1, DrawsFrom DEF IInv
                <5>2. k \in Nat
                    BY <3>4, <5>1, LenProperties
                <5>. QED
                    BY <3>4, <5>2
            <4>4. PICK p \in Nat \X Nat : p = <<k, RowAt(dims[k])>>
                BY <4>3
            <4>5. Last(picked'[c]) = p /\ p[1] = k
                <5>1. /\ Len(Append(picked[c], p)) = Len(picked[c]) + 1
                      /\ Append(picked[c], p)[Len(picked[c]) + 1] = p
                    BY <4>2, AppendProperties
                <5>. QED
                    BY <4>2, <4>4, <5>1 DEF Last
            <4>6. DrawnBy(c)' = k
                BY <3>7, <4>1, <4>5 DEF DrawnBy
            <4>. QED
                BY <1>2, <1>3, <3>7, <3>9, <3>10, <4>1, <4>6
        <3>. HIDE DEF drawn
        <3>. QED
            BY <1>5, <2>1, <3>8, <3>10
    <2>. QED
        BY <1>8, <2>1, <2>2, <2>3, <2>4, <2>5, <2>6, RowsStep DEF IInv
<1>. QED
    BY <1>7, <1>8

\* A column that draws from a dimension file holds a field of the column its parameter names,
\* whatever other functions asked of the same file (addDimensionInfo gives a column that is
\* loaded already to whoever asks for its index), for every set of templates.
THEOREM ColumnDrawn == Spec => []DrawsTheColumn
<1>1. Init => Sized /\ Valueless /\ DrawsTheColumn
    <2>1. Init => Sized /\ Valueless
        BY EmptySeq DEF Init, Sized, Valueless
    <2>2. Init => DrawsTheColumn
        BY DEF Init, DrawsTheColumn
    <2>. QED
        BY <2>1, <2>2
<1>2. IInv /\ Sized /\ Valueless /\ DrawsTheColumn /\ [Next]_vars
          => Sized' /\ Valueless' /\ DrawsTheColumn'
    BY StepSized, StepDrawn
<1>. QED
    BY TypeCorrect, <1>1, <1>2, PTL DEF Spec

-----------------------------------------------------------------------------
(* Rows fail only for a column with a reason.                              *)

SoundDim(c, d) ==
    /\ HasRows(File(d)) /\ Complete(d) /\ LoadedType(d) \in Loadable
    /\ Generic(LoadedType(d)) = Generic(tpl.columns[c].type)

LEMMA SoundIs ==
    ASSUME NEW c, Sound(c)
    PROVE  LET g == fn[c]
               type == tpl.columns[c].type
           IN  /\ g.type \in {"Percent", "Nature", "Pseudo"} => type # "string"
               /\ g.type = "Pseudo" => g.low <= g.high /\ g.high < Unsigned
               /\ g.type = "Table" =>
                     g.deps # <<>> /\ g.low = 0 /\ (g.deps[1] = "own" \/ tpl.tables[g.deps[1]].rows > 0)
               /\ g.type \in {"Less", "More"} =>
                     g.deps # <<>> /\ (g.deps[1] = "own" \/ tpl.tables[g.deps[1]].rows >= tpl.rows)
               /\ g.type \in {"File", "MultiFile"} =>
                     g.dims # <<>> /\ \A dep \in Range(g.dims) : SoundDim(c, dep.dim)
               /\ g.type # "Mapping"
<1>1. CASE fn[c].type \in {"File", "MultiFile"}
    BY <1>1 DEF Sound, SoundDim
<1>2. CASE fn[c].type \notin {"File", "MultiFile"}
    BY <1>2 DEF Sound
<1>. QED
    BY <1>1, <1>2

\* A draw from a sound column sets its value.
LEMMA SoundDraw ==
    ASSUME IInv, phase = "rows", NEW d \in DOMAIN tpl.dim, Asked(d), SoundDim(at[1], d),
           NEW r \in 0..(Len(data[File(d)]) - 1), SetsValue(d, r)
    PROVE  NextColumn
<1>1. Complete(d) /\ LoadedType(d) \in Loadable
    BY DEF SoundDim
<1>2. IsFieldOf(d, r + 1, Field(d, r))
    BY <1>1, FieldIs DEF IInv
<1>3. Field(d, r) # Null
    <2>1. \A a, b, c : <<a, b, c>> # Null
        BY DEF Null
    <2>2. \A a : Freed(a) # Null
        BY DEF Freed, Null
    <2>. QED
        BY <1>2, <2>1, <2>2 DEF IsFieldOf
<1>4. Generic(LoadedType(d)) = Generic(column.type)
    BY DEF SoundDim, column
<1>. QED
    BY <1>3, <1>4 DEF SetsValue, Give

LEMMA SoundGoesOn ==
    ASSUME IInv, phase = "rows", Sound(at[1]), Next
    PROVE  ~RowsEnd
<1>. DEFINE c == at[1]
<1>1. f = fn[c] /\ c \in DOMAIN fn /\ FunctionOK(f) /\ column = tpl.columns[c]
    BY DEF IInv, Placed, FunctionsOK, f, column
<1>2. NextColumn => ~RowsEnd
    BY DEF NextColumn, RowsEnd, Halts
<1>3. \A v : Give(v) => NextColumn
    BY DEF Give
<1>4. \A v : GiveNumber(v) /\ column.type # "string" => NextColumn
    BY <1>3 DEF GiveNumber
<1>. USE <1>1, <1>2, <1>3, <1>4, SoundIs DEF Calculates
<1>5. CASE DefaulRandomCalculate
    BY <1>5 DEF DefaulRandomCalculate
<1>6. CASE PercentRandomCalculate
    BY <1>6 DEF PercentRandomCalculate
<1>7. CASE NatureRandomCaculate
    BY <1>7 DEF NatureRandomCaculate
<1>8. CASE PseudoRandomCaculate
    <2>1. f.low \in Nat /\ f.high \in Nat /\ Unsigned \in Nat \ {0}
        BY RandomAssumption DEF FunctionOK, Shaped
    <2>2. f.low <= f.high /\ f.high < Unsigned /\ column.type # "string"
        BY <1>8 DEF PseudoRandomCaculate
    <2>3. f.low % Unsigned = f.low /\ f.high % Unsigned = f.high
        BY <2>1, <2>2
    <2>4. ~(f.low % Unsigned > f.high % Unsigned)
        <3>1. ~(f.low > f.high)
            BY <2>1, <2>2
        <3>. QED
            BY <2>3, <3>1, Zenon
    <2>5. \E v : GiveNumber(v)
        BY <1>8, <2>4 DEF PseudoRandomCaculate
    <2>. QED
        BY <2>2, <2>5
<1>9. ASSUME f.deps # <<>>
      PROVE  f.deps[1] \in DOMAIN tpl.tables /\ tpl.tables[f.deps[1]].rows \in 0..(Unsigned - 1)
    <2>1. f.deps[1] \in DOMAIN tpl.tables
        BY <1>9, EmptySeq, ElementOfSeq DEF FunctionOK, Shaped
    <2>. QED
        BY <2>1, TemplatesAssumption DEF IInv, Placed
<1>10. row \in Nat /\ tpl.rows \in Nat /\ row < tpl.rows /\ Unsigned \in Nat \ {0}
    BY TemplateIs, RandomAssumption DEF IInv, Placed
<1>11. CASE TableRandomCalculate
    <2>1. f.deps # <<>> /\ f.low = 0
        BY <1>11 DEF TableRandomCalculate
    <2>2. ~(f.low > MaxIdx(f.deps[1]))
        BY <1>9, <1>10, <2>1 DEF MaxIdx
    <2>3. Give(<<"cell", f.deps[1]>>)
        BY <1>11, <2>1, <2>2 DEF TableRandomCalculate
    <2>. QED
        BY <2>3
<1>12. CASE LessOrMoreCalculate
    <2>1. f.deps # <<>> /\ (f.deps[1] = "own" \/ tpl.tables[f.deps[1]].rows >= tpl.rows)
        BY <1>12 DEF LessOrMoreCalculate
    <2>2. ~(row > MaxIdx(f.deps[1]))
        <3>1. CASE f.deps[1] = "own"
            BY <1>10, <3>1 DEF MaxIdx
        <3>2. CASE f.deps[1] # "own"
            <4>1. PICK n \in 0..(Unsigned - 1) : n = tpl.tables[f.deps[1]].rows
                BY <1>9, <2>1
            <4>2. n >= tpl.rows
                BY <2>1, <3>2, <4>1
            <4>3. (n - 1) % Unsigned = n - 1
                BY <1>10, <4>2
            <4>4. MaxIdx(f.deps[1]) = n - 1
                BY <3>2, <4>1, <4>3 DEF MaxIdx
            <4>5. ~(row > n - 1)
                BY <1>10, <4>2
            <4>. QED
                BY <4>4, <4>5, Zenon
        <3>. QED
            BY <3>1, <3>2
    <2>3. \E v : GiveNumberOrNot(v)
        BY <1>12, <2>1, <2>2 DEF LessOrMoreCalculate
    <2>. QED
        BY <2>3 DEF GiveNumberOrNot
<1>13. ASSUME f.type \in {"File", "MultiFile"}, NEW k \in DOMAIN f.dims
       PROVE  SoundDim(c, f.dims[k].dim)
    BY <1>13 DEF Range
<1>14. CASE FileRandomCalculate
    <2>1. f.type = "File"
        BY <1>14, FileIs
    <2>2. f.dims # <<>> /\ 1 \in DOMAIN f.dims
        BY <2>1, EmptySeq, LenProperties DEF FunctionOK, Shaped
    <2>3. SoundDim(c, f.dims[1].dim)
        BY <1>13, <2>1, <2>2
    <2>4. PICK d, low, high, r : FileDraws(d, low, high, r)
        BY <1>14, <2>2, <2>3, FileIs DEF SoundDim
    <2>5. d = f.dims[1].dim /\ SetsValue(d, r)
        BY <2>4 DEF FileDraws
    <2>6. d \in DOMAIN tpl.dim /\ Asked(d) /\ r \in 0..(Len(data[File(d)]) - 1)
        BY <2>4, FileDrawsFrom DEF IInv
    <2>7. SoundDim(c, d)
        BY <2>3, <2>5 DEF SoundDim, File, Complete, LoadedType
    <2>. QED
        BY <2>5, <2>6, <2>7, SoundDraw
<1>15. CASE MultiFileRandomCalculate
    <2>1. f.type = "MultiFile"
        BY <1>15, MultiIs DEF IInv
    <2>2. f.dims # <<>> /\ \A k \in DOMAIN f.dims : HasRows(File(f.dims[k].dim))
        BY <1>13, <2>1 DEF SoundDim
    <2>3. PICK dims, k : Draws(dims, k)
        BY <1>15, <2>2, MultiIs DEF IInv
    <2>4. PICK d : d = dims[k].dim
        OBVIOUS
    <2>5. PICK r : r = RowAt(dims[k])
        OBVIOUS
    <2>6. /\ k \in DOMAIN f.dims /\ d = f.dims[k].dim /\ dims[k] \in Dependencies
          /\ Asked(d) /\ r \in 0..(Len(data[File(d)]) - 1)
        BY <2>3, <2>4, <2>5, DrawsFrom DEF IInv, Lines, Asked, File
    <2>7. d \in DOMAIN tpl.dim
        BY <2>4, <2>6 DEF Dependencies
    <2>8. SetsValue(d, r)
        BY <2>3, <2>4, <2>5 DEF Draws, SetsValue, Field, LoadedType, File
    <2>9. SoundDim(c, d)
        BY <1>13, <2>1, <2>6 DEF SoundDim, File, Complete, LoadedType
    <2>. QED
        BY <2>6, <2>7, <2>8, <2>9, SoundDraw
<1>16. CASE MappingRandomCalculate
    BY <1>16 DEF MappingRandomCalculate
<1>17. CASE NothingCalculate
    BY <1>17 DEF NothingCalculate
<1>18. CASE ProcessParameter \/ EndParameters \/ AddDependencies \/ LoadFiles
    BY <1>18 DEF ProcessParameter, EndParameters, AddDependencies, LoadFiles
<1>19. CASE phase \in Ended
    BY <1>19 DEF Ended
<1>. QED
    BY <1>5, <1>6, <1>7, <1>8, <1>11, <1>12, <1>14, <1>15, <1>16, <1>17, <1>18, <1>19 DEF Next, Calculate

LEMMA SoundKept ==
    ASSUME UNCHANGED <<tpl, info, mapping, data>>, NEW c,
           \/ fn'[c] = fn[c]
           \/ /\ fn[c].type \in {"File", "MultiFile"} /\ fn'[c].type = fn[c].type
              /\ fn[c].dims # <<>> /\ DOMAIN fn'[c].dims = DOMAIN fn[c].dims
              /\ \A k \in DOMAIN fn[c].dims : fn'[c].dims[k].dim = fn[c].dims[k].dim
    PROVE  Sound(c)' => Sound(c)
<1>1. \A d : /\ HasRows(File(d))' = HasRows(File(d)) /\ Complete(d)' = Complete(d)
             /\ LoadedType(d)' = LoadedType(d)
    BY DEF HasRows, File, Complete, HasField, Quoted, LoadedType
<1>2. CASE fn'[c] = fn[c]
    <2>1. \A d : SoundDim(c, d)' = SoundDim(c, d)
        BY <1>1 DEF SoundDim
    <2>2. CASE fn[c].type \in {"File", "MultiFile"}
        <3>1. Sound(c) <=> fn[c].dims # <<>> /\ \A dep \in Range(fn[c].dims) : SoundDim(c, dep.dim)
            BY <2>2 DEF Sound, SoundDim
        <3>2. Sound(c)' <=> fn'[c].dims # <<>> /\ \A dep \in Range(fn'[c].dims) : SoundDim(c, dep.dim)'
            BY <1>2, <2>2 DEF Sound, SoundDim
        <3>. QED
            BY <1>2, <2>1, <3>1, <3>2
    <2>3. CASE fn[c].type \notin {"File", "MultiFile"}
        BY <1>2, <2>3 DEF Sound
    <2>. QED
        BY <2>2, <2>3
<1>3. CASE /\ fn[c].type \in {"File", "MultiFile"} /\ fn'[c].type = fn[c].type
           /\ fn[c].dims # <<>> /\ DOMAIN fn'[c].dims = DOMAIN fn[c].dims
           /\ \A k \in DOMAIN fn[c].dims : fn'[c].dims[k].dim = fn[c].dims[k].dim
    <2>1. \A d : SoundDim(c, d)' = SoundDim(c, d)
        BY <1>1 DEF SoundDim
    <2>2. Sound(c) <=> \A k \in DOMAIN fn[c].dims : SoundDim(c, fn[c].dims[k].dim)
        BY <1>3 DEF Sound, SoundDim, Range
    <2>3. Sound(c)' => \A dep \in Range(fn'[c].dims) : SoundDim(c, dep.dim)'
        BY <1>3 DEF Sound, SoundDim
    <2>4. Sound(c)' => \A k \in DOMAIN fn'[c].dims : SoundDim(c, fn'[c].dims[k].dim)
        BY <2>1, <2>3 DEF Range
    <2>5. \A d, e : d = e => SoundDim(c, d) = SoundDim(c, e)
        OBVIOUS
    <2>. QED
        BY <1>3, <2>2, <2>4, <2>5
<1>. QED
    BY <1>2, <1>3

LEMMA StepSound ==
    ASSUME IInv, SoundColumnsSucceed, [Next]_vars
    PROVE  SoundColumnsSucceed'
<1>1. PICK c : c = at[1]
    OBVIOUS
<1>2. FunctionOK(f) /\ c \in DOMAIN fn /\ f = fn[c]
    BY <1>1 DEF IInv, Placed, FunctionsOK, f
<1>3. ASSUME at' = at, ~Sound(c)' PROVE SoundColumnsSucceed'
    BY <1>1, <1>3 DEF SoundColumnsSucceed
<1>4. ASSUME UNCHANGED vars PROVE SoundColumnsSucceed'
    <2>1. fn'[c] = fn[c] /\ UNCHANGED <<tpl, info, mapping, data>> /\ at' = at /\ phase' = phase
        BY <1>4 DEF vars, dimensions
    <2>2. Sound(c)' => Sound(c)
        BY <2>1, SoundKept
    <2>. QED
        BY <1>1, <2>1, <2>2 DEF SoundColumnsSucceed
<1>5. CASE phase \in Ended
    BY <1>4, <1>5, EndedStep
<1>6. CASE phase \in {"process", "depend", "load"}
    <2>1. phase' \notin {"failed", "crashed"} /\ (phase' = "undefined" => at' = at /\ phase = "process")
        BY <1>6 DEF Next, ProcessParameter, EndParameters, AddDependencies, LoadFiles, Calculate,
            DefaulRandomCalculate, PercentRandomCalculate, NatureRandomCaculate,
            PseudoRandomCaculate, TableRandomCalculate, LessOrMoreCalculate, FileRandomCalculate,
            MultiFileRandomCalculate, MappingRandomCalculate, NothingCalculate, Calculates, Ended,
            Ends, Halts, vars
    <2>2. phase = "process" => at[2] # 0
        BY DEF IInv, Placed
    <2>. QED
        BY <2>1, <2>2 DEF SoundColumnsSucceed
<1>7. CASE phase = "rows"
    <2>1. UNCHANGED <<tpl, info, mapping, data>>
        BY <1>7, RowsStep DEF IInv
    <2>2. CASE UNCHANGED vars
        BY <1>4, <2>2
    <2>3. CASE NextColumn
        BY <2>3 DEF NextColumn, SoundColumnsSucceed
    <2>4. CASE RowsEnd /\ ~UNCHANGED vars
        <3>1. ~Sound(c) /\ at' = at
            BY <1>1, <1>7, <2>4, SoundGoesOn DEF RowsEnd, Halts
        <3>2. Sound(c)' => Sound(c)
            <4>1. CASE UNCHANGED <<fn, picked>>
                BY <2>1, <4>1, SoundKept
            <4>2. CASE f.type = "File" /\ \E d, low, high, r : FileDraws(d, low, high, r)
                <5>1. PICK d, low, high, r : FileDraws(d, low, high, r)
                    BY <4>2
                <5>2. fn'[c] = [f EXCEPT !.low = low, !.high = high] /\ f.dims # <<>>
                    BY <1>1, <1>2, <5>1 DEF FileDraws
                <5>3. fn'[c].type = f.type /\ fn'[c].dims = f.dims
                    BY <1>2, <5>2 DEF FunctionOK, Shaped
                <5>. QED
                    BY <1>2, <2>1, <4>2, <5>2, <5>3, SoundKept
            <4>3. CASE f.type = "MultiFile" /\ \E dims, k : Draws(dims, k)
                <5>1. PICK dims, k : Draws(dims, k)
                    BY <4>3
                <5>2. PICK g : g = Drawn(dims, k)
                    OBVIOUS
                <5>3. fn'[c] = g /\ f.dims # <<>>
                    BY <1>1, <1>2, <5>1, <5>2 DEF Draws
                <5>4. /\ g.type = f.type /\ DOMAIN g.dims = DOMAIN f.dims
                      /\ \A j \in DOMAIN g.dims : g.dims[j].dim = dims[j].dim
                    BY <1>7, <5>1, <5>2, DrawnIs DEF IInv
                <5>5. \A j \in DOMAIN f.dims : dims[j].dim = f.dims[j].dim
                    BY <1>7, <5>1, DrawsFrom DEF IInv
                <5>. QED
                    BY <1>2, <2>1, <4>3, <5>3, <5>4, <5>5, SoundKept
            <4>. QED
                BY <1>7, <2>4, <4>1, <4>2, <4>3, RowsStep DEF IInv
        <3>. QED
            BY <1>3, <3>1, <3>2
    <2>. QED
        BY <1>7, <2>2, <2>3, <2>4, RowsStep DEF IInv
<1>. QED
    BY <1>5, <1>6, <1>7 DEF IInv, Placed, Phases

\* Rows fail, and the program ends in the midst of them, only for a column with a reason in
\* its template or its files, for every set of templates: ranges cut to the lines of a file,
\* windows that go round it and columns that share a position never fail a row.
THEOREM SoundSucceed == Spec => []SoundColumnsSucceed
<1>1. Init => SoundColumnsSucceed
    BY DEF Init, SoundColumnsSucceed
<1>2. IInv /\ SoundColumnsSucceed /\ [Next]_vars => SoundColumnsSucceed'
    BY StepSound
<1>. QED
    BY TypeCorrect, <1>1, <1>2, PTL DEF Spec

-----------------------------------------------------------------------------
(* The rows of a window are drawn in turn.                                 *)

Times(s, p) == Cardinality({i \in DOMAIN s : s[i] = p})

LEMMA TimesAppended ==
    ASSUME NEW s \in Seq(Nat \X Nat), NEW q \in Nat \X Nat
    PROVE  \A p : /\ Times(s, p) \in Nat
                  /\ Times(Append(s, q), p) = IF p = q THEN Times(s, p) + 1 ELSE Times(s, p)
<1>. DEFINE n == Len(s)
            t == Append(s, q)
            is(u, p) == {i \in DOMAIN u : u[i] = p}
<1>1. /\ n \in Nat /\ DOMAIN s = 1..n /\ DOMAIN t = 1..(n + 1)
      /\ t[n + 1] = q /\ \A i \in 1..n : t[i] = s[i]
    <2>1. n \in Nat /\ DOMAIN s = 1..n
        BY LenProperties
    <2>2. t \in Seq(Nat \X Nat) /\ Len(t) = n + 1 /\ t[n + 1] = q /\ \A i \in 1..n : t[i] = s[i]
        BY AppendProperties
    <2>. QED
        BY <2>1, <2>2, LenProperties
<1>. HIDE DEF n, t
<1>2. IsFiniteSet(1..n)
    BY <1>1, FS_Interval
<1>3. ASSUME NEW p
      PROVE  /\ IsFiniteSet(is(s, p)) /\ n + 1 \notin is(s, p)
             /\ is(t, p) = IF p = q THEN is(s, p) \union {n + 1} ELSE is(s, p)
    <2>1. is(s, p) \subseteq 1..n
        BY <1>1
    <2>2. IsFiniteSet(is(s, p))
        BY <1>2, <2>1, FS_Subset
    <2>3. is(t, p) = IF p = q THEN is(s, p) \union {n + 1} ELSE is(s, p)
        <3>1. \A i \in 1..(n + 1) : i \in 1..n \/ i = n + 1
            BY <1>1
        <3>2. 1..n \subseteq 1..(n + 1) /\ n + 1 \in 1..(n + 1)
            BY <1>1
        <3>. QED
            BY <1>1, <3>1, <3>2
    <2>. QED
        BY <1>1, <2>1, <2>2, <2>3
<1>. HIDE DEF is
<1>4. ASSUME NEW p
      PROVE  /\ Cardinality(is(s, p)) \in Nat
             /\ Cardinality(is(t, p)) = IF p = q THEN Cardinality(is(s, p)) + 1 ELSE Cardinality(is(s, p))
    BY <1>3, FS_CardinalityType, FS_AddElement
<1>. QED
    BY <1>4 DEF Times, is, t

RowOf(dep, j) == (dep.init + j) % Lines(dep)

LEMMA RowOfIs ==
    ASSUME NEW dep \in Dependencies, Lines(dep) \in Nat \ {0}, dep.init < Lines(dep),
           NEW j \in 0..Lines(dep)
    PROVE  RowOf(dep, j) = IF dep.init + j < Lines(dep) THEN dep.init + j
                           ELSE dep.init + j - Lines(dep)
<1>1. \A m \in Nat \ {0}, a \in Nat : a < m => a % m = a
    OBVIOUS
<1>2. \A m \in Nat \ {0}, a \in Nat : a >= m /\ a < m + m => a % m = a - m
    OBVIOUS
<1>3. dep.init \in Nat
    BY DEF Dependencies
<1>4. PICK L \in Nat \ {0} : L = Lines(dep)
    OBVIOUS
<1>5. PICK a \in Nat : a = dep.init + j
    BY <1>3, <1>4
<1>6. a < L + L
    BY <1>3, <1>4, <1>5
<1>7. a % L = IF a < L THEN a ELSE a - L
    <2>1. CASE a < L
        BY <1>1, <2>1
    <2>2. CASE a >= L
        <3>1. a % L = a - L
            BY <1>2, <1>6, <2>2, Zenon
        <3>. QED
            BY <2>2, <3>1
    <2>. QED
        BY <2>1, <2>2
<1>8. RowOf(dep, j) = a % L
    BY <1>4, <1>5 DEF RowOf
<1>9. RowOf(dep, j) = IF a < L THEN a ELSE a - L
    BY <1>7, <1>8
<1>. QED
    BY <1>3, <1>4, <1>5, <1>9

(* So many rounds through the window, and so many rows of the next.        *)
Turn(s, k, dep, m, t) ==
    /\ \A j \in 0..(dep.number - 1) : Times(s, <<k, RowOf(dep, j)>>) = IF j < t THEN m + 1 ELSE m
    /\ RowAt(dep) = RowOf(dep, t)

InTurn(s, k, dep) ==
    /\ \E m \in Nat, t \in 0..(dep.number - 1) : Turn(s, k, dep, m, t)
    /\ \A i \in DOMAIN s : s[i][1] = k => \E j \in 0..(dep.number - 1) : s[i][2] = RowOf(dep, j)

LEMMA NextRowIs ==
    ASSUME NEW dep \in Dependencies, NEW e \in Dependencies, WindowSet(dep), Lines(dep) \in Nat \ {0},
           dep.end # 0 \/ dep.init = 0,
           e.init = dep.init, e.end = dep.end, e.last = RowAt(dep) + 1, Lines(e) = Lines(dep),
           NEW t \in 0..(dep.number - 1), RowAt(dep) = RowOf(dep, t)
    PROVE  RowAt(e) = RowOf(dep, IF t + 1 = dep.number THEN 0 ELSE t + 1)
<1>1. PICK L \in Nat \ {0} : L = Lines(dep)
    OBVIOUS
<1>2. PICK init \in 0..(L - 1) : init = dep.init
    BY <1>1 DEF WindowSet
<1>3. PICK n \in 1..L : n = dep.number
    BY <1>1 DEF WindowSet
<1>4. \A j \in 0..L : RowOf(dep, j) = IF init + j < L THEN init + j ELSE init + j - L
    BY <1>1, <1>2, RowOfIs
<1>5. dep.end = IF init + n < L THEN init + n ELSE init + n - L
    <2>1. dep.end = RowOf(dep, n)
        BY <1>3 DEF WindowSet, RowOf
    <2>. QED
        BY <1>1, <1>3, <1>4, <2>1
<1>6. t \in 0..(n - 1)
    BY <1>3
<1>7. PICK r \in 0..L : r = RowOf(dep, t) /\ r = IF init + t < L THEN init + t ELSE init + t - L
    BY <1>1, <1>2, <1>3, <1>4, <1>6
<1>8. RowAt(e) = LET last == IF r + 1 = dep.end THEN init ELSE r + 1
                 IN  IF last = L THEN 0 ELSE last
    BY <1>1, <1>2, <1>7 DEF RowAt
<1>9. dep.end # 0 \/ init = 0
    BY <1>2
<1>10. CASE t + 1 = n
    <2>1. RowAt(e) = init
        BY <1>1, <1>2, <1>3, <1>5, <1>6, <1>7, <1>8, <1>9, <1>10
    <2>2. RowOf(dep, 0) = init
        BY <1>1, <1>2, <1>4
    <2>. QED
        BY <1>3, <1>10, <2>1, <2>2
<1>11. CASE t + 1 # n
    <2>1. t + 1 \in 1..(n - 1)
        BY <1>3, <1>6, <1>11
    <2>2. RowAt(e) = IF init + (t + 1) < L THEN init + (t + 1) ELSE init + (t + 1) - L
        <3>1. CASE init + t < L
            <4>1. r + 1 = init + (t + 1) /\ r + 1 # dep.end
                BY <1>1, <1>2, <1>3, <1>5, <1>7, <2>1, <3>1
            <4>. QED
                BY <1>1, <1>2, <1>3, <1>8, <2>1, <3>1, <4>1
        <3>2. CASE init + t >= L
            <4>1. r + 1 = init + (t + 1) - L /\ r + 1 # dep.end /\ r + 1 # L
                BY <1>1, <1>2, <1>3, <1>5, <1>7, <2>1, <3>2
            <4>. QED
                BY <1>1, <1>2, <1>3, <1>8, <2>1, <3>2, <4>1
        <3>. QED
            BY <1>1, <1>2, <1>3, <2>1, <3>1, <3>2
    <2>3. RowOf(dep, t + 1) = IF init + (t + 1) < L THEN init + (t + 1) ELSE init + (t + 1) - L
        BY <1>3, <1>4, <2>1
    <2>. QED
        BY <1>3, <1>11, <2>2, <2>3
<1>. QED
    BY <1>10, <1>11

\* A window that was just set is at its first row.
LEMMA TurnStarts ==
    ASSUME NEW dep \in Dependencies, WindowSet(dep), Lines(dep) \in Nat \ {0}, dep.last = dep.init, NEW k
    PROVE  InTurn(<<>>, k, dep)
<1>1. 0 \in 0..(dep.number - 1) /\ dep.init \in Nat /\ dep.init < Lines(dep)
    BY DEF WindowSet
<1>2. RowOf(dep, 0) = dep.init
    BY <1>1, RowOfIs
<1>3. RowAt(dep) = dep.init
    BY <1>1 DEF RowAt
<1>4. \A p : Times(<<>>, p) = 0
    <2>1. \A p : {i \in DOMAIN <<>> : <<>>[i] = p} = {}
        OBVIOUS
    <2>. QED
        BY <2>1, FS_EmptySet DEF Times
<1>5. \A j \in 0..(dep.number - 1) : ~(j < 0)
    OBVIOUS
<1>6. Turn(<<>>, k, dep, 0, 0)
    BY <1>2, <1>3, <1>4, <1>5 DEF Turn
<1>. QED
    BY <1>1, <1>6 DEF InTurn

\* Each row of the window has a place of its own in the turn.
LEMMA RowsDiffer ==
    ASSUME NEW dep \in Dependencies, WindowSet(dep), Lines(dep) \in Nat \ {0},
           NEW i \in 0..(dep.number - 1), NEW j \in 0..(dep.number - 1), RowOf(dep, i) = RowOf(dep, j)
    PROVE  i = j
<1>1. PICK L \in Nat \ {0} : L = Lines(dep)
    OBVIOUS
<1>2. PICK init \in 0..(L - 1) : init = dep.init
    BY <1>1 DEF WindowSet
<1>3. i \in 0..(L - 1) /\ j \in 0..(L - 1)
    BY <1>1 DEF WindowSet
<1>4. \A x \in 0..L : RowOf(dep, x) = IF init + x < L THEN init + x ELSE init + x - L
    BY <1>1, <1>2, RowOfIs
<1>5. /\ RowOf(dep, i) = IF init + i < L THEN init + i ELSE init + i - L
      /\ RowOf(dep, j) = IF init + j < L THEN init + j ELSE init + j - L
    BY <1>3, <1>4
<1>6. (IF init + i < L THEN init + i ELSE init + i - L)
          = (IF init + j < L THEN init + j ELSE init + j - L)
    BY <1>5
<1>. QED
    BY <1>1, <1>2, <1>3, <1>6

LEMMA TurnGoesOn ==
    ASSUME NEW s \in Seq(Nat \X Nat), NEW k \in Nat,
           NEW dep \in Dependencies, NEW e \in Dependencies, WindowSet(dep), Lines(dep) \in Nat \ {0},
           dep.end # 0 \/ dep.init = 0, InTurn(s, k, dep),
           e.init = dep.init, e.end = dep.end, e.number = dep.number, e.last = RowAt(dep) + 1,
           Lines(e) = Lines(dep), RowAt(dep) \in Nat
    PROVE  InTurn(Append(s, <<k, RowAt(dep)>>), k, e)
<1>. DEFINE q == <<k, RowAt(dep)>>
            u == Append(s, q)
            n == dep.number
<1>1. n \in Nat \ {0}
    BY DEF WindowSet
<1>2. PICK m \in Nat, t \in 0..(n - 1) : Turn(s, k, dep, m, t)
    BY DEF InTurn
<1>3. RowAt(dep) = RowOf(dep, t)
    BY <1>2 DEF Turn
<1>4. \A j : RowOf(e, j) = RowOf(dep, j)
    BY DEF RowOf
<1>5. q \in Nat \X Nat
    OBVIOUS
<1>6. \A j \in 0..(n - 1) : <<k, RowOf(dep, j)>> = q <=> j = t
    BY <1>2, <1>3, RowsDiffer
<1>. HIDE DEF q
<1>7. \A j \in 0..(n - 1) : Times(u, <<k, RowOf(dep, j)>>) = IF j < t + 1 THEN m + 1 ELSE m
    <2>1. ASSUME NEW j \in 0..(n - 1)
          PROVE  Times(u, <<k, RowOf(dep, j)>>) = IF j < t + 1 THEN m + 1 ELSE m
        <3>1. Times(s, <<k, RowOf(dep, j)>>) = IF j < t THEN m + 1 ELSE m
            BY <1>2 DEF Turn
        <3>2. Times(u, <<k, RowOf(dep, j)>>) = IF j = t THEN Times(s, <<k, RowOf(dep, j)>>) + 1
                                               ELSE Times(s, <<k, RowOf(dep, j)>>)
            <4>1. \A p : Times(u, p) = IF p = q THEN Times(s, p) + 1 ELSE Times(s, p)
                BY <1>5, TimesAppended
            <4>2. <<k, RowOf(dep, j)>> = q <=> j = t
                BY <1>6
            <4>. HIDE DEF u
            <4>. QED
                BY <4>1, <4>2
        <3>. QED
            BY <1>1, <1>2, <3>1, <3>2
    <2>. QED
        BY <2>1
<1>8. RowAt(e) = RowOf(dep, IF t + 1 = n THEN 0 ELSE t + 1)
    BY <1>2, <1>3, NextRowIs
<1>9. \E m2 \in Nat, t2 \in 0..(n - 1) : Turn(u, k, e, m2, t2)
    <2>1. CASE t + 1 = n
        <3>1. \A j \in 0..(n - 1) : j < t + 1 /\ ~(j < 0)
            BY <1>1, <2>1
        <3>2. Turn(u, k, e, m + 1, 0)
            BY <1>4, <1>7, <1>8, <2>1, <3>1 DEF Turn
        <3>. QED
            BY <1>1, <3>2
    <2>2. CASE t + 1 # n
        <3>1. t + 1 \in 0..(n - 1)
            BY <1>1, <1>2, <2>2
        <3>2. Turn(u, k, e, m, t + 1)
            BY <1>4, <1>7, <1>8, <2>2 DEF Turn
        <3>. QED
            BY <3>1, <3>2
    <2>. QED
        BY <2>1, <2>2
<1>10. \A i \in DOMAIN u : u[i][1] = k => \E j \in 0..(n - 1) : u[i][2] = RowOf(dep, j)
    <2>1. /\ DOMAIN u = 1..(Len(s) + 1) /\ u[Len(s) + 1] = q /\ \A i \in 1..Len(s) : u[i] = s[i]
          /\ Len(s) \in Nat /\ DOMAIN s = 1..Len(s)
        <3>1. /\ u \in Seq(Nat \X Nat) /\ Len(u) = Len(s) + 1 /\ u[Len(s) + 1] = q
              /\ \A i \in 1..Len(s) : u[i] = s[i]
            BY <1>5, AppendProperties
        <3>. QED
            BY <3>1, LenProperties
    <2>2. q[2] = RowOf(dep, t)
        BY <1>3 DEF q
    <2>3. ASSUME NEW i \in DOMAIN u, u[i][1] = k
          PROVE  \E j \in 0..(n - 1) : u[i][2] = RowOf(dep, j)
        <3>1. CASE i = Len(s) + 1
            BY <1>2, <2>1, <2>2, <3>1
        <3>2. CASE i \in 1..Len(s)
            BY <2>1, <2>3, <3>2 DEF InTurn
        <3>. QED
            BY <2>1, <3>1, <3>2
    <2>. QED
        BY <2>3
<1>. QED
    BY <1>4, <1>9, <1>10 DEF InTurn, q

\* A row of another file leaves the turn where it was.
LEMMA TurnWaits ==
    ASSUME NEW s \in Seq(Nat \X Nat), NEW k \in Nat, NEW other \in Nat, other # k, NEW r \in Nat,
           NEW dep \in Dependencies, InTurn(s, k, dep)
    PROVE  InTurn(Append(s, <<other, r>>), k, dep)
<1>. DEFINE q == <<other, r>>
            u == Append(s, q)
<1>1. q \in Nat \X Nat /\ q[1] # k /\ \A x : <<k, x>> # q
    OBVIOUS
<1>. HIDE DEF q
<1>2. \A x : Times(u, <<k, x>>) = Times(s, <<k, x>>)
    BY <1>1, TimesAppended
<1>3. PICK m \in Nat, t \in 0..(dep.number - 1) : Turn(s, k, dep, m, t)
    BY DEF InTurn
<1>4. Turn(u, k, dep, m, t)
    BY <1>2, <1>3 DEF Turn
<1>5. /\ DOMAIN u = 1..(Len(s) + 1) /\ u[Len(s) + 1] = q /\ \A i \in 1..Len(s) : u[i] = s[i]
      /\ Len(s) \in Nat /\ DOMAIN s = 1..Len(s)
    <2>1. /\ u \in Seq(Nat \X Nat) /\ Len(u) = Len(s) + 1 /\ u[Len(s) + 1] = q
          /\ \A i \in 1..Len(s) : u[i] = s[i]
        BY <1>1, AppendProperties
    <2>. QED
        BY <2>1, LenProperties
<1>6. ASSUME NEW i \in DOMAIN u, u[i][1] = k
      PROVE  \E j \in 0..(dep.number - 1) : u[i][2] = RowOf(dep, j)
    <2>1. i # Len(s) + 1
        BY <1>1, <1>5, <1>6
    <2>2. i \in DOMAIN s /\ u[i] = s[i]
        BY <1>5, <2>1
    <2>. QED
        BY <1>6, <2>2 DEF InTurn
<1>. QED
    BY <1>3, <1>4, <1>6 DEF InTurn, q

(* The windows are set with the first row of a column, and nothing is      *)
(* picked before.                                                          *)
FirstOK ==
    /\ phase \in {"process", "depend", "load"} => row = 0 /\ \A c \in DOMAIN fn : ~fn[c].windows
    /\ \A c \in DOMAIN fn : ~fn[c].windows => picked[c] = <<>>
    /\ phase = "rows" =>
          \A c \in DOMAIN fn : fn[c].type = "MultiFile" /\ (row # 0 \/ c < at[1]) => fn[c].windows

\* The window of file k of a function was set.
WindowOn(g, k) == g.windows /\ \A j \in 1..k : HasRows(File(g.dims[j].dim))

TurnIs(g, k, s) ==
    WindowOn(g, k) =>
        /\ Lines(g.dims[k]) \in Nat \ {0} /\ WindowSet(g.dims[k])
        /\ g.dims[k].end # 0 \/ g.dims[k].init = 0 => InTurn(s, k, g.dims[k])

TurnOK == \A c \in DOMAIN fn : \A k \in DOMAIN fn[c].dims : TurnIs(fn[c], k, picked[c])

LEMMA EarlyWindows ==
    ASSUME IInv, FirstOK, phase \in {"process", "depend", "load"}, [Next]_vars
    PROVE  \A c \in DOMAIN fn' : ~fn'[c].windows
<1>1. FunctionOK(f) /\ at[1] \in DOMAIN fn /\ f = fn[at[1]] /\ ~f.windows
    BY DEF IInv, Placed, FunctionsOK, FirstOK, f
<1>2. DOMAIN f = {"type", "values", "low", "high", "percent", "deps", "dims", "key", "picks",
                  "pick", "windows"}
    BY <1>1 DEF FunctionOK, Shaped
<1>3. ASSUME fn' = fn PROVE \A c \in DOMAIN fn' : ~fn'[c].windows
    BY <1>3 DEF FirstOK
<1>4. ASSUME NEW g, fn' = [fn EXCEPT ![at[1]] = g], ~g.windows
      PROVE  \A c \in DOMAIN fn' : ~fn'[c].windows
    BY <1>4 DEF FirstOK
<1>5. CASE ProcessParameter
    <2>1. CASE fn' = [fn EXCEPT ![at[1]] = Read(parameter)]
        <3>1. ~Read(parameter).windows
            BY <1>1, <1>2, ReadIs
        <3>. QED
            BY <1>4, <2>1, <3>1
    <2>. QED
        BY <1>3, <1>5, <2>1 DEF ProcessParameter, Ends
<1>6. CASE EndParameters
    <2>1. CASE \E picks : fn' = [fn EXCEPT ![at[1]].picks = picks]
        <3>1. PICK picks : fn' = [fn EXCEPT ![at[1]].picks = picks]
            BY <2>1
        <3>2. PICK g : g = [f EXCEPT !.picks = picks]
            OBVIOUS
        <3>3. fn' = [fn EXCEPT ![at[1]] = g] /\ ~g.windows
            BY <1>1, <1>2, <3>1, <3>2
        <3>. QED
            BY <1>4, <3>3
    <2>. QED
        BY <1>3, <1>6, <2>1 DEF EndParameters, Ends
<1>7. CASE AddDependencies
    <2>1. CASE \E deps : fn' = [fn EXCEPT ![at[1]].deps = deps]
        <3>1. PICK deps : fn' = [fn EXCEPT ![at[1]].deps = deps]
            BY <2>1
        <3>2. PICK g : g = [f EXCEPT !.deps = deps]
            OBVIOUS
        <3>3. fn' = [fn EXCEPT ![at[1]] = g] /\ ~g.windows
            BY <1>1, <1>2, <3>1, <3>2
        <3>. QED
            BY <1>4, <3>3
    <2>. QED
        BY <1>3, <1>7, <2>1 DEF AddDependencies, Ends
<1>8. CASE LoadFiles \/ UNCHANGED vars
    BY <1>3, <1>8 DEF LoadFiles, Ends, vars
<1>9. CASE Calculate
    BY <1>9 DEF Calculate, DefaulRandomCalculate, PercentRandomCalculate, NatureRandomCaculate,
        PseudoRandomCaculate, TableRandomCalculate, LessOrMoreCalculate, FileRandomCalculate,
        MultiFileRandomCalculate, MappingRandomCalculate, NothingCalculate, Calculates
<1>10. CASE phase \in Ended
    BY <1>10 DEF Ended
<1>. QED
    BY <1>5, <1>6, <1>7, <1>8, <1>9, <1>10 DEF Next

LEMMA EarlyAt ==
    ASSUME IInv, phase \in {"process", "depend", "load"}, [Next]_vars
    PROVE  phase' = "rows" => at'[1] = 1
<1>1. CASE ProcessParameter
    BY <1>1 DEF ProcessParameter, Ends, Halts
<1>2. CASE EndParameters
    BY <1>2 DEF EndParameters, Ends, Halts
<1>3. CASE AddDependencies
    BY <1>3 DEF AddDependencies, Ends, Halts
<1>4. CASE LoadFiles
    BY <1>4 DEF LoadFiles, Ends, Halts
<1>5. CASE Calculate
    BY <1>5 DEF Calculate, DefaulRandomCalculate, PercentRandomCalculate, NatureRandomCaculate,
        PseudoRandomCaculate, TableRandomCalculate, LessOrMoreCalculate, FileRandomCalculate,
        MultiFileRandomCalculate, MappingRandomCalculate, NothingCalculate, Calculates
<1>6. CASE UNCHANGED vars
    BY <1>6 DEF vars
<1>. QED
    BY <1>1, <1>2, <1>3, <1>4, <1>5, <1>6 DEF Next

LEMMA StepFirst ==
    ASSUME IInv, Sized, FirstOK, [Next]_vars
    PROVE  FirstOK'
<1>1. FunctionOK(f) /\ at[1] \in DOMAIN fn /\ f = fn[at[1]] /\ DOMAIN fn' = DOMAIN fn
      /\ DOMAIN fn = DOMAIN tpl.columns /\ DOMAIN picked = DOMAIN fn
    BY StepPlaced, StepFunctions DEF IInv, Placed, FunctionsOK, f, Sized
<1>2. DOMAIN fn = 1..Len(tpl.columns) /\ Len(tpl.columns) \in Nat
    BY <1>1, TemplateIs, LenProperties DEF IInv
<1>3. CASE phase \in {"process", "depend", "load"}
    <2>1. \A c \in DOMAIN fn' : ~fn'[c].windows
        BY <1>3, EarlyWindows
    <2>2. picked' = picked /\ row' = 0
        BY <1>3, EarlyStep DEF FirstOK
    <2>3. phase' = "rows" => at'[1] = 1
        BY <1>3, EarlyAt
    <2>4. \A c \in DOMAIN fn : ~(c < 1)
        BY <1>2
    <2>. QED
        BY <1>1, <1>3, <2>1, <2>2, <2>3, <2>4 DEF FirstOK
<1>4. CASE phase \in Ended
    BY <1>4, EndedStep DEF FirstOK, vars
<1>5. CASE phase = "rows"
    <2>1. phase' \notin {"process", "depend", "load"}
        BY <1>5, RowsStep DEF IInv, RowsEnd, Halts, NextColumn, vars
    <2>2. \A c \in DOMAIN fn : phase' = "rows" /\ (row' # 0 \/ c < at'[1])
                               => row # 0 \/ c < at[1] \/ c = at[1]
        <3>1. CASE UNCHANGED vars
            BY <3>1 DEF vars
        <3>2. CASE RowsEnd
            BY <3>2 DEF RowsEnd, Halts
        <3>3. CASE NextColumn
            BY <1>1, <1>2, <3>3 DEF NextColumn
        <3>. QED
            BY <1>5, <3>1, <3>2, <3>3, RowsStep DEF IInv
    <2>3. ASSUME fn' = fn, picked' = picked, f.type = "MultiFile" => phase' # "rows" \/ UNCHANGED vars
          PROVE  FirstOK'
        <3>1. ASSUME NEW c \in DOMAIN fn, phase' = "rows", fn[c].type = "MultiFile",
                     row' # 0 \/ c < at'[1]
              PROVE  fn[c].windows
            <4>1. CASE c # at[1]
                BY <1>5, <2>2, <3>1, <4>1 DEF FirstOK
            <4>2. CASE c = at[1]
                <5>1. UNCHANGED vars
                    BY <1>1, <2>3, <3>1, <4>2
                <5>. QED
                    BY <1>5, <3>1, <5>1 DEF FirstOK, vars
            <4>. QED
                BY <4>1, <4>2
        <3>. QED
            BY <2>1, <2>3, <3>1 DEF FirstOK
    <2>4. ASSUME NEW g, fn' = [fn EXCEPT ![at[1]] = g],
                 \A c \in DOMAIN fn : c # at[1] => picked'[c] = picked[c],
                 g.windows \/ (g.type # "MultiFile" /\ picked' = picked /\ g.windows = f.windows)
          PROVE  FirstOK'
        <3>1. fn'[at[1]] = g /\ \A c \in DOMAIN fn : c # at[1] => fn'[c] = fn[c]
            BY <1>1, <2>4
        <3>2. ASSUME NEW c \in DOMAIN fn, ~fn'[c].windows PROVE picked'[c] = <<>>
            <4>1. CASE c # at[1]
                BY <2>4, <3>1, <3>2, <4>1 DEF FirstOK
            <4>2. CASE c = at[1]
                BY <1>1, <2>4, <3>1, <3>2, <4>2 DEF FirstOK
            <4>. QED
                BY <4>1, <4>2
        <3>3. ASSUME NEW c \in DOMAIN fn, phase' = "rows", fn'[c].type = "MultiFile",
                     row' # 0 \/ c < at'[1]
              PROVE  fn'[c].windows
            <4>1. CASE c # at[1]
                BY <1>5, <2>2, <3>1, <3>3, <4>1 DEF FirstOK
            <4>2. CASE c = at[1]
                BY <2>4, <3>1, <3>3, <4>2
            <4>. QED
                BY <4>1, <4>2
        <3>. QED
            BY <1>1, <2>1, <3>2, <3>3 DEF FirstOK
    <2>5. ASSUME NEW d, NEW low, NEW high, NEW r, FileDraws(d, low, high, r), f.type = "File"
          PROVE  FirstOK'
        <3>1. PICK g : g = [f EXCEPT !.low = low, !.high = high]
            OBVIOUS
        <3>2. fn' = [fn EXCEPT ![at[1]] = g] /\ picked' = picked
            BY <2>5, <3>1 DEF FileDraws
        <3>3. g.type = f.type /\ g.windows = f.windows
            BY <1>1, <3>1 DEF FunctionOK, Shaped
        <3>. QED
            BY <2>4, <2>5, <3>2, <3>3
    <2>6. ASSUME NEW dims, NEW k, Draws(dims, k), f.type = "MultiFile"
          PROVE  FirstOK'
        <3>1. PICK g : g = Drawn(dims, k)
            OBVIOUS
        <3>2. fn' = [fn EXCEPT ![at[1]] = g] /\ \A c \in DOMAIN fn : c # at[1] => picked'[c] = picked[c]
            BY <1>1, <2>6, <3>1 DEF Draws
        <3>3. g.windows = (f.windows \/ (row = 0 /\ ~f.windows))
            BY <1>5, <2>6, <3>1, DrawnIs DEF IInv
        <3>4. f.windows \/ row = 0
            BY <1>1, <1>5, <2>6 DEF FirstOK
        <3>. QED
            BY <2>4, <3>2, <3>3, <3>4
    <2>7. UNCHANGED vars => UNCHANGED <<fn, picked>>
        BY DEF vars
    <2>. QED
        BY <1>5, <2>3, <2>5, <2>6, <2>7, RowsStep DEF IInv
<1>. QED
    BY <1>3, <1>4, <1>5 DEF IInv, Placed, Phases

LEMMA DrawTurns ==
    ASSUME IInv, Sized, FirstOK, TurnOK, phase = "rows", f.type = "MultiFile",
           NEW dims, NEW k, Draws(dims, k),
           NEW j \in DOMAIN f.dims, WindowOn(Drawn(dims, k), j)
    PROVE  /\ Lines(dims[j]) \in Nat \ {0} /\ WindowSet(dims[j])
           /\ dims[j].end # 0 \/ dims[j].init = 0 => InTurn(picked[at[1]], j, dims[j])
<1>1. FunctionOK(f) /\ at[1] \in DOMAIN fn /\ f = fn[at[1]]
    BY DEF IInv, Placed, FunctionsOK, f
<1>2. f.dims \in Seq(Dependencies) /\ DOMAIN f.dims = 1..Len(f.dims) /\ Len(f.dims) \in Nat
    BY <1>1, LenProperties DEF FunctionOK, Shaped
<1>3. /\ dims \in Seq(Dependencies) /\ DOMAIN dims = DOMAIN f.dims
      /\ \A i \in DOMAIN dims :
            /\ dims[i] \in Dependencies /\ dims[i].dim = f.dims[i].dim
            /\ Asked(dims[i].dim) /\ Lines(dims[i]) \in Nat
    BY DrawsFrom DEF IInv
<1>4. \A i \in DOMAIN dims : Drawn(dims, k).dims[i].dim = f.dims[i].dim
    BY <1>3, DrawnIs DEF IInv
<1>5. \A i \in 1..j : i \in DOMAIN f.dims
    BY <1>2
<1>6. ASSUME NEW i \in 1..j PROVE HasRows(File(f.dims[i].dim))
    <2>1. HasRows(File(Drawn(dims, k).dims[i].dim))
        BY DEF WindowOn
    <2>2. Drawn(dims, k).dims[i].dim = f.dims[i].dim
        BY <1>3, <1>4, <1>5
    <2>. QED
        BY <2>1, <2>2 DEF File
<1>7. \A i \in 1..j : Lines(f.dims[i]) \in Nat \ {0}
    <2>1. ASSUME NEW i \in 1..j PROVE Lines(f.dims[i]) \in Nat \ {0}
        <3>1. /\ dims[i] \in Dependencies /\ dims[i].dim = f.dims[i].dim
              /\ Asked(dims[i].dim) /\ Lines(dims[i]) \in Nat
            BY <1>3, <1>5
        <3>2. dims[i].dim \in DOMAIN tpl.dim /\ HasRows(File(dims[i].dim))
            BY <1>6, <3>1 DEF Dependencies, File
        <3>3. Len(data[File(dims[i].dim)]) \in Nat \ {0}
            BY <3>1, <3>2, LinesAre DEF IInv
        <3>. QED
            BY <3>1, <3>3 DEF Lines, File
    <2>. QED
        BY <2>1
<1>8. j \in 1..j
    BY <1>2
<1>9. Lines(dims[j]) = Lines(f.dims[j])
    BY <1>3 DEF Lines, File
<1>10. CASE row = 0 /\ ~f.windows
    <2>1. dims \in Windows(f.dims) /\ picked[at[1]] = <<>>
        BY <1>1, <1>10 DEF Draws, FirstOK
    <2>2. \A i \in DOMAIN f.dims : Lines(f.dims[i]) \in Nat
        BY <1>3 DEF Lines, File
    <2>3. WindowSet(dims[j]) /\ dims[j].last = dims[j].init
        BY <1>2, <1>7, <2>1, <2>2, WindowsAre
    <2>4. InTurn(<<>>, j, dims[j])
        BY <1>3, <1>7, <1>8, <1>9, <2>3, TurnStarts
    <2>. QED
        BY <1>7, <1>8, <1>9, <2>1, <2>3, <2>4
<1>11. CASE ~(row = 0 /\ ~f.windows)
    <2>1. dims = f.dims /\ f.windows
        BY <1>1, <1>11 DEF Draws, FirstOK
    <2>2. WindowOn(f, j)
        BY <1>6, <2>1 DEF WindowOn
    <2>3. TurnIs(f, j, picked[at[1]])
        BY <1>1 DEF TurnOK
    <2>. QED
        BY <2>1, <2>2, <2>3 DEF TurnIs
<1>. QED
    BY <1>10, <1>11

LEMMA DrawKeepsTurns ==
    ASSUME IInv, Sized, FirstOK, TurnOK, phase = "rows", f.type = "MultiFile",
           NEW dims, NEW k, Draws(dims, k), NEW j \in DOMAIN f.dims
    PROVE  TurnIs(Drawn(dims, k), j, Append(picked[at[1]], <<k, RowAt(dims[k])>>))
<1>1. PICK g : g = Drawn(dims, k)
    OBVIOUS
<1>2. /\ DOMAIN g.dims = DOMAIN f.dims
      /\ \A i \in DOMAIN g.dims :
            /\ g.dims[i].init = dims[i].init /\ g.dims[i].number = dims[i].number
            /\ g.dims[i].end = dims[i].end
            /\ i # k => g.dims[i] = dims[i]
            /\ Lines(g.dims[i]) = Lines(dims[i])
      /\ g.dims[k].last = RowAt(dims[k]) + 1 /\ g.dims \in Seq(Dependencies)
    BY <1>1, DrawnIs DEF IInv
<1>3. k \in DOMAIN f.dims /\ RowAt(dims[k]) \in 0..(Lines(dims[k]) - 1) /\ Lines(dims[k]) \in Nat \ {0}
      /\ DOMAIN dims = DOMAIN f.dims /\ \A i \in DOMAIN dims : dims[i] \in Dependencies
    BY DrawsFrom DEF IInv
<1>4. /\ k \in Nat /\ j \in Nat /\ RowAt(dims[k]) \in Nat
      /\ g.dims[k] \in Dependencies /\ g.dims[j] \in Dependencies
    BY <1>2, <1>3, LenProperties, ElementOfSeq
<1>5. picked[at[1]] \in Seq(Nat \X Nat)
    BY DEF Sized, IInv, Placed, FunctionsOK
<1>6. SUFFICES ASSUME WindowOn(g, j)
               PROVE  /\ Lines(g.dims[j]) \in Nat \ {0} /\ WindowSet(g.dims[j])
                      /\ g.dims[j].end # 0 \/ g.dims[j].init = 0
                         => InTurn(Append(picked[at[1]], <<k, RowAt(dims[k])>>), j, g.dims[j])
    BY <1>1 DEF TurnIs
<1>7. /\ Lines(dims[j]) \in Nat \ {0} /\ WindowSet(dims[j])
      /\ dims[j].end # 0 \/ dims[j].init = 0 => InTurn(picked[at[1]], j, dims[j])
    BY <1>1, <1>6, DrawTurns
<1>12. j \in DOMAIN g.dims
    <2>1. DOMAIN g.dims = DOMAIN f.dims
        BY <1>2
    <2>. QED
        BY <2>1
<1>10. /\ g.dims[j].init = dims[j].init /\ g.dims[j].number = dims[j].number
       /\ g.dims[j].end = dims[j].end /\ (j # k => g.dims[j] = dims[j])
    BY <1>2, <1>12
<1>. PICK e \in Dependencies : e = g.dims[j]
    BY <1>4
<1>. PICK d \in Dependencies : d = dims[j]
    BY <1>3
<1>11. /\ e.init = d.init /\ e.number = d.number /\ e.end = d.end /\ (j # k => e = d)
       /\ Lines(e) = Lines(d) /\ (j = k => e.last = RowAt(d) + 1)
    <2>1. j \in DOMAIN g.dims
        BY <1>2
    <2>2. e.init = d.init /\ e.number = d.number /\ e.end = d.end /\ (j # k => e = d)
        BY <1>10, Zenon
    <2>3. Lines(g.dims[j]) = Lines(dims[j])
        BY <1>2, <2>1
    <2>4. Lines(e) = Lines(d)
        BY <2>3
    <2>5. j = k => e.last = RowAt(d) + 1
        BY <1>2
    <2>. QED
        BY <2>2, <2>4, <2>5
<1>8. Lines(g.dims[j]) \in Nat \ {0} /\ WindowSet(g.dims[j])
    <2>1. Lines(d) \in Nat \ {0} /\ WindowSet(d)
        BY <1>7 DEF Lines
    <2>2. Lines(e) \in Nat \ {0} /\ WindowSet(e)
        BY <1>11, <2>1 DEF WindowSet
    <2>. QED
        BY <2>2
<1>9. ASSUME g.dims[j].end # 0 \/ g.dims[j].init = 0
      PROVE  InTurn(Append(picked[at[1]], <<k, RowAt(dims[k])>>), j, g.dims[j])
    <2>1. d.end # 0 \/ d.init = 0
        BY <1>9, <1>11
    <2>4. InTurn(picked[at[1]], j, d)
        BY <1>7, <2>1
    <2>5. Lines(d) \in Nat \ {0} /\ WindowSet(d)
        BY <1>7
    <2>2. CASE j = k
        <3>1. e.last = RowAt(d) + 1 /\ RowAt(d) \in Nat /\ dims[k] = d
            BY <1>4, <1>11, <2>2
        <3>2. InTurn(Append(picked[at[1]], <<j, RowAt(d)>>), j, e)
            BY <1>4, <1>5, <1>11, <2>1, <2>4, <2>5, <3>1, TurnGoesOn
        <3>. QED
            BY <2>2, <3>1, <3>2
    <2>3. CASE j # k
        <3>1. e = d
            BY <1>11, <2>3
        <3>2. InTurn(Append(picked[at[1]], <<k, RowAt(dims[k])>>), j, d)
            BY <1>4, <1>5, <2>3, <2>4, TurnWaits
        <3>. QED
            BY <3>1, <3>2
    <2>. QED
        BY <2>2, <2>3
<1>. QED
    BY <1>8, <1>9

LEMMA TurnKept ==
    ASSUME UNCHANGED <<tpl, info, mapping, data>>
    PROVE  \A g, k, s : TurnIs(g, k, s) => TurnIs(g, k, s)'
<1>1. \A d : File(d)' = File(d) /\ HasRows(File(d))' = HasRows(File(d))
    BY DEF File, HasRows
<1>2. \A dep : Lines(dep)' = Lines(dep)
    BY DEF Lines, File
<1>3. \A dep : WindowSet(dep)' = WindowSet(dep) /\ RowAt(dep)' = RowAt(dep)
    BY <1>2 DEF WindowSet, RowAt
<1>4. \A dep, j : RowOf(dep, j)' = RowOf(dep, j)
    BY <1>2 DEF RowOf
<1>5. \A s, k, dep : InTurn(s, k, dep)' <=> InTurn(s, k, dep)
    <2>1. ASSUME NEW s, NEW k, NEW dep, NEW m, NEW t
          PROVE  Turn(s, k, dep, m, t)' <=> Turn(s, k, dep, m, t)
        <3>1. \A j : Times(s, <<k, RowOf(dep, j)>>)' = Times(s, <<k, RowOf(dep, j)>>)
            BY <1>4
        <3>2. RowAt(dep)' = RowAt(dep) /\ RowOf(dep, t)' = RowOf(dep, t)
            BY <1>3, <1>4
        <3>. QED
            BY <3>1, <3>2 DEF Turn
    <2>. QED
        BY <1>4, <2>1 DEF InTurn
<1>6. \A g, k : WindowOn(g, k)' = WindowOn(g, k)
    BY <1>1 DEF WindowOn
<1>. QED
    BY <1>2, <1>3, <1>5, <1>6 DEF TurnIs

LEMMA StepTurn ==
    ASSUME IInv, Sized, FirstOK, TurnOK, [Next]_vars
    PROVE  TurnOK'
<1>1. FunctionOK(f) /\ at[1] \in DOMAIN fn /\ f = fn[at[1]] /\ DOMAIN fn' = DOMAIN fn
      /\ DOMAIN picked = DOMAIN fn
    BY StepPlaced, StepFunctions DEF IInv, Placed, FunctionsOK, f, Sized
<1>2. CASE phase \in {"process", "depend", "load"}
    BY <1>2, EarlyWindows DEF TurnOK, TurnIs, WindowOn
<1>3. ASSUME UNCHANGED <<tpl, info, mapping, data>>,
             \A c \in DOMAIN fn : \A k \in DOMAIN fn'[c].dims : TurnIs(fn'[c], k, picked'[c])
      PROVE  TurnOK'
    <2>1. ASSUME NEW c \in DOMAIN fn, NEW k \in DOMAIN fn'[c].dims
          PROVE  TurnIs(fn[c], k, picked[c])'
        <3>1. PICK g : g = fn'[c]
            OBVIOUS
        <3>2. PICK s : s = picked'[c]
            OBVIOUS
        <3>3. TurnIs(g, k, s)
            BY <1>3, <3>1, <3>2
        <3>4. TurnIs(g, k, s)'
            BY <1>3, <3>3, TurnKept
        <3>. QED
            BY <3>1, <3>2, <3>4
    <2>. QED
        BY <1>1, <2>1 DEF TurnOK
<1>4. ASSUME UNCHANGED <<tpl, info, mapping, data, fn, picked>> PROVE TurnOK'
    BY <1>3, <1>4 DEF TurnOK
<1>5. CASE phase \in Ended
    BY <1>4, <1>5, EndedStep DEF vars, dimensions
<1>6. CASE phase = "rows"
    <2>1. UNCHANGED <<tpl, info, mapping, data>>
        BY <1>6, RowsStep DEF IInv
    <2>2. ASSUME NEW d, NEW low, NEW high, NEW r, FileDraws(d, low, high, r)
          PROVE  TurnOK'
        <3>1. PICK g : g = [f EXCEPT !.low = low, !.high = high]
            OBVIOUS
        <3>2. fn' = [fn EXCEPT ![at[1]] = g] /\ picked' = picked
            BY <2>2, <3>1 DEF FileDraws
        <3>3. g.dims = f.dims /\ g.windows = f.windows
            BY <1>1, <3>1 DEF FunctionOK, Shaped
        <3>4. \A k \in DOMAIN g.dims : TurnIs(g, k, picked[at[1]])
            BY <1>1, <3>3 DEF TurnOK, TurnIs, WindowOn
        <3>5. \A c \in DOMAIN fn : \A k \in DOMAIN fn'[c].dims : TurnIs(fn'[c], k, picked'[c])
            BY <1>1, <3>2, <3>4 DEF TurnOK
        <3>. QED
            BY <1>3, <2>1, <3>5
    <2>3. ASSUME NEW dims, NEW k, Draws(dims, k), f.type = "MultiFile"
          PROVE  TurnOK'
        <3>1. PICK g : g = Drawn(dims, k)
            OBVIOUS
        <3>2. PICK s : s = Append(picked[at[1]], <<k, RowAt(dims[k])>>)
            OBVIOUS
        <3>3. fn' = [fn EXCEPT ![at[1]] = g] /\ picked' = [picked EXCEPT ![at[1]] = s]
            BY <1>1, <2>3, <3>1, <3>2 DEF Draws
        <3>4. DOMAIN g.dims = DOMAIN f.dims
            BY <1>6, <2>3, <3>1, DrawnIs DEF IInv
        <3>5. \A j \in DOMAIN g.dims : TurnIs(g, j, s)
            BY <1>6, <2>3, <3>1, <3>2, <3>4, DrawKeepsTurns
        <3>6. \A c \in DOMAIN fn : \A j \in DOMAIN fn'[c].dims : TurnIs(fn'[c], j, picked'[c])
            BY <1>1, <3>3, <3>5 DEF TurnOK
        <3>. QED
            BY <1>3, <2>1, <3>6
    <2>4. UNCHANGED vars => UNCHANGED <<fn, picked>>
        BY DEF vars
    <2>. QED
        BY <1>4, <1>6, <2>1, <2>2, <2>3, <2>4, RowsStep DEF IInv
<1>. QED
    BY <1>2, <1>5, <1>6 DEF IInv, Placed, Phases

LEMMA InTurnIsEven ==
    ASSUME NEW c \in DOMAIN picked, NEW k, NEW dep \in Dependencies, WindowSet(dep),
           InTurn(picked[c], k, dep)
    PROVE  /\ \A i \in DOMAIN picked[c] : picked[c][i][1] = k => picked[c][i][2] \in Window(dep)
           /\ \A r, q \in Window(dep) :
                 Cardinality(Picked(c, <<k, r>>)) <= Cardinality(Picked(c, <<k, q>>)) + 1
<1>1. Window(dep) = {RowOf(dep, j) : j \in 0..(dep.number - 1)}
    BY DEF Window, RowOf
<1>2. \A i \in DOMAIN picked[c] : picked[c][i][1] = k => picked[c][i][2] \in Window(dep)
    BY <1>1 DEF InTurn
<1>3. \A p : Cardinality(Picked(c, p)) = Times(picked[c], p)
    BY DEF Picked, Times
<1>4. PICK m \in Nat, t \in 0..(dep.number - 1) : Turn(picked[c], k, dep, m, t)
    BY DEF InTurn
<1>5. \A j \in 0..(dep.number - 1) : Times(picked[c], <<k, RowOf(dep, j)>>) \in {m, m + 1}
    BY <1>4 DEF Turn
<1>6. ASSUME NEW r \in Window(dep), NEW q \in Window(dep)
      PROVE  Cardinality(Picked(c, <<k, r>>)) <= Cardinality(Picked(c, <<k, q>>)) + 1
    <2>1. Times(picked[c], <<k, r>>) \in {m, m + 1} /\ Times(picked[c], <<k, q>>) \in {m, m + 1}
        BY <1>1, <1>5
    <2>. QED
        BY <1>3, <1>4, <2>1
<1>. QED
    BY <1>2, <1>6

\* A column of many files draws the rows of each window that was set in turn, over and over, for
\* every template, number of rows and way the array of picks was shuffled (EvenInWindow;
\* fillDimensionInfo and MultiFileRandomCalculate).
THEOREM WindowsEven == Spec => []EvenInWindow
<1>. DEFINE Inv == Sized /\ FirstOK /\ TurnOK
<1>1. Init => Inv
    <2>. SUFFICES ASSUME Init PROVE Inv
        OBVIOUS
    <2>1. /\ DOMAIN fn = DOMAIN tpl.columns /\ \A c \in DOMAIN fn : ~fn[c].windows
          /\ DOMAIN picked = DOMAIN tpl.columns /\ \A c \in DOMAIN fn : picked[c] = <<>>
          /\ phase = "process" /\ row = 0
        BY DEF Init, Function
    <2>2. Sized
        BY <2>1 DEF Sized, Init
    <2>3. FirstOK
        BY <2>1 DEF FirstOK
    <2>4. TurnOK
        BY <2>1 DEF TurnOK, TurnIs, WindowOn
    <2>. QED
        BY <2>2, <2>3, <2>4
<1>2. IInv /\ Inv /\ [Next]_vars => Inv'
    BY StepSized, StepFirst, StepTurn
<1>3. IInv /\ Inv => EvenInWindow
    <2>. SUFFICES ASSUME IInv, Inv, NEW c \in DOMAIN picked, NEW k \in DOMAIN fn[c].dims,
                         fn[c].windows /\ \A j \in 1..k : HasRows(File(fn[c].dims[j].dim)),
                         fn[c].dims[k].end # 0 \/ fn[c].dims[k].init = 0
                  PROVE  LET dep == fn[c].dims[k]
                         IN  /\ \A i \in DOMAIN picked[c] :
                                   picked[c][i][1] = k => picked[c][i][2] \in Window(dep)
                             /\ \A r, q \in Window(dep) : Cardinality(Picked(c, <<k, r>>))
                                                          <= Cardinality(Picked(c, <<k, q>>)) + 1
        BY DEF EvenInWindow
    <2>1. c \in DOMAIN fn
        BY DEF Sized, IInv, FunctionsOK
    <2>2. TurnIs(fn[c], k, picked[c]) /\ WindowOn(fn[c], k)
        BY <2>1 DEF TurnOK, WindowOn
    <2>3. fn[c].dims[k] \in Dependencies
        BY <2>1, ElementOfSeq, LenProperties DEF IInv, FunctionsOK, FunctionOK, Shaped
    <2>4. WindowSet(fn[c].dims[k]) /\ InTurn(picked[c], k, fn[c].dims[k])
        BY <2>2 DEF TurnIs
    <2>. QED
        BY <2>3, <2>4, InTurnIsEven
<1>. QED
    BY TypeCorrect, <1>1, <1>2, <1>3, PTL DEF Spec

-----------------------------------------------------------------------------
(* The array of picks.                                                     *)

LEMMA TotalIs ==
    ASSUME NEW dims
    PROVE  /\ Total(dims, 0) = 0
           /\ \A k \in Nat \ {0} : Total(dims, k) = (Total(dims, k - 1) + dims[k].percent) % Byte
<1>. DEFINE step(x, i) == (x + dims[i].percent) % Byte
            to(g, n) == /\ DOMAIN g = 0..n /\ g[0] = 0
                        /\ \A i \in 1..n : g[i] = step(g[i - 1], i)
<1>. HIDE DEF step
<1>1. \A n \in Nat : \E g : to(g, n)
    <2>. DEFINE T == {n \in Nat : ~\E g : to(g, n)}
    <2>. SUFFICES ASSUME T # {} PROVE FALSE
        OBVIOUS
    <2>1. PICK m \in T : \A k \in T : m <= k
        <3>1. T \in SUBSET Nat
            OBVIOUS
        <3>. HIDE DEF T
        <3>. QED
            BY <3>1, Least
    <2>2. m # 0
        <3>1. to([i \in 0..0 |-> 0], 0)
            OBVIOUS
        <3>. QED
            BY <2>1, <3>1
    <2>3. m - 1 \in Nat /\ m - 1 \notin T
        BY <2>1, <2>2
    <2>4. PICK g : to(g, m - 1)
        BY <2>3
    <2>. DEFINE h == [i \in 0..m |-> IF i = m THEN step(g[m - 1], m) ELSE g[i]]
    <2>5. h[0] = 0 /\ h[m] = step(h[m - 1], m)
        BY <2>1, <2>2, <2>4
    <2>6. ASSUME NEW i \in 1..m PROVE h[i] = step(h[i - 1], i)
        <3>1. CASE i = m
            BY <2>5, <3>1
        <3>2. CASE i # m
            <4>1. i \in 1..(m - 1) /\ i - 1 \in 0..m /\ i - 1 # m /\ i \in 0..m
                BY <2>1, <3>2
            <4>2. h[i] = g[i] /\ h[i - 1] = g[i - 1]
                BY <3>2, <4>1
            <4>. QED
                BY <2>4, <4>1, <4>2
        <3>. QED
            BY <3>1, <3>2
    <2>7. to(h, m)
        BY <2>5, <2>6
    <2>. QED
        BY <2>1, <2>7
<1>2. ASSUME NEW n \in Nat, NEW m \in Nat, NEW g, NEW h, to(g, n), to(h, m), n <= m
      PROVE  \A i \in 0..n : g[i] = h[i]
    <2>. DEFINE T == {i \in 0..n : g[i] # h[i]}
    <2>. SUFFICES ASSUME T # {} PROVE FALSE
        OBVIOUS
    <2>1. PICK i \in T : \A k \in T : i <= k
        <3>1. T \in SUBSET Nat
            OBVIOUS
        <3>. HIDE DEF T
        <3>. QED
            BY <3>1, Least
    <2>2. i # 0
        BY <1>2, <2>1
    <2>3. i \in 1..n /\ i \in 1..m /\ i - 1 \in 0..n /\ i - 1 \notin T
        BY <1>2, <2>1, <2>2
    <2>4. g[i - 1] = h[i - 1]
        BY <2>3
    <2>5. g[i] = step(g[i - 1], i) /\ h[i] = step(h[i - 1], i)
        BY <1>2, <2>3
    <2>. QED
        BY <2>1, <2>4, <2>5
<1>. HIDE DEF to
<1>. DEFINE G(n) == CHOOSE g : to(g, n)
            H == [n \in Nat |-> G(n)[n]]
<1>3. \A n \in Nat : to(G(n), n)
    BY <1>1
<1>. HIDE DEF G
<1>4. \A i \in Nat : H[i] = IF i = 0 THEN 0 ELSE step(H[i - 1], i)
    <2>. SUFFICES ASSUME NEW i \in Nat PROVE H[i] = IF i = 0 THEN 0 ELSE step(H[i - 1], i)
        OBVIOUS
    <2>1. to(G(i), i)
        BY <1>3
    <2>2. CASE i = 0
        BY <2>1, <2>2 DEF to
    <2>3. CASE i # 0
        <3>1. i - 1 \in Nat /\ i - 1 <= i /\ i \in 1..i /\ i - 1 \in 0..(i - 1)
            BY <2>3
        <3>2. to(G(i - 1), i - 1)
            BY <1>3, <3>1
        <3>3. G(i - 1)[i - 1] = G(i)[i - 1]
            BY <1>2, <2>1, <3>1, <3>2
        <3>4. G(i)[i] = step(G(i)[i - 1], i)
            BY <2>1, <3>1 DEF to
        <3>. QED
            BY <2>3, <3>1, <3>3, <3>4
    <2>. QED
        BY <2>2, <2>3
<1>. DEFINE total == CHOOSE total : total = [i \in Nat |-> IF i = 0 THEN 0 ELSE step(total[i - 1], i)]
<1>5. H = [i \in Nat |-> IF i = 0 THEN 0 ELSE step(H[i - 1], i)]
    BY <1>4
<1>. HIDE DEF H
<1>6. total = [i \in Nat |-> IF i = 0 THEN 0 ELSE step(total[i - 1], i)]
    BY <1>5
<1>7. \A k : Total(dims, k) = total[k]
    BY DEF Total, step
<1>. HIDE DEF total
<1>8. total[0] = 0 /\ \A k \in Nat \ {0} : total[k] = step(total[k - 1], k)
    BY <1>6
<1>. QED
    BY <1>7, <1>8 DEF step

\* The byte never wraps in an array that is not written past: each total is the one before and
\* the percentage.
LEMMA TotalsRise ==
    ASSUME NEW dims \in Seq(Dependencies), ~PastArray(dims)
    PROVE  /\ \A k \in 0..Len(dims) : Total(dims, k) \in Nat
           /\ \A k \in 1..Len(dims) : Total(dims, k) = Total(dims, k - 1) + dims[k].percent
           /\ \A j, k \in 0..Len(dims) : j <= k => Total(dims, j) <= Total(dims, k)
<1>. DEFINE T(k) == Total(dims, k)
            n == Len(dims)
<1>1. n \in Nat /\ DOMAIN dims = 1..n /\ \A k \in 1..n : dims[k].percent \in Nat
    <2>1. n \in Nat /\ DOMAIN dims = 1..n
        BY LenProperties
    <2>2. \A k \in 1..n : dims[k] \in Dependencies
        BY ElementOfSeq
    <2>. QED
        BY <2>1, <2>2 DEF Dependencies
<1>2. T(0) = 0 /\ \A k \in Nat \ {0} : T(k) = (T(k - 1) + dims[k].percent) % Byte
    BY TotalIs
<1>3. \A k \in 1..n : \A i \in T(k - 1) + 1 .. T(k - 1) + dims[k].percent : i <= Hundred
    BY <1>1, RandomAssumption DEF PastArray, Places
<1>. HIDE DEF T, n
<1>. PICK b \in Nat \ {0} : b = Byte
    BY RandomAssumption
<1>. PICK h \in Nat \ {0} : h = Hundred /\ h < b
    BY RandomAssumption
<1>4. \A k \in 0..n : T(k) \in 0..(b - 1)
    <2>. DEFINE bad == {k \in 0..n : T(k) \notin 0..(b - 1)}
    <2>. SUFFICES ASSUME bad # {} PROVE FALSE
        OBVIOUS
    <2>1. PICK m \in bad : \A k \in bad : m <= k
        <3>1. bad \in SUBSET Nat
            OBVIOUS
        <3>. HIDE DEF bad
        <3>. QED
            BY <3>1, Least
    <2>2. m # 0
        BY <1>2, <2>1
    <2>3. m - 1 \in 0..n /\ m \in 1..n /\ m - 1 \notin bad
        BY <1>1, <2>1, <2>2
    <2>4. T(m - 1) \in 0..(b - 1)
        BY <2>3
    <2>5. PICK x \in Nat : x = T(m - 1) + dims[m].percent
        BY <1>1, <2>3, <2>4
    <2>6. T(m) = x % b
        BY <1>2, <2>3, <2>5
    <2>7. x % b \in 0..(b - 1)
        OBVIOUS
    <2>. QED
        BY <2>1, <2>6, <2>7
<1>5. ASSUME NEW k \in 1..n PROVE T(k) = T(k - 1) + dims[k].percent
    <2>1. T(k - 1) \in 0..(b - 1) /\ k \in Nat \ {0}
        BY <1>1, <1>4
    <2>2. PICK p \in Nat : p = dims[k].percent
        BY <1>1
    <2>3. PICK t \in 0..(b - 1) : t = T(k - 1)
        BY <2>1
    <2>4. p = 0 \/ t + p \in t + 1 .. t + p
        OBVIOUS
    <2>5. t + p < b
        BY <1>3, <2>2, <2>3, <2>4
    <2>6. (t + p) % b = t + p
        BY <2>5
    <2>. QED
        BY <1>2, <2>1, <2>2, <2>3, <2>6
<1>6. ASSUME NEW j \in 0..n PROVE \A k \in 0..n : j <= k => T(j) <= T(k)
    <2>. DEFINE bad == {k \in 0..n : j <= k /\ ~(T(j) <= T(k))}
    <2>. SUFFICES ASSUME bad # {} PROVE FALSE
        OBVIOUS
    <2>1. PICK m \in bad : \A k \in bad : m <= k
        <3>1. bad \in SUBSET Nat
            OBVIOUS
        <3>. HIDE DEF bad
        <3>. QED
            BY <3>1, Least
    <2>2. m # j
        BY <1>4, <2>1
    <2>3. m - 1 \in 0..n /\ m \in 1..n /\ j <= m - 1 /\ m - 1 \notin bad
        BY <1>1, <2>1, <2>2
    <2>4. T(j) <= T(m - 1) /\ T(m) = T(m - 1) + dims[m].percent
        BY <1>5, <2>3
    <2>. QED
        BY <1>1, <1>4, <2>1, <2>3, <2>4
<1>. QED
    BY <1>4, <1>5, <1>6 DEF T, n

\* The places of the files follow one another, so that each has as many as its percentage.
LEMMA FilledIs ==
    ASSUME NEW dims \in Seq(Dependencies), ~PastArray(dims), Len(dims) <= Byte,
           Total(dims, Len(dims)) = Hundred, NEW k \in DOMAIN dims
    PROVE  Cardinality({i \in 1..Hundred : Filled(dims)[i] = k}) = dims[k].percent
<1>. DEFINE T(j) == Total(dims, j)
            n == Len(dims)
            ks(i) == {j \in DOMAIN dims : i \in Places(dims, j)}
<1>1. n \in Nat /\ DOMAIN dims = 1..n /\ \A j \in 1..n : dims[j].percent \in Nat
    <2>1. n \in Nat /\ DOMAIN dims = 1..n
        BY LenProperties
    <2>2. \A j \in 1..n : dims[j] \in Dependencies
        BY ElementOfSeq
    <2>. QED
        BY <2>1, <2>2 DEF Dependencies
<1>2. /\ \A j \in 0..n : T(j) \in Nat
      /\ \A j \in 1..n : T(j) = T(j - 1) + dims[j].percent
      /\ \A j, m \in 0..n : j <= m => T(j) <= T(m)
    BY TotalsRise
<1>3. T(0) = 0 /\ T(n) = Hundred
    BY TotalIs
<1>. PICK h \in Nat \ {0} : h = Hundred
    BY RandomAssumption
<1>4. \A j \in 1..n : Places(dims, j) = T(j - 1) + 1 .. T(j)
    BY <1>2 DEF Places
<1>5. \A i : ks(i) = {j \in 1..n : i \in T(j - 1) + 1 .. T(j)}
    BY <1>1, <1>4
<1>6. \A i \in 1..h : Filled(dims)[i] = IF ks(i) = {} THEN 1 ELSE FileIdx(Max(ks(i)))
    BY DEF Filled
<1>. HIDE DEF T, n, ks
<1>7. ASSUME NEW i, NEW j \in 1..n, NEW m \in 1..n, i \in T(j - 1) + 1 .. T(j),
             i \in T(m - 1) + 1 .. T(m), j < m
      PROVE  FALSE
    <2>1. j \in 0..n /\ m - 1 \in 0..n /\ j <= m - 1 /\ j - 1 \in 0..n /\ m \in 0..n
        BY <1>1, <1>7
    <2>2. T(j) <= T(m - 1)
        BY <1>2, <2>1
    <2>3. T(j) \in Nat /\ T(m - 1) \in Nat /\ T(j - 1) \in Nat /\ T(m) \in Nat
        BY <1>2, <2>1
    <2>. QED
        BY <1>7, <2>2, <2>3
<1>8. \A i : \A j, m \in 1..n : i \in T(j - 1) + 1 .. T(j) /\ i \in T(m - 1) + 1 .. T(m) => j = m
    BY <1>1, <1>7
<1>9. ASSUME NEW i, NEW j \in ks(i) PROVE ks(i) = {j}
    BY <1>5, <1>8
<1>10. \A i : \A j \in ks(i) : Max(ks(i)) = j
    <2>. SUFFICES ASSUME NEW i, NEW j \in ks(i) PROVE Max(ks(i)) = j
        OBVIOUS
    <2>1. ks(i) \in SUBSET Nat /\ \A m \in ks(i) : m <= n
        BY <1>1, <1>5
    <2>2. Max(ks(i)) \in ks(i)
        BY <1>1, <2>1, MaxOf
    <2>. QED
        BY <1>9, <2>2
<1>11. ASSUME NEW i \in 1..h PROVE ks(i) # {}
    <2>. DEFINE above == {j \in 0..n : i <= T(j)}
    <2>1. n \in above
        BY <1>1, <1>3
    <2>2. above \in SUBSET Nat
        OBVIOUS
    <2>3. PICK j \in above : \A m \in above : j <= m
        <3>. HIDE DEF above
        <3>. QED
            BY <2>1, <2>2, Least
    <2>4. j # 0
        BY <1>3, <2>3
    <2>5. j - 1 \in 0..n /\ j \in 1..n /\ j - 1 \notin above
        BY <1>1, <2>3, <2>4
    <2>6. T(j - 1) \in Nat /\ T(j) \in Nat /\ ~(i <= T(j - 1)) /\ i <= T(j)
        BY <1>2, <2>3, <2>5
    <2>7. i \in T(j - 1) + 1 .. T(j)
        BY <2>6
    <2>. QED
        BY <1>5, <2>5, <2>7
<1>12. ASSUME NEW i \in 1..h PROVE Filled(dims)[i] = k <=> k \in ks(i)
    <2>1. PICK j : j \in ks(i)
        BY <1>11
    <2>2. Max(ks(i)) = j /\ j \in 1..n /\ ks(i) = {j}
        BY <1>5, <1>9, <1>10, <2>1
    <2>3. FileIdx(j) = j
        <3>1. j \in Nat \ {0} /\ j <= n /\ n <= Byte
            BY <1>1, <2>2 DEF n
        <3>. QED
            BY <1>1, <3>1, FileIdxIs, RandomAssumption
    <2>. QED
        BY <1>6, <2>2, <2>3
<1>13. k \in 1..n /\ k - 1 \in 0..n /\ k \in 0..n
    BY <1>1
<1>14. T(k) <= h /\ T(k) \in Nat /\ T(k - 1) \in Nat
    <2>1. n \in 0..n /\ k <= n
        BY <1>1, <1>13
    <2>. QED
        BY <1>2, <1>3, <1>13, <2>1
<1>15. {i \in 1..h : Filled(dims)[i] = k} = T(k - 1) + 1 .. T(k)
    <2>1. \A i \in 1..h : Filled(dims)[i] = k <=> i \in T(k - 1) + 1 .. T(k)
        BY <1>5, <1>12, <1>13
    <2>2. T(k - 1) + 1 .. T(k) \subseteq 1..h
        BY <1>14
    <2>. QED
        BY <2>1, <2>2
<1>16. Cardinality(T(k - 1) + 1 .. T(k)) = dims[k].percent
    <2>1. PICK a \in Nat : a = T(k - 1)
        BY <1>14
    <2>2. PICK p \in Nat : p = dims[k].percent /\ T(k) = a + p
        BY <1>1, <1>2, <1>13, <2>1
    <2>3. Cardinality(a + 1 .. a + p) = IF a + 1 > a + p THEN 0 ELSE (a + p) - (a + 1) + 1
        BY FS_Interval
    <2>. QED
        BY <2>1, <2>2, <2>3
<1>. QED
    BY <1>15, <1>16

(* The array of a function has each file as often as its percentage says.  *)
Parted(g) ==
    Len(g.dims) <= Byte =>
        \A k \in DOMAIN g.dims :
            Cardinality({i \in 1..Hundred : g.picks[i] = k}) = g.dims[k].percent

LEMMA ShuffledParts ==
    ASSUME NEW dims \in Seq(Dependencies), ~PastArray(dims),
           dims = <<>> \/ Total(dims, Len(dims)) = Hundred,
           NEW picks \in Shuffled(Filled(dims)), Len(dims) <= Byte, NEW k \in DOMAIN dims
    PROVE  Cardinality({i \in 1..Hundred : picks[i] = k}) = dims[k].percent
<1>. PICK a : a = Filled(dims)
    OBVIOUS
<1>1. dims # <<>>
    OBVIOUS
<1>2. Cardinality({i \in 1..Hundred : a[i] = k}) = dims[k].percent
    BY <1>1, FilledIs
<1>3. /\ picks \in [1..Hundred -> {a[i] : i \in 1..Hundred}]
      /\ \A v \in {a[i] : i \in 1..Hundred} :
            Cardinality({i \in 1..Hundred : picks[i] = v}) = Cardinality({i \in 1..Hundred : a[i] = v})
    BY DEF Shuffled
<1>4. CASE k \in {a[i] : i \in 1..Hundred}
    BY <1>2, <1>3, <1>4
<1>5. CASE k \notin {a[i] : i \in 1..Hundred}
    <2>1. {i \in 1..Hundred : a[i] = k} = {}
        BY <1>5
    <2>2. {i \in 1..Hundred : picks[i] = k} = {}
        BY <1>3, <1>5
    <2>. QED
        BY <1>2, <2>1, <2>2
<1>. QED
    BY <1>4, <1>5

\* The functions agree on what shares are made of.
SameParts(g, h) ==
    /\ h.picks = g.picks /\ Len(h.dims) = Len(g.dims) /\ DOMAIN h.dims = DOMAIN g.dims
    /\ \A k \in DOMAIN g.dims : h.dims[k].percent = g.dims[k].percent

\* The place of the array that the file picked so many picks before the last came from.
PlaceOf(pick, ago) == IF ago < pick - 1 THEN pick - 1 - ago ELSE pick - 1 - ago + Hundred

(* The last Hundred picks are those of the array, from the end of the last *)
(* back to the begin.                                                      *)
LatestOK(g, s) ==
    \A i \in DOMAIN s : Len(s) - i < Hundred => s[i][1] = g.picks[PlaceOf(g.pick, Len(s) - i)]

SharesOf(g, s) ==
    Len(g.dims) <= Byte =>
        \A n \in 0..(Len(s) - Hundred), k \in DOMAIN g.dims :
            Cardinality({i \in (n + 1)..(n + Hundred) : s[i][1] = k}) = g.dims[k].percent

LEMMA PlaceIs ==
    ASSUME NEW p \in 1..Hundred
    PROVE  /\ \A x \in 0..(Hundred - 1) : PlaceOf(p, x) \in 1..Hundred
           /\ \A x, y \in 0..(Hundred - 1) : PlaceOf(p, x) = PlaceOf(p, y) => x = y
           /\ \A j \in 1..Hundred : \E x \in 0..(Hundred - 1) : PlaceOf(p, x) = j
           /\ PlaceOf((p % Hundred) + 1, 0) = p
           /\ \A x \in 0..(Hundred - 1) :
                 x + 1 < Hundred => PlaceOf((p % Hundred) + 1, x + 1) = PlaceOf(p, x)
           /\ (p % Hundred) + 1 \in 1..Hundred
<1>. DEFINE of(m, q, x) == IF x < q - 1 THEN q - 1 - x ELSE q - 1 - x + m
            next(m, q) == IF q = m THEN 1 ELSE q + 1
<1>1. \A m \in Nat \ {0} : \A q \in 1..m : \A x \in 0..(m - 1) : of(m, q, x) \in 1..m
    OBVIOUS
<1>2. \A m \in Nat \ {0} : \A q \in 1..m : \A x, y \in 0..(m - 1) : of(m, q, x) = of(m, q, y) => x = y
    OBVIOUS
<1>3. \A m \in Nat \ {0} : \A q, j \in 1..m : \E x \in 0..(m - 1) : of(m, q, x) = j
    <2>. SUFFICES ASSUME NEW m \in Nat \ {0}, NEW q \in 1..m, NEW j \in 1..m
                  PROVE  \E x \in 0..(m - 1) : of(m, q, x) = j
        OBVIOUS
    <2>1. CASE j < q
        <3>1. q - 1 - j \in 0..(m - 1) /\ of(m, q, q - 1 - j) = j
            BY <2>1
        <3>. QED
            BY <3>1
    <2>2. CASE j >= q
        <3>1. q - 1 + m - j \in 0..(m - 1) /\ of(m, q, q - 1 + m - j) = j
            BY <2>2
        <3>. QED
            BY <3>1
    <2>. QED
        BY <2>1, <2>2
<1>4. \A m \in Nat \ {0} : \A q \in 1..m : of(m, next(m, q), 0) = q /\ next(m, q) \in 1..m
    OBVIOUS
<1>5. \A m \in Nat \ {0} : \A q \in 1..m : \A x \in 0..(m - 1) :
          x + 1 < m => of(m, next(m, q), x + 1) = of(m, q, x)
    OBVIOUS
<1>6. \A m \in Nat \ {0} : \A q \in 1..m : (q % m) + 1 = next(m, q)
    <2>. SUFFICES ASSUME NEW m \in Nat \ {0}, NEW q \in 1..m PROVE (q % m) + 1 = next(m, q)
        OBVIOUS
    <2>1. q < m => q % m = q
        OBVIOUS
    <2>2. m % m = 0
        OBVIOUS
    <2>. QED
        BY <2>1, <2>2
<1>7. \A q, x : PlaceOf(q, x) = of(Hundred, q, x)
    BY DEF PlaceOf
<1>8. Hundred \in Nat \ {0}
    BY RandomAssumption
<1>9. (p % Hundred) + 1 = next(Hundred, p)
    BY <1>6, <1>8
<1>. HIDE DEF of, next
<1>10. \A x \in 0..(Hundred - 1) : PlaceOf(p, x) \in 1..Hundred
    BY <1>1, <1>7, <1>8
<1>11. \A x, y \in 0..(Hundred - 1) : PlaceOf(p, x) = PlaceOf(p, y) => x = y
    BY <1>2, <1>7, <1>8
<1>12. \A j \in 1..Hundred : \E x \in 0..(Hundred - 1) : PlaceOf(p, x) = j
    BY <1>3, <1>7, <1>8
<1>13. PlaceOf((p % Hundred) + 1, 0) = p /\ (p % Hundred) + 1 \in 1..Hundred
    BY <1>4, <1>7, <1>8, <1>9
<1>14. \A x \in 0..(Hundred - 1) :
           x + 1 < Hundred => PlaceOf((p % Hundred) + 1, x + 1) = PlaceOf(p, x)
    BY <1>5, <1>7, <1>8, <1>9
<1>. QED
    BY <1>10, <1>11, <1>12, <1>13, <1>14

LEMMA LatestAppended ==
    ASSUME NEW g, NEW h, NEW s \in Seq(Nat \X Nat), NEW q \in Nat \X Nat, g.pick \in 1..Hundred,
           LatestOK(g, s), q[1] = g.picks[g.pick], h.picks = g.picks,
           h.pick = (g.pick % Hundred) + 1
    PROVE  LatestOK(h, Append(s, q))
<1>. PICK p \in 1..Hundred : p = g.pick
    OBVIOUS
<1>. PICK n \in Nat : n = Len(s)
    BY LenProperties
<1>. PICK t : t = Append(s, q)
    OBVIOUS
<1>0. Hundred \in Nat \ {0}
    BY RandomAssumption
<1>1. /\ DOMAIN s = 1..n /\ DOMAIN t = 1..(n + 1) /\ Len(t) = n + 1 /\ t[n + 1] = q
      /\ \A i \in 1..n : t[i] = s[i]
    <2>1. t \in Seq(Nat \X Nat) /\ Len(t) = n + 1 /\ t[n + 1] = q /\ \A i \in 1..n : t[i] = s[i]
        BY AppendProperties
    <2>. QED
        BY <2>1, LenProperties
<1>2. ASSUME NEW i \in 1..(n + 1), n + 1 - i < Hundred
      PROVE  t[i][1] = g.picks[PlaceOf(h.pick, n + 1 - i)]
    <2>1. CASE i = n + 1
        <3>1. n + 1 - i = 0
            BY <2>1
        <3>2. PlaceOf(h.pick, 0) = p
            BY PlaceIs
        <3>3. PlaceOf(h.pick, n + 1 - i) = p
            BY <3>1, <3>2
        <3>. QED
            BY <1>1, <2>1, <3>3
    <2>2. CASE i # n + 1
        <3>1. i \in 1..n
            BY <2>2
        <3>6. n - i \in Nat /\ n + 1 - i = (n - i) + 1
            BY <3>1
        <3>2. PICK x \in Nat : x = n - i /\ n + 1 - i = x + 1
            BY <3>6
        <3>7. x + 1 < Hundred
            BY <1>2, <3>2
        <3>3. x \in 0..(Hundred - 1) /\ x + 1 < Hundred /\ x < Hundred
            BY <1>0, <3>7
        <3>4. s[i][1] = g.picks[PlaceOf(p, x)]
            BY <1>1, <3>1, <3>2, <3>3 DEF LatestOK
        <3>5. PlaceOf(h.pick, x + 1) = PlaceOf(p, x)
            BY <3>3, PlaceIs
        <3>. QED
            BY <1>1, <3>1, <3>2, <3>4, <3>5
    <2>. QED
        BY <2>1, <2>2
<1>3. LatestOK(h, t)
    <2>3. Len(t) = n + 1
        BY <1>1
    <2>1. \A i \in 1..(n + 1) : Len(t) - i = n + 1 - i
        BY <2>3
    <2>2. \A i \in DOMAIN t : Len(t) - i < Hundred => t[i][1] = h.picks[PlaceOf(h.pick, Len(t) - i)]
        BY <1>1, <1>2, <2>1
    <2>. QED
        BY <2>2 DEF LatestOK
<1>. QED
    BY <1>3

LEMMA LatestShared ==
    ASSUME NEW g, NEW s \in Seq(Nat \X Nat), g.pick \in 1..Hundred, LatestOK(g, s),
           Parted(g), Len(g.dims) <= Byte, NEW k \in DOMAIN g.dims,
           NEW n \in Nat, Len(s) = n + Hundred
    PROVE  Cardinality({i \in (n + 1)..(n + Hundred) : s[i][1] = k}) = g.dims[k].percent
<1>. PICK p \in 1..Hundred : p = g.pick
    OBVIOUS
<1>. PICK l \in Nat : l = n + Hundred
    BY RandomAssumption
<1>. DEFINE of(i) == PlaceOf(p, l - i)
            S == {i \in 1..Hundred : g.picks[i] = k}
            T == {i \in (n + 1)..l : s[i][1] = k}
            F == [i \in T |-> of(i)]
<1>0. Hundred \in Nat \ {0} /\ l \in Nat
    BY RandomAssumption
<1>1. \A i \in (n + 1)..l : l - i \in 0..(Hundred - 1) /\ l - i < Hundred /\ i \in 1..l
    BY <1>0
<1>2. \A i \in (n + 1)..l : s[i][1] = g.picks[of(i)]
    <2>1. DOMAIN s = 1..l /\ Len(s) = l
        BY LenProperties
    <2>. QED
        BY <1>1, <2>1 DEF LatestOK
<1>3. \A i \in (n + 1)..l : of(i) \in 1..Hundred
    BY <1>1, PlaceIs
<1>4. ASSUME NEW i \in (n + 1)..l, NEW j \in (n + 1)..l, of(i) = of(j) PROVE i = j
    <2>1. PICK x \in 0..(Hundred - 1) : x = l - i
        BY <1>1
    <2>2. PICK y \in 0..(Hundred - 1) : y = l - j
        BY <1>1
    <2>3. x = y
        BY <1>4, <2>1, <2>2, PlaceIs
    <2>4. l - i = l - j
        BY <2>1, <2>2, <2>3
    <2>5. \A a, b, m \in Int : m - a = m - b => a = b
        OBVIOUS
    <2>6. i \in Int /\ j \in Int /\ l \in Int
        OBVIOUS
    <2>. QED
        BY <2>4, <2>5, <2>6
<1>5. ASSUME NEW j \in 1..Hundred PROVE \E i \in (n + 1)..l : of(i) = j
    <2>1. PICK x \in 0..(Hundred - 1) : PlaceOf(p, x) = j
        BY PlaceIs
    <2>2. l - x \in (n + 1)..l /\ l - (l - x) = x
        BY <1>0
    <2>. QED
        BY <2>1, <2>2
<1>. HIDE DEF of
<1>6. F \in [T -> S] /\ \A v \in S : \E x \in T : F[x] = v
    <2>1. \A i \in T : of(i) \in S
        BY <1>2, <1>3
    <2>2. ASSUME NEW v \in S PROVE \E x \in T : of(x) = v
        <3>1. PICK i \in (n + 1)..l : of(i) = v
            BY <1>5
        <3>2. i \in T
            BY <1>2, <3>1
        <3>. QED
            BY <3>1, <3>2
    <2>. QED
        BY <2>1, <2>2
<1>7. \A x, y \in T : F[x] = F[y] => x = y
    BY <1>4
<1>8. IsFiniteSet(T)
    <2>1. IsFiniteSet((n + 1)..l)
        BY <1>0, FS_Interval
    <2>. QED
        BY <2>1, FS_Subset
<1>9. Cardinality(S) = g.dims[k].percent
    BY DEF Parted
<1>. HIDE DEF S, T, F
<1>10. F \in Bijection(T, S)
    BY <1>6, <1>7 DEF Bijection, Injection, Surjection, IsInjective
<1>11. Cardinality(S) = Cardinality(T)
    BY <1>8, <1>10, FS_Bijection DEF ExistsBijection
<1>. QED
    BY <1>9, <1>11 DEF T

\* A pick more makes a window of Hundred picks more.
LEMMA SharesAppended ==
    ASSUME NEW g, NEW h, NEW s \in Seq(Nat \X Nat), NEW q \in Nat \X Nat, h.pick \in 1..Hundred,
           SameParts(g, h), SharesOf(g, s), Parted(h), LatestOK(h, Append(s, q))
    PROVE  SharesOf(h, Append(s, q))
<1>. PICK l \in Nat : l = Len(s)
    BY LenProperties
<1>. PICK t : t = Append(s, q)
    OBVIOUS
<1>0. Hundred \in Nat \ {0}
    BY RandomAssumption
<1>1. /\ t \in Seq(Nat \X Nat) /\ Len(t) = l + 1 /\ \A i \in 1..l : t[i] = s[i]
    BY AppendProperties
<1>2. ASSUME Len(h.dims) <= Byte, NEW n \in Nat, n <= l + 1 - Hundred, NEW k \in DOMAIN h.dims
      PROVE  Cardinality({i \in (n + 1)..(n + Hundred) : t[i][1] = k}) = h.dims[k].percent
    <2>1. CASE n + Hundred = l + 1
        <3>1. LatestOK(h, t) /\ Len(t) = n + Hundred
            BY <1>1, <2>1
        <3>. QED
            BY <1>1, <1>2, <3>1, LatestShared
    <2>2. CASE n + Hundred # l + 1
        <3>6. \A a, b, m \in Nat : a <= b + 1 - m /\ a + m # b + 1 => a + m <= b
            OBVIOUS
        <3>1. n + Hundred <= l
            BY <1>0, <1>2, <2>2, <3>6
        <3>2. n \in 0..(l - Hundred) /\ \A i \in (n + 1)..(n + Hundred) : i \in 1..l
            BY <1>0, <3>1
        <3>3. {i \in (n + 1)..(n + Hundred) : t[i][1] = k} = {i \in (n + 1)..(n + Hundred) : s[i][1] = k}
            BY <1>1, <3>2
        <3>4. k \in DOMAIN g.dims /\ Len(g.dims) <= Byte /\ h.dims[k].percent = g.dims[k].percent
            BY <1>2 DEF SameParts
        <3>5. Cardinality({i \in (n + 1)..(n + Hundred) : s[i][1] = k}) = g.dims[k].percent
            BY <3>2, <3>4 DEF SharesOf
        <3>. QED
            BY <3>3, <3>4, <3>5
    <2>. QED
        BY <2>1, <2>2
<1>3. SharesOf(h, t)
    <2>1. Len(t) = l + 1
        BY <1>1
    <2>2. \A n \in 0..(Len(t) - Hundred) : n \in Nat /\ n <= l + 1 - Hundred
        BY <1>0, <2>1
    <2>. QED
        BY <1>2, <2>2 DEF SharesOf
<1>. QED
    BY <1>3

LEMMA SameAre ==
    ASSUME NEW g, NEW h, SameParts(g, h)
    PROVE  /\ Parted(g) => Parted(h)
           /\ \A s : SharesOf(g, s) => SharesOf(h, s)
           /\ \A s : LatestOK(g, s) /\ h.pick = g.pick => LatestOK(h, s)
<1>1. Parted(g) => Parted(h)
    BY DEF SameParts, Parted
<1>2. \A s : SharesOf(g, s) => SharesOf(h, s)
    BY DEF SameParts, SharesOf
<1>3. \A s : LatestOK(g, s) /\ h.pick = g.pick => LatestOK(h, s)
    BY DEF SameParts, LatestOK
<1>. QED
    BY <1>1, <1>2, <1>3

\* The parameters of column c are all read.
Settled(c) == phase \in {"load", "rows"} \/ c < at[1] \/ (c = at[1] /\ phase = "depend")

PartedOK == \A c \in DOMAIN fn : fn[c].type = "MultiFile" /\ Settled(c) => Parted(fn[c])

SharedOK == \A c \in DOMAIN fn : LatestOK(fn[c], picked[c]) /\ SharesOf(fn[c], picked[c])

LEMMA DrawnSame ==
    ASSUME IInv, phase = "rows", NEW dims, NEW k, Draws(dims, k)
    PROVE  SameParts(f, Drawn(dims, k))
<1>1. FunctionOK(f)
    BY DEF IInv, Placed, FunctionsOK, f
<1>2. PICK g : g = Drawn(dims, k)
    OBVIOUS
<1>3. /\ DOMAIN dims = DOMAIN f.dims
      /\ \A j \in DOMAIN dims : dims[j].percent = f.dims[j].percent
    BY DrawsFrom DEF IInv
<1>4. /\ g.picks = f.picks /\ g.dims \in Seq(Dependencies) /\ DOMAIN g.dims = DOMAIN f.dims
      /\ \A j \in DOMAIN g.dims : g.dims[j].percent = dims[j].percent
    BY <1>2, DrawnIs DEF IInv
<1>5. Len(g.dims) = Len(f.dims)
    <2>1. f.dims \in Seq(Dependencies)
        BY <1>1 DEF FunctionOK, Shaped
    <2>2. \A s, t \in Seq(Dependencies) : DOMAIN s = DOMAIN t => Len(s) = Len(t)
        OBVIOUS
    <2>. QED
        BY <1>4, <2>1, <2>2
<1>. QED
    BY <1>2, <1>3, <1>4, <1>5 DEF SameParts

LEMMA StepParted ==
    ASSUME IInv, PartedOK, [Next]_vars
    PROVE  PartedOK'
<1>1. FunctionOK(f) /\ at[1] \in DOMAIN fn /\ f = fn[at[1]] /\ DOMAIN fn' = DOMAIN fn
      /\ DOMAIN fn \subseteq Nat
    <2>1. DOMAIN tpl.columns \subseteq Nat
        BY TemplateIs, LenProperties DEF IInv
    <2>. QED
        BY <2>1, StepPlaced, StepFunctions DEF IInv, Placed, FunctionsOK, f
<1>2. DOMAIN f = {"type", "values", "low", "high", "percent", "deps", "dims", "key", "picks",
                  "pick", "windows"} /\ f.dims \in Seq(Dependencies)
    BY <1>1 DEF FunctionOK, Shaped
<1>3. ASSUME fn' = fn, \A c \in DOMAIN fn : Settled(c)' => Settled(c) PROVE PartedOK'
    BY <1>3 DEF PartedOK, Parted
<1>4. ASSUME NEW g, fn' = [fn EXCEPT ![at[1]] = g],
             \A c \in DOMAIN fn : Settled(c)' /\ c # at[1] => Settled(c),
             \A c : c = at[1] /\ g.type = "MultiFile" /\ Settled(c)' => Parted(g)
      PROVE  PartedOK'
    <2>1. ASSUME NEW c \in DOMAIN fn, fn'[c].type = "MultiFile", Settled(c)'
          PROVE  Parted(fn'[c])
        <3>1. CASE c = at[1]
            BY <1>1, <1>4, <2>1, <3>1
        <3>2. CASE c # at[1]
            BY <1>4, <2>1, <3>2 DEF PartedOK
        <3>. QED
            BY <3>1, <3>2
    <2>. QED
        BY <1>1, <2>1 DEF PartedOK, Parted
<1>5. ASSUME NEW how, Ends(how), how \in {"refused", "undefined"} PROVE PartedOK'
    BY <1>3, <1>5 DEF Ends, Halts, Settled
<1>6. CASE ProcessParameter
    <2>1. CASE Ends("refused") \/ Ends("undefined")
        BY <1>5, <2>1
    <2>2. CASE /\ fn' = [fn EXCEPT ![at[1]] = Read(parameter)]
               /\ at' = [at EXCEPT ![2] = @ + 1] /\ phase' = phase
        <3>1. phase = "process" /\ at'[1] = at[1]
            BY <1>6, <2>2 DEF ProcessParameter, IInv, Placed
        <3>2. \A c \in DOMAIN fn : Settled(c)' => Settled(c)
            BY <2>2, <3>1 DEF Settled
        <3>3. \A c : c = at[1] => ~Settled(c)'
            BY <1>1, <2>2, <3>1 DEF Settled
        <3>. QED
            BY <1>4, <2>2, <3>2, <3>3
    <2>. QED
        BY <1>6, <2>1, <2>2 DEF ProcessParameter
<1>7. CASE EndParameters
    <2>1. CASE Ends("refused") \/ Ends("undefined")
        BY <1>5, <2>1
    <2>2. ASSUME ~PastArray(f.dims), f.dims = <<>> \/ Total(f.dims, Len(f.dims)) = Hundred,
                 NEW picks \in Shuffled(Filled(f.dims)), fn' = [fn EXCEPT ![at[1]].picks = picks],
                 phase' = "depend", at' = at
          PROVE  PartedOK'
        <3>1. PICK g : g = [f EXCEPT !.picks = picks]
            OBVIOUS
        <3>2. fn' = [fn EXCEPT ![at[1]] = g]
            BY <1>1, <2>2, <3>1
        <3>3. g.picks = picks /\ g.dims = f.dims
            BY <1>2, <3>1
        <3>4. Parted(g)
            BY <1>2, <2>2, <3>3, ShuffledParts DEF Parted
        <3>5. \A c \in DOMAIN fn : Settled(c)' /\ c # at[1] => Settled(c)
            BY <2>2 DEF Settled
        <3>. QED
            BY <1>4, <3>2, <3>4, <3>5
    <2>3. CASE f.type # "MultiFile" /\ Ends("depend")
        <3>1. fn' = fn
            BY <2>3 DEF Ends
        <3>2. \A c \in DOMAIN fn : Settled(c)' /\ c # at[1] => Settled(c)
            BY <2>3 DEF Settled, Ends, Halts
        <3>3. \A c \in DOMAIN fn : fn[c].type = "MultiFile" /\ Settled(c)' => Parted(fn[c])
            BY <1>1, <2>3, <3>2 DEF PartedOK
        <3>. QED
            BY <3>1, <3>3 DEF PartedOK, Parted
    <2>. QED
        BY <1>7, <2>1, <2>2, <2>3 DEF EndParameters
<1>8. CASE AddDependencies
    <2>1. CASE Ends("refused")
        BY <1>5, <2>1
    <2>2. ASSUME NEW deps, fn' = [fn EXCEPT ![at[1]].deps = deps], phase = "depend",
                 IF at[1] = Len(tpl.columns)
                 THEN phase' = "load" /\ UNCHANGED at
                 ELSE phase' = "process" /\ at' = <<at[1] + 1, 1>>
          PROVE  PartedOK'
        <3>1. PICK g : g = [f EXCEPT !.deps = deps]
            OBVIOUS
        <3>2. fn' = [fn EXCEPT ![at[1]] = g]
            BY <1>1, <2>2, <3>1
        <3>3. g.picks = f.picks /\ g.dims = f.dims /\ g.type = f.type
            BY <1>2, <3>1
        <3>4. g.type = "MultiFile" => Parted(g)
            BY <1>1, <2>2, <3>3 DEF PartedOK, Parted, Settled
        <3>5. \A c \in DOMAIN fn : Settled(c)' /\ c # at[1] => Settled(c)
            <4>1. CASE at[1] = Len(tpl.columns)
                <5>1. \A c \in DOMAIN fn : c \in 1..Len(tpl.columns) /\ Len(tpl.columns) \in Nat
                    BY TemplateIs, LenProperties DEF IInv, FunctionsOK
                <5>2. \A c \in DOMAIN fn : c # at[1] => c < at[1]
                    BY <4>1, <5>1
                <5>. QED
                    BY <5>2 DEF Settled
            <4>2. CASE at[1] # Len(tpl.columns)
                <5>1. phase' = "process" /\ at'[1] = at[1] + 1
                    BY <2>2, <4>2
                <5>2. \A c \in DOMAIN fn : c < at[1] + 1 /\ c # at[1] => c < at[1]
                    BY <1>1
                <5>. QED
                    BY <5>1, <5>2 DEF Settled
            <4>. QED
                BY <4>1, <4>2
        <3>. QED
            BY <1>4, <3>2, <3>4, <3>5
    <2>. QED
        BY <1>8, <2>1, <2>2 DEF AddDependencies
<1>9. CASE LoadFiles
    <2>1. phase = "load" /\ fn' = fn
        BY <1>9 DEF LoadFiles, Ends
    <2>. QED
        BY <1>3, <2>1 DEF Settled
<1>10. CASE phase = "rows"
    <2>1. \A c : Settled(c)
        BY <1>10 DEF Settled
    <2>2. ASSUME NEW d, NEW low, NEW high, NEW r, FileDraws(d, low, high, r), f.type = "File"
          PROVE  PartedOK'
        <3>1. PICK g : g = [f EXCEPT !.low = low, !.high = high]
            OBVIOUS
        <3>2. fn' = [fn EXCEPT ![at[1]] = g]
            BY <2>2, <3>1 DEF FileDraws
        <3>3. g.type = "File"
            BY <1>2, <2>2, <3>1
        <3>. QED
            BY <1>4, <2>1, <3>2, <3>3
    <2>3. ASSUME NEW dims, NEW k, Draws(dims, k), f.type = "MultiFile" PROVE PartedOK'
        <3>1. PICK g : g = Drawn(dims, k)
            OBVIOUS
        <3>2. fn' = [fn EXCEPT ![at[1]] = g]
            BY <2>3, <3>1 DEF Draws
        <3>3. SameParts(f, g)
            BY <1>10, <2>3, <3>1, DrawnSame
        <3>4. Parted(g)
            BY <1>1, <2>1, <2>3, <3>3, SameAre DEF PartedOK
        <3>. QED
            BY <1>4, <2>1, <3>2, <3>4
    <2>4. CASE fn' = fn
        BY <1>3, <2>1, <2>4
    <2>5. UNCHANGED vars => fn' = fn
        BY DEF vars
    <2>. QED
        BY <1>10, <2>2, <2>3, <2>4, <2>5, RowsStep DEF IInv
<1>11. CASE UNCHANGED vars
    BY <1>3, <1>11 DEF vars, Settled
<1>12. Calculate => phase = "rows"
    BY DEF Calculate, DefaulRandomCalculate, PercentRandomCalculate, NatureRandomCaculate,
        PseudoRandomCaculate, TableRandomCalculate, LessOrMoreCalculate, FileRandomCalculate,
        MultiFileRandomCalculate, MappingRandomCalculate, NothingCalculate, Calculates
<1>. QED
    BY <1>6, <1>7, <1>8, <1>9, <1>10, <1>11, <1>12 DEF Next

LEMMA StepShared ==
    ASSUME IInv, Sized, FirstOK, PartedOK, SharedOK, [Next]_vars
    PROVE  SharedOK'
<1>1. FunctionOK(f) /\ at[1] \in DOMAIN fn /\ f = fn[at[1]] /\ DOMAIN fn' = DOMAIN fn
      /\ DOMAIN picked = DOMAIN fn
    BY StepPlaced, StepFunctions DEF IInv, Placed, FunctionsOK, f, Sized
<1>2. DOMAIN f = {"type", "values", "low", "high", "percent", "deps", "dims", "key", "picks",
                  "pick", "windows"} /\ f.dims \in Seq(Dependencies) /\ f.pick \in 1..Hundred
    BY <1>1 DEF FunctionOK, Shaped
<1>3. ASSUME \A c \in DOMAIN fn : LatestOK(fn'[c], picked'[c]) /\ SharesOf(fn'[c], picked'[c])
      PROVE  SharedOK'
    BY <1>1, <1>3 DEF SharedOK, LatestOK, SharesOf, PlaceOf
<1>4. ASSUME UNCHANGED <<fn, picked>> PROVE SharedOK'
    BY <1>3, <1>4 DEF SharedOK
<1>5. CASE phase \in {"process", "depend", "load"}
    <2>1. picked' = picked /\ \A c \in DOMAIN fn : picked[c] = <<>>
        BY <1>5, EarlyStep DEF FirstOK
    <2>2. \A g : LatestOK(g, <<>>)
        BY DEF LatestOK
    <2>3. \A g : SharesOf(g, <<>>)
        <3>1. 0..(Len(<<>>) - Hundred) = {}
            BY RandomAssumption
        <3>. QED
            BY <3>1 DEF SharesOf
    <2>. QED
        BY <1>3, <2>1, <2>2, <2>3
<1>6. CASE phase \in Ended
    BY <1>4, <1>6, EndedStep DEF vars
<1>7. CASE phase = "rows"
    <2>1. ASSUME NEW d, NEW low, NEW high, NEW r, FileDraws(d, low, high, r)
          PROVE  SharedOK'
        <3>1. PICK g : g = [f EXCEPT !.low = low, !.high = high]
            OBVIOUS
        <3>2. fn' = [fn EXCEPT ![at[1]] = g] /\ picked' = picked
            BY <2>1, <3>1 DEF FileDraws
        <3>3. SameParts(f, g) /\ g.pick = f.pick
            BY <1>2, <3>1 DEF SameParts
        <3>4. LatestOK(g, picked[at[1]]) /\ SharesOf(g, picked[at[1]])
            BY <1>1, <3>3, SameAre DEF SharedOK
        <3>5. \A c \in DOMAIN fn : LatestOK(fn'[c], picked'[c]) /\ SharesOf(fn'[c], picked'[c])
            BY <3>2, <3>4 DEF SharedOK
        <3>. QED
            BY <1>3, <3>5
    <2>2. ASSUME NEW dims, NEW k, Draws(dims, k), f.type = "MultiFile"
          PROVE  SharedOK'
        <3>1. PICK g : g = Drawn(dims, k)
            OBVIOUS
        <3>2. PICK q : q = <<k, RowAt(dims[k])>>
            OBVIOUS
        <3>3. PICK s : s = picked[at[1]]
            OBVIOUS
        <3>4. fn' = [fn EXCEPT ![at[1]] = g] /\ picked' = [picked EXCEPT ![at[1]] = Append(s, q)]
              /\ k = f.picks[f.pick]
            BY <1>1, <2>2, <3>1, <3>2, <3>3 DEF Draws
        <3>5. s \in Seq(Nat \X Nat) /\ q \in Nat \X Nat /\ q[1] = k
            <4>1. k \in DOMAIN f.dims /\ RowAt(dims[k]) \in 0..(Lines(dims[k]) - 1)
                  /\ Lines(dims[k]) \in Nat \ {0}
                BY <1>7, <2>2, DrawsFrom DEF IInv
            <4>2. k \in Nat /\ RowAt(dims[k]) \in Nat
                BY <1>2, <4>1, LenProperties
            <4>. QED
                BY <1>1, <3>2, <3>3, <4>2 DEF Sized
        <3>6. SameParts(f, g)
            BY <1>7, <2>2, <3>1, DrawnSame
        <3>7. g.picks = f.picks /\ g.pick = (f.pick % Hundred) + 1
            BY <1>7, <2>2, <3>1, DrawnIs DEF IInv
        <3>8. LatestOK(f, s) /\ SharesOf(f, s)
            BY <1>1, <3>3 DEF SharedOK
        <3>9. LatestOK(g, Append(s, q))
            BY <1>2, <3>4, <3>5, <3>7, <3>8, LatestAppended
        <3>10. g.pick \in 1..Hundred
            BY <1>2, <3>7, PlaceIs
        <3>11. Parted(g)
            BY <1>1, <1>7, <2>2, <3>6, SameAre DEF PartedOK, Settled
        <3>12. SharesOf(g, Append(s, q))
            BY <3>5, <3>6, <3>8, <3>9, <3>10, <3>11, SharesAppended
        <3>13. \A c \in DOMAIN fn : LatestOK(fn'[c], picked'[c]) /\ SharesOf(fn'[c], picked'[c])
            BY <1>1, <3>4, <3>9, <3>12 DEF SharedOK
        <3>. QED
            BY <1>3, <3>13
    <2>3. UNCHANGED vars => UNCHANGED <<fn, picked>>
        BY DEF vars
    <2>. QED
        BY <1>4, <1>7, <2>1, <2>2, <2>3, RowsStep DEF IInv
<1>. QED
    BY <1>5, <1>6, <1>7 DEF IInv, Placed, Phases

\* Of every Hundred picks that follow one another each file of a column has its percentage,
\* however the array was shuffled, and wherever the picks begin (ShareOfFiles; the end of
\* RandomFunc::process, RandomArray and MultiFileRandomCalculate).
THEOREM FilesShare == Spec => []ShareOfFiles
<1>. DEFINE Inv == Sized /\ FirstOK /\ PartedOK /\ SharedOK
<1>1. Init => Inv
    <2>. SUFFICES ASSUME Init PROVE Inv
        OBVIOUS
    <2>1. /\ DOMAIN fn = DOMAIN tpl.columns /\ \A c \in DOMAIN fn : ~fn[c].windows
          /\ \A c \in DOMAIN fn : fn[c].type = "Invalid"
          /\ DOMAIN picked = DOMAIN tpl.columns /\ \A c \in DOMAIN fn : picked[c] = <<>>
          /\ phase = "process" /\ row = 0
        BY DEF Init, Function
    <2>2. Sized
        BY <2>1 DEF Sized, Init
    <2>3. FirstOK
        BY <2>1 DEF FirstOK
    <2>4. PartedOK
        BY <2>1 DEF PartedOK
    <2>5. SharedOK
        <3>1. \A g : LatestOK(g, <<>>)
            BY DEF LatestOK
        <3>2. 0..(Len(<<>>) - Hundred) = {}
            BY RandomAssumption
        <3>3. \A g : SharesOf(g, <<>>)
            BY <3>2 DEF SharesOf
        <3>. QED
            BY <2>1, <3>1, <3>3 DEF SharedOK
    <2>. QED
        BY <2>2, <2>3, <2>4, <2>5
<1>2. IInv /\ Inv /\ [Next]_vars => Inv'
    BY StepSized, StepFirst, StepParted, StepShared
<1>3. IInv /\ Inv => ShareOfFiles
    <2>1. IInv /\ Sized => DOMAIN picked = DOMAIN fn
        BY DEF IInv, FunctionsOK, Sized
    <2>. QED
        BY <2>1 DEF SharedOK, SharesOf, ShareOfFiles
<1>. QED
    BY TypeCorrect, <1>1, <1>2, <1>3, PTL DEF Spec
=============================================================================
