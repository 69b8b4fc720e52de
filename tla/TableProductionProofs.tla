----------------------- MODULE TableProductionProofs -----------------------
(***************************************************************************)
(* Theorems about TableProduction, for every number of tables, every graph *)
(* of dependencies and every choice of fileNum, tableid and rows.          *)
(***************************************************************************)
EXTENDS TableProduction, SequenceTheorems, FiniteSetTheorems, TLAPS

LEMMA TemplateParts ==
    ASSUME TableTypes
    PROVE  /\ xml.deps \in [Tables -> SUBSET Tables] /\ xml.fileNum \in [Tables -> Nat]
           /\ xml.id \in [Tables -> 0..254] /\ xml.stream \in BOOLEAN
BY TemplatesAssumption DEF TableTypes, Template

LEMMA RowsPositive == \A t \in Tables : RowNum[t] \in Nat /\ RowNum[t] > 0
BY TemplatesAssumption

-----------------------------------------------------------------------------
(* Types of the tables.                                                    *)

LEMMA InitTables == Init => TableTypes /\ RoundInv
<1>. SUFFICES ASSUME Init PROVE TableTypes /\ RoundInv
  OBVIOUS
<1>1. TableTypes
  BY DEF Init, TableTypes
<1>2. RoundInv
  BY DEF Init, RoundInv
<1>. QED
  BY <1>1, <1>2

LEMMA FinishTypes ==
    ASSUME TableTypes, NEW t \in Tables, NEW n \in Nat, FinishToCreateTableNum(t, n)
    PROVE  created' \in [Tables -> Nat] /\ full' \in SUBSET (0..254)
<1>1. created' \in [Tables -> Nat]
  BY DEF FinishToCreateTableNum, TableTypes
<1>2. full' \in SUBSET (0..254)
  <2>1. xml.id[t] \in 0..254
    BY TemplateParts
  <2>2. full' = full \/ full' = full \union {xml.id[t]}
    BY DEF FinishToCreateTableNum
  <2>. QED
    BY <2>1, <2>2 DEF TableTypes
<1>. QED
  BY <1>1, <1>2

LEMMA StepTables ==
    ASSUME TableTypes, [Next]_vars
    PROVE  TableTypes'
<1>. USE DEF tableVars
<1>1. CASE CheckFull
  BY <1>1 DEF CheckFull, TableTypes
<1>2. CASE WalkTable
  BY <1>2 DEF WalkTable, TableTypes
<1>3. CASE EndRound
  BY <1>3 DEF EndRound, TableTypes
<1>4. ASSUME NEW t \in Tables, NotifyAlldepenedTable(t) PROVE TableTypes'
  <2>1. CASE Blocked(t)
    BY <2>1 DEF Blocked, TableTypes
  <2>2. CASE AlreadyDone(t)
    BY <2>2 DEF AlreadyDone, TableTypes
  <2>3. CASE Produce(t)
    <3>1. created' \in [Tables -> Nat] /\ full' \in SUBSET (0..254)
      BY <2>3, FinishTypes DEF Produce
    <3>2. filled' \in [Tables -> Nat] /\ files' \in [Tables -> Nat]
      BY <2>3, RowsPositive DEF Produce, TableTypes
    <3>. QED
      BY <2>3, <3>1, <3>2 DEF Produce, TableTypes
  <2>4. CASE Fail(t)
    <3>1. PICK r \in 0..(RowNum[t] - 1) : filled' = [filled EXCEPT ![t] = @ + r]
      BY <2>4 DEF Fail
    <3>2. r \in Nat
      BY <3>1, RowsPositive
    <3>. QED
      BY <2>4, <3>1, <3>2 DEF Fail, TableTypes
  <2>5. CASE Notify(t)
    BY <2>5 DEF Notify, TableTypes
  <2>. QED
    BY <1>4, <2>1, <2>2, <2>3, <2>4, <2>5 DEF NotifyAlldepenedTable
<1>5. CASE UNCHANGED vars
  BY <1>5 DEF vars, TableTypes
<1>. QED
  BY <1>1, <1>2, <1>3, <1>4, <1>5 DEF Next

-----------------------------------------------------------------------------
(* Types of the thread: its stack of calls.                                *)

Call == [table : Tables, next : Nat]

\* The innermost call goes on to its next dependent; p calls d.
Advance(p) == [p EXCEPT ![Len(p)].next = @ + 1]
CallOn(p, d) == Append(Advance(p), [table |-> d, next |-> 0])

LEMMA AdvanceType ==
    ASSUME NEW p \in Seq(Call), p # <<>>
    PROVE  Advance(p) \in Seq(Call) /\ Advance(p) # <<>> /\ Len(Advance(p)) = Len(p)
<1>1. Len(p) \in Nat \ {0} /\ p \in [1..Len(p) -> Call]
  OBVIOUS
<1>2. p[Len(p)] \in Call
  BY <1>1
<1>3. [p[Len(p)] EXCEPT !.next = @ + 1] \in Call
  BY <1>2 DEF Call
<1>4. Advance(p) \in [1..Len(p) -> Call]
  BY <1>1, <1>3 DEF Advance
<1>. QED
  BY <1>1, <1>4

LEMMA CallOnType ==
    ASSUME NEW p \in Seq(Call), p # <<>>, NEW d \in Tables
    PROVE  CallOn(p, d) \in Seq(Call) /\ CallOn(p, d) # <<>>
<1>1. [table |-> d, next |-> 0] \in Call
  BY DEF Call
<1>. QED
  BY <1>1, AdvanceType DEF CallOn

LEMMA FrontType ==
    ASSUME NEW p \in Seq(Call), Len(p) # 1, p # <<>>
    PROVE  Front(p) \in Seq(Call) /\ Front(p) # <<>>
<1>1. Len(p) \in Nat /\ Len(p) > 1
  OBVIOUS
<1>2. \A i \in 1..(Len(p) - 1) : p[i] \in Call
  BY <1>1
<1>3. Front(p) \in Seq(Call) /\ Len(Front(p)) = Len(p) - 1
  BY <1>1, <1>2, SubSeqProperties DEF Front
<1>. QED
  BY <1>1, <1>3

LEMMA ReturnType ==
    ASSUME ThreadTypes, pc = "visit", Return
    PROVE  ThreadTypes'
<1>1. stack \in Seq(Call) /\ stack # <<>> /\ root \in Nat \ {0}
  BY DEF ThreadTypes, Call
<1>2. CASE Len(stack) = 1
  BY <1>1, <1>2 DEF Return, ThreadTypes
<1>3. CASE Len(stack) # 1
  <2>1. stack' = Front(stack) /\ pc' = "visit" /\ root' = root
    BY <1>3 DEF Return
  <2>2. stack' \in Seq(Call) /\ stack' # <<>>
    BY <2>1, <1>1, <1>3, FrontType
  <2>. QED
    BY <2>1, <2>2, <1>1 DEF ThreadTypes, Call
<1>. QED
  BY <1>2, <1>3

LEMMA AdvanceKeepsTypes ==
    ASSUME ThreadTypes, pc = "visit", NextDependent, UNCHANGED <<pc, root>>
    PROVE  ThreadTypes'
<1>1. stack \in Seq(Call) /\ stack # <<>> /\ root \in Nat \ {0}
  BY DEF ThreadTypes, Call
<1>2. stack' = Advance(stack)
  BY DEF NextDependent, Advance
<1>3. stack' \in Seq(Call) /\ stack' # <<>>
  BY <1>1, <1>2, AdvanceType
<1>. QED
  BY <1>1, <1>3 DEF ThreadTypes, Call

LEMMA StepThread ==
    ASSUME TableTypes, ThreadTypes, [Next]_vars
    PROVE  ThreadTypes'
<1>. USE DEF tableVars
<1>1. CASE CheckFull
  BY <1>1 DEF CheckFull, ThreadTypes
<1>2. CASE WalkTable
  <2>1. Order[root] \in Tables
    BY <1>2, TemplatesAssumption DEF WalkTable, ThreadTypes
  <2>2. <<[table |-> Order[root], next |-> 0]>> \in Seq(Call)
    BY <2>1 DEF Call
  <2>3. CASE created[Order[root]] < xml.fileNum[Order[root]]
    <3>1. pc' = "visit" /\ stack' = <<[table |-> Order[root], next |-> 0]>> /\ root' = root
      BY <1>2, <2>3 DEF WalkTable
    <3>2. stack' # <<>>
      BY <3>1
    <3>. QED
      BY <2>2, <3>1, <3>2 DEF ThreadTypes, Call
  <2>4. CASE ~(created[Order[root]] < xml.fileNum[Order[root]])
    BY <1>2, <2>4 DEF WalkTable, ThreadTypes
  <2>. QED
    BY <2>3, <2>4
<1>3. CASE EndRound
  BY <1>3 DEF EndRound, ThreadTypes
<1>4. ASSUME NEW t \in Tables, NotifyAlldepenedTable(t) PROVE ThreadTypes'
  <2>1. CASE Blocked(t)
    BY <2>1, ReturnType DEF Blocked, Entering
  <2>2. CASE AlreadyDone(t)
    BY <2>2, AdvanceKeepsTypes DEF AlreadyDone, Entering
  <2>3. CASE Produce(t)
    BY <2>3, AdvanceKeepsTypes DEF Produce, Entering
  <2>4. CASE Fail(t)
    BY <2>4 DEF Fail, ThreadTypes
  <2>5. CASE Notify(t)
    <3>1. pc = "visit" /\ stack \in Seq(Call) /\ stack # <<>> /\ root \in Nat \ {0}
      BY <2>5 DEF Notify, ThreadTypes, Call
    <3>2. CASE Top.next <= Len(xml.beDepended[t])
      <4>. DEFINE d == xml.beDepended[t][Top.next]
      <4>1. d \in Tables
        <5>1. xml.beDepended[t] \in Seq(Tables)
          BY TemplatesAssumption DEF TableTypes, Template
        <5>2. stack[Len(stack)] \in Call
          BY <3>1
        <5>3. Top.next \in Nat /\ Top.next > 0
          BY <2>5, <5>2 DEF Notify, Top, Call
        <5>. QED
          BY <3>2, <5>1, <5>3
      <4>2. stack' = CallOn(stack, d) /\ UNCHANGED <<pc, root>>
        BY <2>5, <3>2 DEF Notify, CallOn, Advance
      <4>3. stack' \in Seq(Call) /\ stack' # <<>>
        BY <3>1, <4>1, <4>2, CallOnType
      <4>. QED
        BY <3>1, <4>2, <4>3 DEF ThreadTypes, Call
    <3>3. CASE ~(Top.next <= Len(xml.beDepended[t]))
      BY <2>5, <3>1, <3>3, ReturnType DEF Notify
    <3>. QED
      BY <3>2, <3>3
  <2>. QED
    BY <1>4, <2>1, <2>2, <2>3, <2>4, <2>5 DEF NotifyAlldepenedTable
<1>5. CASE UNCHANGED vars
  BY <1>5 DEF vars, ThreadTypes
<1>. QED
  BY <1>1, <1>2, <1>3, <1>4, <1>5 DEF Next

-----------------------------------------------------------------------------
(* The buffers.                                                            *)

LEMMA StepRound ==
    ASSUME TableTypes, RoundInv, [Next]_vars
    PROVE  RoundInv'
<1>. USE DEF tableVars
<1>1. CASE CheckFull
  BY <1>1 DEF CheckFull, RoundInv
<1>2. CASE WalkTable
  BY <1>2 DEF WalkTable, RoundInv
<1>3. CASE EndRound
  BY <1>3 DEF EndRound, RoundInv
<1>4. ASSUME NEW t \in Tables, NotifyAlldepenedTable(t) PROVE RoundInv'
  <2>1. \A u \in Tables : xml.deps[u] \subseteq Tables
    BY TemplateParts
  <2>2. CASE Blocked(t)
    <3>1. status[t] = "NotReady"
      BY <2>2, <2>1 DEF Blocked, Entering, CheckedStatus, RoundInv, TableTypes
    <3>2. UNCHANGED <<xml, status, filled>>
      BY <2>2, <3>1 DEF Blocked, TableTypes
    <3>. QED
      BY <2>2, <3>2 DEF Blocked, Entering, RoundInv
  <2>3. CASE AlreadyDone(t)
    BY <2>3 DEF AlreadyDone, RoundInv
  <2>4. ASSUME CheckedStatus(t) = "Ready", pc = "visit"
        PROVE  status[t] = "NotReady" /\ filled[t] = 0 /\ \A d \in xml.deps[t] : status[d] = "Done"
    BY <2>4 DEF CheckedStatus, RoundInv
  <2>5. CASE Produce(t)
    <3>1. /\ status[t] = "NotReady" /\ filled[t] = 0
          /\ \A d \in xml.deps[t] : status[d] = "Done" /\ d # t
      BY <2>5, <2>4 DEF Produce, Entering
    <3>2. status' = [status EXCEPT ![t] = "Done"] /\ filled'[t] = RowNum[t]
          /\ (\A u \in Tables : u # t => filled'[u] = filled[u]) /\ UNCHANGED <<xml, pc>>
      BY <2>5, <3>1, RowsPositive DEF Produce, TableTypes
    <3>. QED
      BY <2>1, <3>1, <3>2 DEF RoundInv, TableTypes
  <2>6. CASE Fail(t)
    <3>1. /\ status[t] = "NotReady" /\ filled[t] = 0
          /\ \A d \in xml.deps[t] : status[d] = "Done" /\ d # t
      BY <2>6, <2>4 DEF Fail, Entering
    <3>2. status' = [status EXCEPT ![t] = "Ready"] /\ filled'[t] < RowNum[t] /\ pc' = "failed"
          /\ (\A u \in Tables : u # t => filled'[u] = filled[u]) /\ UNCHANGED xml
      <4>1. PICK r \in 0..(RowNum[t] - 1) : filled' = [filled EXCEPT ![t] = @ + r]
        BY <2>6 DEF Fail
      <4>2. r < RowNum[t] /\ r \in Nat
        BY <4>1, RowsPositive
      <4>. QED
        BY <2>6, <3>1, <4>1, <4>2 DEF Fail, TableTypes
    <3>. QED
      BY <2>1, <3>1, <3>2 DEF RoundInv, TableTypes
  <2>7. CASE Notify(t)
    <3>1. pc # "failed"
      BY <2>7 DEF Notify
    <3>. QED
      BY <2>7, <3>1 DEF Notify, RoundInv
  <2>. QED
    BY <1>4, <2>2, <2>3, <2>5, <2>6, <2>7 DEF NotifyAlldepenedTable
<1>5. CASE UNCHANGED vars
  BY <1>5 DEF vars, RoundInv
<1>. QED
  BY <1>1, <1>2, <1>3, <1>4, <1>5 DEF Next

LEMMA RoundInvSuffices == TableTypes /\ RoundInv => RowsFit /\ ReadsThisRound
<1>. SUFFICES ASSUME TableTypes, RoundInv PROVE RowsFit /\ ReadsThisRound
  OBVIOUS
<1>1. \A t \in Tables : xml.deps[t] \subseteq Tables
  BY TemplateParts
<1>2. RowsFit
  BY RowsPositive DEF RowsFit, RoundInv, TableTypes
<1>3. ReadsThisRound
  BY <1>1 DEF ReadsThisRound, RoundInv, TableTypes
<1>. QED
  BY <1>2, <1>3

(* The tables' variables have their types, and a table's status tells what *)
(* is in its buffer.                                                       *)
THEOREM RoundsCorrect == Spec => [](TableTypes /\ RoundInv)
<1>1. TableTypes /\ RoundInv /\ [Next]_vars => (TableTypes /\ RoundInv)'
  BY StepTables, StepRound
<1>. QED
  BY <1>1, InitTables, PTL DEF Spec

(* Every variable has its type, and the thread is in notifyAlldepenedTable *)
(* exactly while a call of it is open.                                     *)
THEOREM TypeCorrect == Spec => []TypeOK
<1>1. Init => ThreadTypes
  BY DEF Init, ThreadTypes
<1>2. TypeOK /\ [Next]_vars => TypeOK'
  BY StepTables, StepThread DEF TypeOK
<1>. QED
  BY <1>1, <1>2, InitTables, PTL DEF Spec, TypeOK

(* No row is ever written outside a table's buffer.                        *)
THEOREM BuffersHold == Spec => []RowsFit
BY RoundsCorrect, RoundInvSuffices, PTL

(* A table's rows are drawn from rows of the same round.                   *)
THEOREM FreshReads == Spec => []ReadsThisRound
BY RoundsCorrect, RoundInvSuffices, PTL

-----------------------------------------------------------------------------
(* The calls on the stack.                                                 *)

DoneDeps(t) == \A d \in xml.deps[t] : status[d] = "Done"

(* The tables under way, from the walk inwards: all but the innermost call *)
(* have their table's file, and each is of a table that depends on the one *)
(* before it.  The walk only calls for a table with files to make.         *)
WellStacked ==
    \A i \in 1..Len(stack) :
        /\ i < Len(stack) => stack[i].next > 0
        /\ stack[i].next > 0 => status[stack[i].table] = "Done"
        /\ i > 1 => stack[i - 1].table \in xml.deps[stack[i].table]
        /\ i = 1 => root <= Len(Order) /\ stack[i].table = Order[root]
        /\ stack[i].next = 0 /\ xml.deps[stack[i].table] = {}
             => created[stack[i].table] < xml.fileNum[stack[i].table]

(* The tables that are Done depend on each other without a cycle.          *)
Acyclic ==
    \A S \in SUBSET {t \in Tables : status[t] = "Done"} :
        S # {} => \E t \in S : xml.deps[t] \cap S = {}

LEMMA AdvanceFacts ==
    ASSUME NEW p \in Seq(Call), p # <<>>
    PROVE  /\ Len(p) \in Nat \ {0} /\ Len(Advance(p)) = Len(p)
           /\ \A i \in 1..Len(p) : i < Len(p) => Advance(p)[i] = p[i]
           /\ Advance(p)[Len(p)].table = p[Len(p)].table
           /\ Advance(p)[Len(p)].next = p[Len(p)].next + 1
<1>1. Len(p) \in Nat \ {0} /\ p \in [1..Len(p) -> Call]
  OBVIOUS
<1>2. p[Len(p)] \in Call
  BY <1>1
<1>. QED
  BY <1>1, <1>2, AdvanceType DEF Advance, Call

LEMMA CallOnFacts ==
    ASSUME NEW p \in Seq(Call), p # <<>>, NEW d \in Tables
    PROVE  /\ Len(CallOn(p, d)) = Len(p) + 1
           /\ \A i \in 1..Len(p) : CallOn(p, d)[i] = Advance(p)[i]
           /\ CallOn(p, d)[Len(p) + 1] = [table |-> d, next |-> 0]
<1>1. Advance(p) \in Seq(Call) /\ Len(Advance(p)) = Len(p)
  BY AdvanceType
<1>2. [table |-> d, next |-> 0] \in Call
  BY DEF Call
<1>. QED
  BY <1>1, <1>2 DEF CallOn

LEMMA FrontFacts ==
    ASSUME NEW p \in Seq(Call), p # <<>>
    PROVE  Len(Front(p)) = Len(p) - 1 /\ \A i \in 1..(Len(p) - 1) : Front(p)[i] = p[i]
<1>1. Len(p) \in Nat /\ Len(p) > 0
  OBVIOUS
<1>2. \A i \in 1..(Len(p) - 1) : p[i] \in Call
  BY <1>1
<1>3. /\ Len(Front(p)) = IF 1 <= Len(p) - 1 THEN Len(p) - 1 - 1 + 1 ELSE 0
      /\ \A i \in 1..(Len(p) - 1 - 1 + 1) : Front(p)[i] = p[1 + i - 1]
  <2>1. Len(p) - 1 \in Int
    BY <1>1
  <2>. QED
    BY <2>1, <1>2, SubSeqProperties DEF Front
<1>4. Len(Front(p)) = Len(p) - 1
  <2>1. CASE 1 <= Len(p) - 1
    BY <1>1, <1>3, <2>1
  <2>2. CASE ~(1 <= Len(p) - 1)
    <3>1. Len(Front(p)) = 0
      BY <1>3, <2>2
    <3>2. Len(p) - 1 = 0
      <4>1. \A n \in Nat : n > 0 /\ ~(1 <= n - 1) => n - 1 = 0
        OBVIOUS
      <4>. QED
        BY <1>1, <2>2, <4>1, Zenon
    <3>. QED
      BY <3>1, <3>2, Zenon
  <2>. QED
    BY <2>1, <2>2
<1>5. ASSUME NEW i \in 1..(Len(p) - 1) PROVE Front(p)[i] = p[i]
  <2>1. i \in 1..(Len(p) - 1 - 1 + 1) /\ 1 + i - 1 = i
    BY <1>1
  <2>. QED
    BY <2>1, <1>3
<1>. QED
  BY <1>4, <1>5

\* The calls on the stack, and what a call sees of its table.
LEMMA StackParts ==
    ASSUME TypeOK
    PROVE  /\ stack \in Seq(Call) /\ Len(stack) \in Nat
           /\ \A i \in 1..Len(stack) : stack[i].table \in Tables /\ stack[i].next \in Nat
           /\ pc = "visit" <=> stack # <<>>
           /\ stack # <<>> <=> Len(stack) > 0
<1>1. stack \in Seq(Call) /\ (pc = "visit" <=> stack # <<>>)
  BY DEF TypeOK, ThreadTypes, Call
<1>2. \A i \in 1..Len(stack) : stack[i] \in Call
  BY <1>1
<1>3. Len(stack) \in Nat /\ (stack # <<>> <=> Len(stack) > 0)
  BY <1>1, EmptySeq
<1>. QED
  BY <1>1, <1>2, <1>3 DEF Call

LEMMA DependedParts ==
    ASSUME TypeOK, NEW t \in Tables
    PROVE  /\ xml.beDepended[t] \in Seq(Tables) /\ Len(xml.beDepended[t]) \in Nat
           /\ \A i \in 1..Len(xml.beDepended[t]) :
                /\ xml.beDepended[t][i] \in Tables
                /\ t \in xml.deps[xml.beDepended[t][i]]
           /\ \A u \in Tables : t \in xml.deps[u]
                => \E i \in 1..Len(xml.beDepended[t]) : xml.beDepended[t][i] = u
<1>1. xml \in Template
  BY TemplatesAssumption DEF TypeOK, TableTypes
<1>2. xml.beDepended[t] \in Seq(Tables)
  BY <1>1 DEF Template
<1>. QED
  BY <1>1, <1>2 DEF Template

(* What checkStatus finds, at the start of a call for t.                   *)
LEMMA Checked ==
    ASSUME TypeOK, RoundInv, NEW t \in Tables, Entering(t)
    PROVE  /\ CheckedStatus(t) = "NotReady" => ~DoneDeps(t) /\ status[t] = "NotReady"
           /\ CheckedStatus(t) = "Done" => DoneDeps(t) /\ status[t] = "Done"
           /\ CheckedStatus(t) = "Ready" => DoneDeps(t) /\ status[t] = "NotReady"
<1>1. status[t] \in {"NotReady", "Ready", "Done"} /\ pc # "failed"
  BY DEF TypeOK, TableTypes, Entering
<1>. QED
  BY <1>1 DEF CheckedStatus, DoneDeps, RoundInv

LEMMA BlockedKeeps ==
    ASSUME TypeOK, RoundInv, NEW t \in Tables, Blocked(t)
    PROVE  status' = status /\ ~DoneDeps(t)
BY Checked DEF Blocked, TypeOK, TableTypes

\* A call returns, and the next table of the walk comes when it was the last.
LEMMA ReturnKeepsStack ==
    ASSUME TypeOK, WellStacked, pc = "visit", Return,
           UNCHANGED <<xml, status, created>>
    PROVE  WellStacked'
<1>. USE StackParts
<1>1. CASE Len(stack) = 1
  <2>1. stack' = <<>>
    BY <1>1 DEF Return
  <2>. QED
    BY <2>1 DEF WellStacked
<1>2. CASE Len(stack) # 1
  <2>1. stack' = Front(stack) /\ root' = root
    BY <1>2 DEF Return
  <2>2. Len(stack') = Len(stack) - 1 /\ \A i \in 1..(Len(stack) - 1) : stack'[i] = stack[i]
    BY <2>1, FrontFacts
  <2>3. \A i \in 1..Len(stack') : i \in 1..Len(stack) /\ i < Len(stack) /\ stack'[i] = stack[i]
    BY <2>2
  <2>4. \A i \in 1..Len(stack') : i > 1 => stack'[i - 1] = stack[i - 1]
    BY <2>2
  <2>. QED
    BY <2>1, <2>3, <2>4 DEF WellStacked
<1>. QED
  BY <1>1, <1>2

\* The innermost call goes on: its table is Done, and others keep their files.
LEMMA AdvanceKeepsStack ==
    ASSUME TypeOK, WellStacked, pc = "visit", stack' = Advance(stack),
           UNCHANGED <<xml, root>>,
           \A t \in Tables : status[t] = "Done" => status'[t] = "Done",
           status'[Top.table] = "Done",
           \A t \in Tables : t # Top.table => created'[t] = created[t]
    PROVE  WellStacked' /\ \A i \in 1..Len(stack') : stack'[i].next > 0
<1>1. /\ Len(stack') = Len(stack) /\ Len(stack) \in Nat \ {0}
      /\ \A i \in 1..Len(stack) : i < Len(stack) => stack'[i] = stack[i]
      /\ stack'[Len(stack)].table = Top.table
      /\ stack'[Len(stack)].next = Top.next + 1
  BY StackParts, AdvanceFacts DEF Top
<1>2. Top.next \in Nat
  BY StackParts, <1>1 DEF Top
<1>3. \A i \in 1..Len(stack) : stack'[i].table = stack[i].table
  BY <1>1 DEF Top
<1>4. \A i \in 1..Len(stack) : stack'[i].next > 0
  BY <1>1, <1>2, StackParts DEF WellStacked
<1>5. \A i \in 1..Len(stack) : status'[stack[i].table] = "Done"
  BY <1>1, StackParts DEF WellStacked, Top
<1>6. \A i \in 1..Len(stack) : i > 1 => stack'[i - 1].table = stack[i - 1].table
  BY <1>1, <1>3
<1>. QED
  BY <1>1, <1>3, <1>4, <1>5, <1>6, StackParts DEF WellStacked

LEMMA StepStacked ==
    ASSUME TypeOK, RoundInv, WellStacked, [Next]_vars
    PROVE  WellStacked'
<1>. USE DEF tableVars
<1>1. CASE CheckFull
  <2>1. stack = <<>>
    BY <1>1, StackParts DEF CheckFull
  <2>. QED
    BY <1>1, <2>1 DEF CheckFull, WellStacked
<1>2. CASE WalkTable
  <2>0. stack = <<>>
    BY <1>2, StackParts DEF WalkTable
  <2>1. CASE created[Order[root]] < xml.fileNum[Order[root]]
    <3>1. stack' = <<[table |-> Order[root], next |-> 0]>> /\ root <= Len(Order)
          /\ UNCHANGED <<xml, root, created>>
      BY <1>2, <2>1 DEF WalkTable
    <3>. QED
      BY <2>1, <3>1 DEF WellStacked
  <2>2. CASE ~(created[Order[root]] < xml.fileNum[Order[root]])
    <3>1. stack' = <<>>
      BY <1>2, <2>0, <2>2 DEF WalkTable
    <3>. QED
      BY <3>1 DEF WellStacked
  <2>. QED
    BY <2>1, <2>2
<1>3. CASE EndRound
  <2>1. stack' = <<>>
    BY <1>3, StackParts DEF EndRound
  <2>. QED
    BY <2>1 DEF WellStacked
<1>4. ASSUME NEW t \in Tables, NotifyAlldepenedTable(t) PROVE WellStacked'
  <2>1. CASE Blocked(t)
    BY <2>1, BlockedKeeps, ReturnKeepsStack DEF Blocked, Entering
  <2>2. CASE AlreadyDone(t)
    <3>1. stack' = Advance(stack)
      BY <2>2 DEF AlreadyDone, NextDependent, Advance
    <3>. QED
      BY <2>2, <3>1, Checked, AdvanceKeepsStack DEF AlreadyDone, Entering
  <2>3. CASE Produce(t)
    <3>1. stack' = Advance(stack)
      BY <2>3 DEF Produce, NextDependent, Advance
    <3>2. status' = [status EXCEPT ![t] = "Done"] /\ \A u \in Tables : u # t => created'[u] = created[u]
      BY <2>3 DEF Produce, FinishToCreateTableNum, TypeOK, TableTypes
    <3>3. \A u \in Tables : status'[u] = IF u = t THEN "Done" ELSE status[u]
      BY <3>2 DEF TypeOK, TableTypes
    <3>. QED
      BY <2>3, <3>1, <3>2, <3>3, AdvanceKeepsStack DEF Produce, Entering
  <2>4. CASE Fail(t)
    <3>1. stack' = <<>>
      BY <2>4 DEF Fail
    <3>. QED
      BY <3>1 DEF WellStacked
  <2>5. CASE Notify(t)
    <3>1. CASE Top.next <= Len(xml.beDepended[t])
      <4>. DEFINE d == xml.beDepended[t][Top.next]
      <4>1. pc = "visit" /\ Top.table = t /\ Top.next > 0 /\ Top.next \in Nat
        BY <2>5, StackParts DEF Notify, Top
      <4>2. d \in Tables /\ t \in xml.deps[d]
        BY <3>1, <4>1, DependedParts
      <4>3. stack' = CallOn(stack, d) /\ UNCHANGED <<xml, root, status, created>>
        BY <2>5, <3>1 DEF Notify, CallOn, Advance
      <4>4. Len(stack) \in Nat \ {0} /\ stack \in Seq(Call) /\ stack # <<>>
        BY <4>1, StackParts
      <4>5. status[Top.table] = "Done"
        BY <4>1, <4>4 DEF WellStacked, Top
      <4>. DEFINE p == Advance(stack)
      <4>6. /\ Len(stack') = Len(stack) + 1
            /\ \A i \in 1..Len(stack) : stack'[i] = p[i]
            /\ stack'[Len(stack) + 1] = [table |-> d, next |-> 0]
        BY <4>2, <4>3, <4>4, CallOnFacts
      <4>7. /\ \A i \in 1..Len(stack) : i < Len(stack) => p[i] = stack[i]
            /\ p[Len(stack)].table = t /\ p[Len(stack)].next = Top.next + 1
        BY <4>1, <4>4, AdvanceFacts DEF Top
      <4>. HIDE DEF d, p
      <4>8. \A i \in 1..Len(stack) : stack'[i].table = stack[i].table /\ stack'[i].next > 0
        BY <4>1, <4>4, <4>6, <4>7, StackParts DEF WellStacked, Top
      <4>9. \A i \in 1..Len(stack) : status[stack[i].table] = "Done"
        BY <4>1, <4>4, <4>5 DEF WellStacked, Top
      <4>10. \A i \in 1..Len(stack') : i > 1 =>
               stack'[i - 1].table = stack[i - 1].table /\ i - 1 \in 1..Len(stack)
        BY <4>4, <4>6, <4>8
      <4>11. ASSUME NEW i \in 1..Len(stack') PROVE
               /\ i < Len(stack') => stack'[i].next > 0
               /\ stack'[i].next > 0 => status'[stack'[i].table] = "Done"
               /\ i > 1 => stack'[i - 1].table \in xml'.deps[stack'[i].table]
               /\ i = 1 => root' <= Len(Order) /\ stack'[i].table = Order[root']
               /\ stack'[i].next = 0 /\ xml'.deps[stack'[i].table] = {}
                    => created'[stack'[i].table] < xml'.fileNum[stack'[i].table]
        <5>1. CASE i \in 1..Len(stack)
          BY <5>1, <4>3, <4>4, <4>6, <4>8, <4>9, <4>10 DEF WellStacked
        <5>2. CASE i = Len(stack) + 1
          <6>1. stack'[i - 1].table = t
            BY <5>2, <4>1, <4>4, <4>8 DEF Top
          <6>. QED
            BY <5>2, <6>1, <4>2, <4>3, <4>4, <4>6
        <5>. QED
          BY <5>1, <5>2, <4>4, <4>6
      <4>. QED
        BY <4>11 DEF WellStacked
    <3>2. CASE ~(Top.next <= Len(xml.beDepended[t]))
      BY <2>5, <3>2, ReturnKeepsStack DEF Notify
    <3>. QED
      BY <3>1, <3>2
  <2>. QED
    BY <1>4, <2>1, <2>2, <2>3, <2>4, <2>5 DEF NotifyAlldepenedTable
<1>5. CASE UNCHANGED vars
  BY <1>5 DEF vars, WellStacked
<1>. QED
  BY <1>1, <1>2, <1>3, <1>4, <1>5 DEF Next

LEMMA StepAcyclic ==
    ASSUME TypeOK, RoundInv, Acyclic, [Next]_vars
    PROVE  Acyclic'
<1>. USE DEF tableVars
<1>1. CASE UNCHANGED <<xml, status>>
  BY <1>1 DEF Acyclic
<1>2. CASE EndRound
  <2>1. \A t \in Tables : status'[t] # "Done"
    BY <1>2 DEF EndRound
  <2>. QED
    BY <2>1 DEF Acyclic
<1>3. ASSUME NEW t \in Tables, Produce(t) PROVE Acyclic'
  <2>1. DoneDeps(t) /\ status[t] = "NotReady"
    BY <1>3, Checked DEF Produce
  <2>2. xml' = xml /\ \A u \in Tables : status'[u] = IF u = t THEN "Done" ELSE status[u]
    BY <1>3 DEF Produce, TypeOK, TableTypes
  <2>3. SUFFICES ASSUME NEW S \in SUBSET {u \in Tables : status'[u] = "Done"}, S # {}
                 PROVE  \E u \in S : xml.deps[u] \cap S = {}
    BY <2>2 DEF Acyclic
  <2>4. CASE t \notin S
    <3>1. S \in SUBSET {u \in Tables : status[u] = "Done"}
      BY <2>2, <2>4
    <3>. QED
      BY <2>3, <3>1 DEF Acyclic
  <2>5. CASE S = {t}
    BY <2>1, <2>5 DEF DoneDeps
  <2>6. CASE t \in S /\ S # {t}
    <3>1. S \ {t} \in SUBSET {u \in Tables : status[u] = "Done"} /\ S \ {t} # {}
      BY <2>2, <2>6
    <3>2. PICK u \in S \ {t} : xml.deps[u] \cap (S \ {t}) = {}
      BY <3>1 DEF Acyclic
    <3>3. t \notin xml.deps[u]
      BY <2>1, <3>1, <3>2 DEF RoundInv
    <3>. QED
      BY <3>2, <3>3
  <2>. QED
    BY <2>4, <2>5, <2>6
<1>4. ASSUME NEW t \in Tables, Fail(t) PROVE Acyclic'
  <2>1. xml' = xml /\ \A u \in Tables : status'[u] = "Done" => status[u] = "Done"
    BY <1>4 DEF Fail, TypeOK, TableTypes
  <2>. QED
    BY <2>1 DEF Acyclic
<1>5. ASSUME NEW t \in Tables, Blocked(t) PROVE Acyclic'
  <2>1. UNCHANGED <<xml, status>>
    BY <1>5, BlockedKeeps DEF Blocked
  <2>. QED
    BY <2>1, <1>1
<1>. QED
  BY <1>1, <1>2, <1>3, <1>4, <1>5
  DEF Next, CheckFull, WalkTable, NotifyAlldepenedTable, AlreadyDone, Notify, vars

\* A table that is twice on the stack would be Done and lie on a cycle of Done tables.
LEMMA CallsDiffer ==
    ASSUME TypeOK, WellStacked, Acyclic,
           NEW i \in 1..Len(stack), NEW j \in 1..Len(stack), i < j
    PROVE  stack[i].table # stack[j].table
<1>. DEFINE S == {stack[k].table : k \in i..(j - 1)}
<1>1. \A k \in i..(j - 1) : k \in 1..Len(stack) /\ k < Len(stack) /\ k + 1 \in 1..Len(stack)
                            /\ k + 1 > 1 /\ k + 1 - 1 = k
  BY StackParts
<1>2. \A k \in i..(j - 1) : stack[k].table \in Tables /\ status[stack[k].table] = "Done"
                            /\ stack[k].table \in xml.deps[stack[k + 1].table]
  BY <1>1, StackParts DEF WellStacked
<1>3. S \in SUBSET {t \in Tables : status[t] = "Done"} /\ S # {}
  <2>1. i \in i..(j - 1)
    OBVIOUS
  <2>. QED
    BY <1>2, <2>1
<1>. HIDE DEF S
<1>4. PICK t \in S : xml.deps[t] \cap S = {}
  BY <1>3 DEF Acyclic
<1>. USE DEF S
<1>5. PICK k \in i..(j - 1) : t = stack[k].table
  OBVIOUS
<1>6. CASE k = i
  <2>1. j - 1 \in i..(j - 1) /\ j - 1 + 1 = j
    OBVIOUS
  <2>2. stack[j - 1].table \in xml.deps[stack[j].table] /\ stack[j - 1].table \in S
    BY <1>2, <2>1
  <2>. QED
    BY <1>4, <1>5, <1>6, <2>2
<1>7. CASE k # i
  <2>1. k - 1 \in i..(j - 1) /\ k - 1 + 1 = k
    BY <1>7
  <2>2. stack[k - 1].table \in xml.deps[stack[k].table] /\ stack[k - 1].table \in S
    BY <1>2, <2>1
  <2>. QED
    BY <1>4, <1>5, <2>2
<1>. QED
  BY <1>6, <1>7

LEMMA TablesFinite == IsFiniteSet(Tables)
<1>1. Order \in [1..Len(Order) -> Tables] /\ Len(Order) \in Nat
  BY TemplatesAssumption
<1>2. \A t \in Tables : \E i \in 1..Len(Order) : Order[i] = t
  BY TemplatesAssumption
<1>3. Order \in Surjection(1..Len(Order), Tables)
  BY <1>1, <1>2 DEF Surjection
<1>4. IsFiniteSet(1..Len(Order))
  BY <1>1, FS_Interval
<1>. QED
  BY <1>3, <1>4, FS_Surjection

LEMMA CallsBounded ==
    ASSUME TypeOK, WellStacked, Acyclic
    PROVE  StackBounded
<1>. DEFINE f == [i \in 1..Len(stack) |-> stack[i].table]
<1>1. Len(stack) \in Nat /\ f \in [1..Len(stack) -> Tables]
  BY StackParts
<1>2. \A i, j \in 1..Len(stack) : stack[i].table = stack[j].table => i = j
  <2>. SUFFICES ASSUME NEW i \in 1..Len(stack), NEW j \in 1..Len(stack), i # j
                PROVE  stack[i].table # stack[j].table
    OBVIOUS
  <2>1. i < j \/ j < i
    BY <1>1
  <2>. QED
    BY <2>1, CallsDiffer
<1>3. f \in Injection(1..Len(stack), Tables)
  BY <1>1, <1>2 DEF Injection, IsInjective
<1>4. Cardinality(1..Len(stack)) <= Cardinality(Tables)
  BY <1>3, TablesFinite, FS_Injection
<1>5. Cardinality(1..Len(stack)) = Len(stack)
  <2>1. Cardinality(1..Len(stack)) = IF 1 > Len(stack) THEN 0 ELSE Len(stack) - 1 + 1
    BY <1>1, FS_Interval
  <2>. QED
    BY <1>1, <2>1
<1>. QED
  BY <1>4, <1>5 DEF StackBounded

(* The calls of notifyAlldepenedTable never nest deeper than the tables    *)
(* are many, whatever cycles the dependencies have.                        *)
THEOREM CallsNestBounded == Spec => []StackBounded
<1>. DEFINE Inv == TypeOK /\ RoundInv /\ WellStacked /\ Acyclic
<1>1. Init => Inv
  <2>1. Init => ThreadTypes
    BY DEF Init, ThreadTypes
  <2>2. Init => WellStacked
    BY DEF Init, WellStacked
  <2>3. Init => Acyclic
    BY DEF Init, Acyclic
  <2>. QED
    BY <2>1, <2>2, <2>3, InitTables DEF TypeOK
<1>2. Inv /\ [Next]_vars => Inv'
  BY StepTables, StepThread, StepRound, StepStacked, StepAcyclic DEF TypeOK
<1>3. Inv => StackBounded
  BY CallsBounded
<1>. QED
  BY <1>1, <1>2, <1>3, PTL DEF Spec

-----------------------------------------------------------------------------
(* What a round reaches.                                                   *)

\* The walk is to reach t by its name, or makes no more files of it.
ByName(t) ==
    /\ xml.deps[t] = {}
    /\ created[t] >= xml.fileNum[t] \/ \E i \in 1..Len(Order) : i >= root /\ Order[i] = t

\* The k-th call is about to see t, or to tell it.
CalledBy(k, t) ==
    \/ stack[k].table = t /\ stack[k].next = 0
    \/ /\ stack[k].table \in xml.deps[t]
       /\ \E j \in 1..Len(xml.beDepended[stack[k].table]) :
            j >= stack[k].next /\ xml.beDepended[stack[k].table][j] = t

Called(t) == \E k \in 1..Len(stack) : CalledBy(k, t)

(* A round reaches every table whose dependencies are Done, unless it      *)
(* depends on none and has all its files.                                  *)
Reaching == \A t \in Tables : status[t] # "Done" /\ DoneDeps(t) => ByName(t) \/ Called(t)

WalkOK ==
    /\ pc = "check" => \A t \in Tables : status[t] = "NotReady"
    /\ pc \in {"walk", "visit"} => Reaching

\* The innermost call returns: nobody waits for it but tables that wait for others too.
LEMMA ReturnReaches ==
    ASSUME TypeOK, WellStacked, WalkOK, pc = "visit", Return, UNCHANGED <<xml, status, created>>,
           \A t \in Tables : status[t] # "Done" /\ DoneDeps(t)
               => t # Top.table /\ ~CalledBy(Len(stack), t)
    PROVE  WalkOK'
<1>. SUFFICES ASSUME NEW t \in Tables, status[t] # "Done", DoneDeps(t)
              PROVE  ByName(t)' \/ Called(t)'
  BY DEF WalkOK, Reaching, DoneDeps, Return
<1>1. ByName(t) \/ Called(t)
  BY DEF WalkOK, Reaching
<1>2. t # Top.table /\ ~CalledBy(Len(stack), t)
  OBVIOUS
<1>3. CASE Len(stack) = 1
  <2>1. stack' = <<>> /\ root' = root + 1 /\ root \in Nat
    BY <1>3 DEF Return, TypeOK, ThreadTypes
  <2>2. stack[1].table = Order[root] /\ Top.table = Order[root]
    BY <1>3 DEF WellStacked, Top
  <2>3. ByName(t)
    BY <1>1, <1>2, <1>3 DEF Called
  <2>4. \A i \in 1..Len(Order) : i >= root /\ Order[i] = t => i >= root + 1
    <3>. SUFFICES ASSUME NEW i \in 1..Len(Order), i >= root, Order[i] = t PROVE i >= root + 1
      OBVIOUS
    <3>1. i # root
      BY <1>2, <2>2
    <3>2. i \in Nat
      BY TemplatesAssumption
    <3>. QED
      BY <2>1, <3>1, <3>2
  <2>. QED
    BY <2>1, <2>3, <2>4 DEF ByName
<1>4. CASE Len(stack) # 1
  <2>1. stack' = Front(stack) /\ root' = root
    BY <1>4 DEF Return
  <2>2. /\ Len(stack') = Len(stack) - 1 /\ Len(stack) \in Nat \ {0}
        /\ \A i \in 1..(Len(stack) - 1) : stack'[i] = stack[i]
    BY <2>1, FrontFacts, StackParts
  <2>3. CASE ByName(t)
    BY <2>1, <2>3 DEF ByName
  <2>4. ASSUME NEW k \in 1..Len(stack), CalledBy(k, t) PROVE Called(t)'
    <3>1. k \in 1..Len(stack') /\ stack'[k] = stack[k]
      BY <1>2, <2>2, <2>4
    <3>. QED
      BY <2>4, <3>1 DEF CalledBy, Called
  <2>. QED
    BY <1>1, <2>3, <2>4 DEF Called
<1>. QED
  BY <1>3, <1>4

\* The calls but the innermost reach what they did.
LEMMA OuterReach ==
    ASSUME TypeOK, UNCHANGED <<xml, root>>, NEW t \in Tables, created'[t] = created[t],
           ByName(t) \/ Called(t), ~CalledBy(Len(stack), t), Len(stack') \in Nat,
           \A k \in 1..Len(stack) : k < Len(stack) => k \in 1..Len(stack') /\ stack'[k] = stack[k]
    PROVE  ByName(t)' \/ Called(t)'
<1>1. CASE ByName(t)
  BY <1>1 DEF ByName
<1>2. ASSUME NEW k \in 1..Len(stack), CalledBy(k, t) PROVE Called(t)'
  <2>1. k < Len(stack)
    BY <1>2, StackParts
  <2>2. k \in 1..Len(stack') /\ stack'[k] = stack[k]
    BY <2>1
  <2>. QED
    BY <1>2, <2>2 DEF CalledBy, Called
<1>. QED
  BY <1>1, <1>2 DEF Called

\* The innermost call begins to tell the tables that depend on its own.
LEMMA BeginReaches ==
    ASSUME TypeOK, WalkOK, pc = "visit", stack' = Advance(stack), Top.next = 0,
           UNCHANGED <<xml, pc, root>>,
           status' = [status EXCEPT ![Top.table] = "Done"],
           \A u \in Tables : u # Top.table => created'[u] = created[u]
    PROVE  WalkOK'
<1>1. /\ Len(stack') = Len(stack) /\ Len(stack) \in Nat \ {0}
      /\ \A k \in 1..Len(stack) : k < Len(stack) => stack'[k] = stack[k]
      /\ stack'[Len(stack)].table = Top.table /\ stack'[Len(stack)].next = 1
  BY StackParts, AdvanceFacts DEF Top
<1>2. \A u \in Tables : status'[u] = IF u = Top.table THEN "Done" ELSE status[u]
  BY DEF TypeOK, TableTypes
<1>. SUFFICES ASSUME NEW t \in Tables, status'[t] # "Done", DoneDeps(t)'
              PROVE  ByName(t)' \/ Called(t)'
  BY DEF WalkOK, Reaching
<1>3. t # Top.table /\ Top.table \in Tables /\ status[t] # "Done"
  BY <1>1, <1>2, StackParts DEF Top
<1>4. CASE Top.table \in xml.deps[t]
  <2>1. PICK j \in 1..Len(xml.beDepended[Top.table]) : xml.beDepended[Top.table][j] = t
    BY <1>3, <1>4, DependedParts
  <2>2. j >= 1
    BY <1>3, <2>1, DependedParts
  <2>3. CalledBy(Len(stack), t)'
    <3>1. Len(stack') = Len(stack)
      BY <1>1
    <3>2. /\ stack'[Len(stack')].table \in xml'.deps[t]
          /\ j \in 1..Len(xml'.beDepended[stack'[Len(stack')].table])
          /\ j >= stack'[Len(stack')].next
          /\ xml'.beDepended[stack'[Len(stack')].table][j] = t
      BY <1>1, <1>4, <2>1, <2>2
    <3>. QED
      BY <3>2 DEF CalledBy
  <2>. QED
    BY <1>1, <2>3 DEF Called
<1>5. CASE Top.table \notin xml.deps[t]
  <2>1. DoneDeps(t)
    BY <1>2, <1>5, TemplateParts DEF DoneDeps, TypeOK
  <2>2. ByName(t) \/ Called(t)
    BY <1>3, <2>1 DEF WalkOK, Reaching
  <2>3. ~CalledBy(Len(stack), t)
    BY <1>3, <1>5 DEF CalledBy, Top
  <2>. QED
    BY <1>1, <1>3, <2>2, <2>3, OuterReach
<1>. QED
  BY <1>4, <1>5

LEMMA StepReaches ==
    ASSUME TypeOK, RoundInv, WellStacked, WalkOK, [Next]_vars
    PROVE  WalkOK'
<1>. USE DEF tableVars
<1>1. CASE CheckFull
  <2>1. ASSUME pc' = "walk" PROVE Reaching'
    <3>1. root' = 1 /\ UNCHANGED <<xml, status, created>> /\ \A t \in Tables : status[t] = "NotReady"
      BY <1>1, <2>1 DEF CheckFull, WalkOK
    <3>. SUFFICES ASSUME NEW t \in Tables, status[t] # "Done", DoneDeps(t) PROVE ByName(t)'
      BY <3>1 DEF Reaching, DoneDeps
    <3>2. xml.deps[t] = {}
      <4>1. xml.deps[t] \subseteq Tables
        BY TemplateParts DEF TypeOK
      <4>. QED
        BY <3>1, <4>1 DEF DoneDeps
    <3>3. PICK i \in 1..Len(Order) : Order[i] = t
      BY TemplatesAssumption
    <3>4. i >= 1
      BY TemplatesAssumption
    <3>. QED
      BY <3>1, <3>2, <3>3, <3>4 DEF ByName
  <2>. QED
    BY <1>1, <2>1 DEF CheckFull, WalkOK
<1>2. CASE WalkTable
  <2>1. stack = <<>> /\ Reaching /\ root \in Nat \ {0} /\ UNCHANGED <<xml, status, created>>
    BY <1>2, StackParts DEF WalkTable, WalkOK, TypeOK, ThreadTypes
  <2>2. \A t \in Tables : ~Called(t)
    BY <2>1 DEF Called
  <2>. SUFFICES ASSUME NEW t \in Tables, status[t] # "Done", DoneDeps(t)
                PROVE  pc' # "check" /\ ByName(t)'
    BY <1>2, <2>1 DEF WalkOK, Reaching, DoneDeps, WalkTable
  <2>3. ByName(t)
    BY <2>1, <2>2 DEF Reaching
  <2>4. CASE created[Order[root]] < xml.fileNum[Order[root]]
    <3>1. root' = root /\ pc' = "visit"
      BY <1>2, <2>4 DEF WalkTable
    <3>. QED
      BY <2>1, <2>3, <3>1 DEF ByName
  <2>5. CASE ~(created[Order[root]] < xml.fileNum[Order[root]])
    <3>1. root' = root + 1 /\ pc' = "walk" /\ root <= Len(Order)
      BY <1>2, <2>5 DEF WalkTable
    <3>2. CASE t = Order[root]
      <4>1. created[t] \in Nat /\ xml.fileNum[t] \in Nat
        BY TemplateParts DEF TypeOK, TableTypes
      <4>2. created[t] >= xml.fileNum[t]
        BY <2>5, <3>2, <4>1
      <4>. QED
        BY <2>1, <2>3, <3>1, <4>2 DEF ByName
    <3>3. CASE t # Order[root]
      <4>1. ASSUME NEW i \in 1..Len(Order), i >= root, Order[i] = t PROVE i >= root + 1
        <5>1. i # root
          BY <3>3, <4>1
        <5>2. i \in Nat
          BY TemplatesAssumption
        <5>. QED
          BY <2>1, <4>1, <5>1, <5>2
      <4>. QED
        BY <2>1, <2>3, <3>1, <4>1 DEF ByName
    <3>. QED
      BY <3>2, <3>3
  <2>. QED
    BY <2>4, <2>5
<1>3. CASE EndRound
  BY <1>3 DEF EndRound, WalkOK
<1>4. ASSUME NEW t \in Tables, NotifyAlldepenedTable(t) PROVE WalkOK'
  <2>1. CASE Blocked(t)
    <3>1. status' = status /\ ~DoneDeps(t) /\ Top.table = t /\ pc = "visit" /\ Top.next = 0
      BY <2>1, BlockedKeeps DEF Blocked, Entering
    <3>2. ASSUME NEW u \in Tables, status[u] # "Done", DoneDeps(u)
          PROVE  u # Top.table /\ ~CalledBy(Len(stack), u)
      <4>1. u # t
        BY <3>1, <3>2
      <4>2. t \notin xml.deps[u]
        BY <3>1, <3>2 DEF DoneDeps, RoundInv
      <4>. QED
        BY <3>1, <4>1, <4>2 DEF CalledBy, Top
    <3>. QED
      BY <2>1, <3>1, <3>2, ReturnReaches DEF Blocked
  <2>2. CASE AlreadyDone(t)
    <3>1. /\ status[t] = "Done" /\ Top.table = t /\ Top.next = 0 /\ pc = "visit"
          /\ stack' = Advance(stack) /\ UNCHANGED <<xml, tableVars, pc, root>>
      BY <2>2, Checked DEF AlreadyDone, Entering, NextDependent, Advance
    <3>2. status' = [status EXCEPT ![Top.table] = "Done"]
      BY <3>1 DEF TypeOK, TableTypes
    <3>. QED
      BY <3>1, <3>2, BeginReaches
  <2>3. CASE Produce(t)
    <3>1. /\ Top.table = t /\ Top.next = 0 /\ pc = "visit"
          /\ stack' = Advance(stack) /\ UNCHANGED <<xml, pc, root>>
          /\ status' = [status EXCEPT ![Top.table] = "Done"]
      BY <2>3 DEF Produce, Entering, NextDependent, Advance
    <3>2. \A u \in Tables : u # Top.table => created'[u] = created[u]
      BY <2>3, <3>1 DEF Produce, FinishToCreateTableNum, TypeOK, TableTypes
    <3>. QED
      BY <3>1, <3>2, BeginReaches
  <2>4. CASE Fail(t)
    BY <2>4 DEF Fail, WalkOK
  <2>5. CASE Notify(t)
    <3>1. /\ pc = "visit" /\ Top.table = t /\ Top.next > 0 /\ Top.next \in Nat
          /\ Len(stack) \in Nat \ {0} /\ stack \in Seq(Call) /\ stack # <<>>
      BY <2>5, StackParts DEF Notify, Top
    <3>2. status[t] = "Done"
      BY <3>1 DEF WellStacked, Top
    <3>3. CASE Top.next <= Len(xml.beDepended[t])
      <4>. DEFINE d == xml.beDepended[t][Top.next]
                  p == Advance(stack)
      <4>1. d \in Tables /\ t \in xml.deps[d]
        BY <3>1, <3>3, DependedParts
      <4>2. stack' = CallOn(stack, d) /\ UNCHANGED <<xml, root, status, created, pc>>
        BY <2>5, <3>3 DEF Notify, CallOn, Advance
      <4>3. /\ Len(stack') = Len(stack) + 1
            /\ \A i \in 1..Len(stack) : stack'[i] = p[i]
            /\ stack'[Len(stack) + 1] = [table |-> d, next |-> 0]
        BY <3>1, <4>1, <4>2, CallOnFacts
      <4>4. /\ \A i \in 1..Len(stack) : i < Len(stack) => p[i] = stack[i]
            /\ p[Len(stack)].table = t /\ p[Len(stack)].next = Top.next + 1
        BY <3>1, AdvanceFacts DEF Top
      <4>. HIDE DEF p
      <4>5. /\ \A i \in 1..Len(stack) : i < Len(stack) => i \in 1..Len(stack') /\ stack'[i] = stack[i]
            /\ stack'[Len(stack)].table = t /\ stack'[Len(stack)].next = Top.next + 1
            /\ Len(stack) \in 1..Len(stack') /\ Len(stack) + 1 \in 1..Len(stack')
        BY <3>1, <4>3, <4>4
      <4>. SUFFICES ASSUME NEW u \in Tables, status[u] # "Done", DoneDeps(u)
                    PROVE  ByName(u)' \/ Called(u)'
        BY <3>1, <4>2 DEF WalkOK, Reaching, DoneDeps
      <4>6. ByName(u) \/ Called(u)
        BY <3>1 DEF WalkOK, Reaching
      <4>7. CASE CalledBy(Len(stack), u)
        <5>1. PICK j \in 1..Len(xml.beDepended[t]) : j >= Top.next /\ xml.beDepended[t][j] = u
          BY <3>1, <3>2, <4>7 DEF CalledBy, Top
        <5>2. t \in xml.deps[u]
          BY <3>1, <3>2, <4>7 DEF CalledBy, Top
        <5>3. CASE j = Top.next
          BY <4>3, <4>5, <5>1, <5>3 DEF Called, CalledBy
        <5>4. CASE j # Top.next
          <6>1. j >= Top.next + 1
            BY <3>1, <5>1, <5>4, DependedParts
          <6>. QED
            BY <4>2, <4>5, <5>1, <5>2, <6>1 DEF Called, CalledBy
        <5>. QED
          BY <5>3, <5>4
      <4>8. CASE ~CalledBy(Len(stack), u)
        <5>1. Len(stack') \in Nat
          BY <3>1, <4>3
        <5>. QED
          BY <4>2, <4>5, <4>6, <4>8, <5>1, OuterReach
      <4>. QED
        BY <4>7, <4>8
    <3>4. CASE ~(Top.next <= Len(xml.beDepended[t]))
      <4>1. ASSUME NEW u \in Tables, status[u] # "Done", DoneDeps(u)
            PROVE  u # Top.table /\ ~CalledBy(Len(stack), u)
        <5>1. \A j \in 1..Len(xml.beDepended[t]) : ~(j >= Top.next)
          BY <3>1, <3>4, DependedParts
        <5>. QED
          BY <3>1, <3>2, <4>1, <5>1 DEF CalledBy, Top
      <4>. QED
        BY <2>5, <3>1, <3>4, <4>1, ReturnReaches DEF Notify
    <3>. QED
      BY <3>3, <3>4
  <2>. QED
    BY <1>4, <2>1, <2>2, <2>3, <2>4, <2>5 DEF NotifyAlldepenedTable
<1>5. CASE UNCHANGED vars
  BY <1>5 DEF vars, WalkOK, Reaching, ByName, Called, CalledBy, DoneDeps
<1>. QED
  BY <1>1, <1>2, <1>3, <1>4, <1>5 DEF Next

-----------------------------------------------------------------------------
(* Files, round by round.                                                  *)

(* After n rounds a table has made n files, and one more in this round     *)
(* when it is Done, unless it depends on none and has all its files, or    *)
(* depends on a table that has made fewer.                                 *)
InRound(n) ==
    \A t \in Tables :
        /\ status[t] = "Done" => files[t] = n + 1
        /\ status[t] # "Done" => files[t] <= n
        /\ files[t] < n => \/ xml.deps[t] = {} /\ created[t] >= xml.fileNum[t]
                           \/ \E d \in xml.deps[t] : files[d] < n

LockOK == \E n \in Nat : InRound(n)

\* A table that is about to make a file has made one per round, and its dependencies one more.
LEMMA ProduceParts ==
    ASSUME TypeOK, RoundInv, WellStacked, NEW n \in Nat, InRound(n),
           NEW t \in Tables, Produce(t)
    PROVE  /\ files[t] = n /\ \A d \in xml.deps[t] : files[d] = n + 1
           /\ xml.deps[t] = {} => created[t] < xml.fileNum[t]
           /\ status[t] # "Done"
<1>1. DoneDeps(t) /\ status[t] = "NotReady"
  BY Checked DEF Produce
<1>2. xml.deps[t] \subseteq Tables /\ files \in [Tables -> Nat] /\ created[t] \in Nat
      /\ xml.fileNum[t] \in Nat
  BY TemplateParts DEF TypeOK, TableTypes
<1>3. \A d \in xml.deps[t] : files[d] = n + 1
  BY <1>1, <1>2 DEF InRound, DoneDeps
<1>4. xml.deps[t] = {} => created[t] < xml.fileNum[t]
  <2>1. Len(stack) \in 1..Len(stack) /\ stack[Len(stack)].table = t /\ stack[Len(stack)].next = 0
    BY StackParts DEF Produce, Entering, Top
  <2>. QED
    BY <2>1 DEF WellStacked
<1>5. files[t] <= n
  BY <1>1 DEF InRound
<1>6. ~(files[t] < n)
  <2>1. \A d \in xml.deps[t] : ~(files[d] < n)
    BY <1>3
  <2>2. ~(xml.deps[t] = {} /\ created[t] >= xml.fileNum[t])
    BY <1>2, <1>4
  <2>. QED
    BY <2>1, <2>2 DEF InRound
<1>. QED
  BY <1>1, <1>2, <1>3, <1>4, <1>5, <1>6

LEMMA StepLock ==
    ASSUME TypeOK, RoundInv, WellStacked, WalkOK, LockOK, [Next]_vars
    PROVE  LockOK' /\ [\E t \in Tables : Rounds!Make(t)]_<<xml.deps, files>>
<1>. USE DEF tableVars
<1>1. CASE UNCHANGED <<xml, status, created, files>>
  BY <1>1 DEF LockOK, InRound
<1>2. CASE EndRound
  <2>1. PICK n \in Nat : InRound(n)
    BY DEF LockOK
  <2>2. UNCHANGED <<xml, created, files>> /\ \A t \in Tables : status'[t] = "NotReady"
    BY <1>2 DEF EndRound
  <2>3. Reaching /\ stack = <<>> /\ root > Len(Order) /\ root \in Nat
    BY <1>2, StackParts DEF EndRound, WalkOK, TypeOK, ThreadTypes
  <2>4. files \in [Tables -> Nat]
    BY DEF TypeOK, TableTypes
  <2>5. ASSUME NEW t \in Tables, files[t] < n + 1
        PROVE  \/ xml.deps[t] = {} /\ created[t] >= xml.fileNum[t]
               \/ \E d \in xml.deps[t] : files[d] < n + 1
    <3>1. status[t] # "Done"
      BY <2>1, <2>4, <2>5 DEF InRound
    <3>2. CASE DoneDeps(t)
      <4>1. \A i \in 1..Len(Order) : ~(i >= root)
        BY <2>3, TemplatesAssumption
      <4>2. ByName(t)
        BY <2>3, <3>1, <3>2 DEF Reaching, Called
      <4>. QED
        BY <4>1, <4>2 DEF ByName
    <3>3. CASE ~DoneDeps(t)
      <4>1. PICK d \in xml.deps[t] : status[d] # "Done"
        BY <3>3 DEF DoneDeps
      <4>2. d \in Tables
        BY <4>1, TemplateParts DEF TypeOK
      <4>3. files[d] < n + 1
        BY <2>1, <2>4, <4>1, <4>2 DEF InRound
      <4>. QED
        BY <4>1, <4>3
    <3>. QED
      BY <3>2, <3>3
  <2>6. \A t \in Tables : files[t] <= n + 1
    BY <2>1, <2>4 DEF InRound
  <2>7. InRound(n + 1)'
    BY <2>2, <2>5, <2>6 DEF InRound
  <2>. QED
    BY <2>1, <2>2, <2>7 DEF LockOK
<1>3. ASSUME NEW t \in Tables, Produce(t) PROVE LockOK' /\ Rounds!Make(t)
  <2>1. PICK n \in Nat : InRound(n)
    BY DEF LockOK
  <2>2. /\ files[t] = n /\ \A d \in xml.deps[t] : files[d] = n + 1
        /\ status[t] # "Done"
    BY <1>3, <2>1, ProduceParts
  <2>3. files' = [files EXCEPT ![t] = @ + 1] /\ xml' = xml
        /\ status' = [status EXCEPT ![t] = "Done"]
        /\ \A u \in Tables : u # t => created'[u] = created[u]
    BY <1>3 DEF Produce, FinishToCreateTableNum, TypeOK, TableTypes
  <2>4. Rounds!Make(t)
    BY <2>2, <2>3 DEF Rounds!Make
  <2>5. files \in [Tables -> Nat] /\ status \in [Tables -> {"NotReady", "Ready", "Done"}]
        /\ \A u \in Tables : xml.deps[u] \subseteq Tables
    BY TemplateParts DEF TypeOK, TableTypes
  <2>6. InRound(n)'
    <3>. SUFFICES ASSUME NEW u \in Tables PROVE
            /\ status'[u] = "Done" => files'[u] = n + 1
            /\ status'[u] # "Done" => files'[u] <= n
            /\ files'[u] < n => \/ xml.deps[u] = {} /\ created'[u] >= xml.fileNum[u]
                                \/ \E d \in xml.deps[u] : files'[d] < n
      BY <2>3 DEF InRound
    <3>1. CASE u = t
      BY <2>2, <2>3, <2>5, <3>1
    <3>2. CASE u # t
      <4>1. files'[u] = files[u] /\ status'[u] = status[u] /\ created'[u] = created[u]
        BY <2>3, <2>5, <3>2
      <4>2. \A d \in xml.deps[u] : files[d] < n => files'[d] < n
        BY <2>2, <2>3, <2>5
      <4>. QED
        BY <2>1, <4>1, <4>2 DEF InRound
    <3>. QED
      BY <3>1, <3>2
  <2>. QED
    BY <2>1, <2>4, <2>6 DEF LockOK
<1>4. ASSUME NEW t \in Tables, Fail(t)
      PROVE  LockOK' /\ UNCHANGED <<xml.deps, files>>
  <2>1. UNCHANGED <<xml, created, files>>
    BY <1>4 DEF Fail
  <2>2. \A u \in Tables : status'[u] = "Done" <=> status[u] = "Done"
    <3>1. status[t] = "NotReady"
      BY <1>4, Checked DEF Fail
    <3>. QED
      BY <1>4, <3>1 DEF Fail, TypeOK, TableTypes
  <2>. QED
    BY <2>1, <2>2 DEF LockOK, InRound
<1>5. ASSUME NEW t \in Tables, Blocked(t) PROVE UNCHANGED <<xml, status, created, files>>
  BY <1>5, BlockedKeeps DEF Blocked
<1>. QED
  BY <1>1, <1>2, <1>3, <1>4, <1>5
  DEF Next, CheckFull, WalkTable, NotifyAlldepenedTable, AlreadyDone, Notify, vars

(* Each table makes its n-th file from the n-th files of the tables it     *)
(* depends on, whatever fails and however the flags of full tables stand.  *)
THEOREM RoundsInLockStep == Spec => InLockStep
<1>. DEFINE Inv == TypeOK /\ RoundInv /\ WellStacked /\ WalkOK /\ LockOK
<1>1. Init => Inv /\ Rounds!LockStepInit
  <2>. SUFFICES ASSUME Init PROVE Inv /\ Rounds!LockStepInit
    OBVIOUS
  <2>1. TypeOK /\ RoundInv
    BY InitTables DEF Init, TypeOK, ThreadTypes
  <2>2. WellStacked /\ WalkOK
    BY DEF Init, WellStacked, WalkOK
  <2>3. InRound(0)
    BY DEF Init, InRound
  <2>4. Rounds!LockStepInit
    BY <2>1, TemplateParts DEF Init, Rounds!LockStepInit, TypeOK
  <2>. QED
    BY <2>1, <2>2, <2>3, <2>4 DEF LockOK
<1>2. Inv /\ [Next]_vars => Inv'
  BY StepTables, StepThread, StepRound, StepStacked, StepReaches, StepLock DEF TypeOK
<1>3. Inv /\ [Next]_vars => [\E t \in Tables : Rounds!Make(t)]_<<xml.deps, files>>
  BY StepLock
<1>. QED
  BY <1>1, <1>2, <1>3, PTL DEF Spec, InLockStep, Rounds!LockStepSpec

-----------------------------------------------------------------------------
(* The number of files.                                                    *)

\* How often a file is counted.
PerFile == IF xml.stream THEN 2 ELSE 1

\* A table with this id has made all its files, so far as it is counted.
Complete(id) == \E u \in Tables : xml.id[u] = id /\ created[u] >= xml.fileNum[u]

(* The flag of an id stands for a table that has made all its files, the   *)
(* thread ends when every flag stands, and no table makes a file more than *)
(* it takes to reach its fileNum.                                          *)
CountOK ==
    /\ \A t \in Tables : created[t] = PerFile * files[t]
    /\ \A id \in full : Complete(id)
    /\ pc = "ended" => \A t \in Tables : Complete(xml.id[t])
    /\ Producible => \A t \in Tables : files[t] > 0 => PerFile * (files[t] - 1) < xml.fileNum[t]

\* Files are only added, and what is complete stays complete.
LEMMA CompleteStays ==
    ASSUME TypeOK, xml' = xml, \A t \in Tables : created'[t] >= created[t] /\ created'[t] \in Nat,
           NEW id, Complete(id)
    PROVE  Complete(id)'
<1>1. PICK u \in Tables : xml.id[u] = id /\ created[u] >= xml.fileNum[u]
  BY DEF Complete
<1>2. created[u] \in Nat /\ xml.fileNum[u] \in Nat
  BY TemplateParts DEF TypeOK, TableTypes
<1>. QED
  BY <1>1, <1>2 DEF Complete

LEMMA StepCount ==
    ASSUME TypeOK, RoundInv, WellStacked, LockOK, CountOK, [Next]_vars
    PROVE  CountOK'
<1>. USE DEF tableVars
<1>1. CASE UNCHANGED <<xml, created, full, files>> /\ (pc' = "ended" => pc = "ended")
  BY <1>1 DEF CountOK, Complete, PerFile, Producible
<1>2. CASE CheckFull
  <2>1. UNCHANGED <<xml, created, files>> /\ full' \subseteq full
    BY <1>2 DEF CheckFull
  <2>2. pc' = "ended" => \A t \in Tables : xml.id[t] \in full
    BY <1>2 DEF CheckFull, AllFull
  <2>. QED
    BY <2>1, <2>2 DEF CountOK, Complete, PerFile, Producible
<1>3. ASSUME NEW t \in Tables, Produce(t) PROVE CountOK'
  <2>1. PICK n \in Nat : InRound(n)
    BY DEF LockOK
  <2>2. /\ files[t] = n /\ \A d \in xml.deps[t] : files[d] = n + 1
        /\ xml.deps[t] = {} => created[t] < xml.fileNum[t]
    BY <1>3, <2>1, ProduceParts
  <2>3. PerFile \in {1, 2} /\ PerFile' = PerFile /\ xml' = xml /\ pc' = pc /\ pc = "visit"
    BY <1>3 DEF Produce, Entering, PerFile
  <2>4. /\ files \in [Tables -> Nat] /\ created \in [Tables -> Nat]
        /\ xml.fileNum \in [Tables -> Nat] /\ \A u \in Tables : xml.deps[u] \subseteq Tables
    BY TemplateParts DEF TypeOK, TableTypes
  <2>5. /\ files' = [files EXCEPT ![t] = @ + 1]
        /\ created' = [created EXCEPT ![t] = @ + PerFile]
        /\ full' = IF created[t] + PerFile >= xml.fileNum[t] THEN full \union {xml.id[t]} ELSE full
    BY <1>3 DEF Produce, FinishToCreateTableNum, PerFile
  <2>6. \A u \in Tables : /\ files'[u] = IF u = t THEN files[t] + 1 ELSE files[u]
                          /\ created'[u] = IF u = t THEN created[t] + PerFile ELSE created[u]
    BY <2>4, <2>5
  <2>7. ASSUME NEW u \in Tables PROVE created'[u] = PerFile * files'[u]
    <3>1. created[u] = PerFile * files[u] /\ files[u] \in Nat
      BY <2>4 DEF CountOK
    <3>2. \A p \in {1, 2}, a \in Nat : p * (a + 1) = p * a + p
      OBVIOUS
    <3>. QED
      BY <2>3, <2>6, <3>1, <3>2
  <2>8. ASSUME NEW id \in full' PROVE Complete(id)'
    <3>1. \A u \in Tables : created'[u] >= created[u] /\ created'[u] \in Nat
      BY <2>3, <2>4, <2>6
    <3>2. CASE id \in full
      BY <2>3, <3>1, <3>2, CompleteStays DEF CountOK
    <3>3. CASE id \notin full
      <4>1. id = xml.id[t] /\ created'[t] >= xml.fileNum[t]
        BY <2>5, <2>6, <2>8, <3>3
      <4>. QED
        BY <2>3, <4>1 DEF Complete
    <3>. QED
      BY <3>2, <3>3
  <2>9. ASSUME Producible, NEW u \in Tables, files'[u] > 0
        PROVE  PerFile * (files'[u] - 1) < xml.fileNum[u]
    <3>1. CASE u # t
      BY <2>6, <2>9, <3>1 DEF CountOK
    <3>2. CASE u = t /\ xml.deps[t] = {}
      <4>1. files'[t] - 1 = files[t] /\ created[t] = PerFile * files[t]
        BY <2>4, <2>6 DEF CountOK
      <4>. QED
        BY <2>2, <3>2, <4>1
    <3>3. CASE u = t /\ xml.deps[t] # {}
      <4>1. PICK d \in xml.deps[t] : TRUE
        BY <3>3
      <4>2. d \in Tables /\ files[d] = n + 1 /\ xml.fileNum[d] = xml.fileNum[t]
        BY <2>2, <2>4, <2>9, <4>1 DEF Producible
      <4>3. PerFile * (files[d] - 1) < xml.fileNum[d]
        BY <2>9, <4>2 DEF CountOK
      <4>4. files'[t] - 1 = n /\ files[d] - 1 = n
        BY <2>2, <2>6, <4>2
      <4>. QED
        BY <3>3, <4>2, <4>3, <4>4
    <3>. QED
      BY <3>1, <3>2, <3>3
  <2>10. Producible' <=> Producible
    BY <2>3 DEF Producible
  <2>. QED
    BY <2>3, <2>7, <2>8, <2>9, <2>10 DEF CountOK
<1>4. CASE WalkTable
  BY <1>1, <1>4 DEF WalkTable
<1>5. CASE EndRound
  BY <1>1, <1>5 DEF EndRound
<1>6. ASSUME NEW t \in Tables, NotifyAlldepenedTable(t), ~Produce(t) PROVE CountOK'
  BY <1>1, <1>6 DEF NotifyAlldepenedTable, Blocked, AlreadyDone, Fail, Notify, Return, Entering
<1>. QED
  BY <1>1, <1>2, <1>3, <1>4, <1>5, <1>6 DEF Next, vars

LEMMA CountSuffices ==
    ASSUME TypeOK, CountOK
    PROVE  EveryFileMade
<1>. SUFFICES ASSUME pc = "ended", Producible, NEW t \in Tables
              PROVE  files[t] = IF xml.stream THEN (xml.fileNum[t] + 1) \div 2 ELSE xml.fileNum[t]
  BY DEF EveryFileMade
<1>. DEFINE a == files[t]
            f == xml.fileNum[t]
<1>1. a \in Nat /\ f \in Nat /\ f > 0 /\ created[t] = PerFile * a
  BY TemplateParts DEF TypeOK, TableTypes, CountOK, Producible
<1>2. created[t] >= f
  <2>1. PICK u \in Tables : xml.id[u] = xml.id[t] /\ created[u] >= xml.fileNum[u]
    BY DEF CountOK, Complete
  <2>2. u = t
    BY <2>1 DEF Producible
  <2>. QED
    BY <2>1, <2>2
<1>3. a > 0 => PerFile * (a - 1) < f
  BY DEF CountOK
<1>. HIDE DEF a, f
<1>4. CASE xml.stream
  <2>1. PerFile = 2
    BY <1>4 DEF PerFile
  <2>2. 2 * a >= f /\ (a > 0 => 2 * (a - 1) < f)
    BY <1>1, <1>2, <1>3, <2>1
  <2>3. a = (f + 1) \div 2
    BY <1>1, <2>2
  <2>. QED
    BY <1>4, <2>3 DEF a, f
<1>5. CASE ~xml.stream
  <2>1. PerFile = 1
    BY <1>5 DEF PerFile
  <2>2. a >= f /\ (a > 0 => a - 1 < f)
    BY <1>1, <1>2, <1>3, <2>1
  <2>3. a = f
    BY <1>1, <2>2
  <2>. QED
    BY <1>5, <2>3 DEF a, f
<1>. QED
  BY <1>4, <1>5

(* When the thread ends, each table of a template that can be produced has *)
(* made its fileNum files, or half of them in a stream.                    *)
THEOREM AllFilesMade == Spec => []EveryFileMade
<1>. DEFINE Inv == TypeOK /\ RoundInv /\ WellStacked /\ WalkOK /\ LockOK /\ CountOK
<1>1. Init => Inv
  <2>. SUFFICES ASSUME Init PROVE Inv
    OBVIOUS
  <2>1. TypeOK /\ RoundInv
    BY InitTables DEF Init, TypeOK, ThreadTypes
  <2>2. WellStacked /\ WalkOK
    BY DEF Init, WellStacked, WalkOK
  <2>3. InRound(0)
    BY DEF Init, InRound
  <2>4. CountOK
    BY DEF Init, CountOK, PerFile
  <2>. QED
    BY <2>1, <2>2, <2>3, <2>4 DEF LockOK
<1>2. Inv /\ [Next]_vars => Inv'
  BY StepTables, StepThread, StepRound, StepStacked, StepReaches, StepLock, StepCount DEF TypeOK
<1>3. Inv => EveryFileMade
  BY CountSuffices
<1>. QED
  BY <1>1, <1>2, <1>3, PTL DEF Spec
=============================================================================
