--------------------------- MODULE TableProduction ---------------------------
(***************************************************************************)
(* The production of the tables of one interface: what the thread that     *)
(* CXmlParser::ProduceData starts does in CInterfaceObj::StartProduceData. *)
(* It works in rounds.  A round walks the tables in the order of their     *)
(* names; notifyAlldepenedTable makes the next file of a table whose       *)
(* dependencies have made theirs, then calls itself on the tables that     *)
(* depend on it.  At the end of the round every table's buffer is empty    *)
(* again.  The threads of two interfaces share no table.                   *)
(*                                                                         *)
(* The recursion is an explicit stack.  A file's rows are produced in one  *)
(* step: nothing else reads or writes the interface's tables.              *)
(***************************************************************************)
EXTENDS Integers, Sequences, FiniteSets, SequencesExt

CONSTANTS
    Tables,       \* the tables of the interface
    Order,        \* the tables by name: the order of m_mapLitealigndataObject
    Templates,    \* the templates: records of the kind of Template
    RowNum,       \* RowNum[t]: m_rownum
    MayFail       \* whether a function may fail to produce a value

(* A template is what the parser leaves in the tables: the attributes      *)
(* fileNum and tableid, and the dependencies, m_depTables and              *)
(* m_beDependedTables; with it goes the mode of the run,                   *)
(* CAlignConfig::GetStream().  The dependencies made by a parameter join   *)
(* tables of equal fileNum, those made by an attribute need not, so        *)
(* nothing about fileNum is assumed here.  m_bfullTable has 255 flags.     *)
Template ==
    {x \in [deps : [Tables -> SUBSET Tables], beDepended : [Tables -> Seq(Tables)],
            fileNum : [Tables -> Nat], id : [Tables -> 0..254], stream : BOOLEAN] :
        \A t, u \in Tables :
            t \in x.deps[u] <=> \E i \in 1..Len(x.beDepended[t]) : x.beDepended[t][i] = u}

ASSUME TemplatesAssumption ==
    /\ \A x \in Templates : x \in Template
    /\ Order \in Seq(Tables) /\ \A t \in Tables : \E i \in 1..Len(Order) : Order[i] = t
    /\ RowNum \in [Tables -> Nat \ {0}]
    /\ MayFail \in BOOLEAN

VARIABLES
    xml,          \* the template
    status,       \* status[t]: m_status
    created,      \* created[t]: m_createdTableNum
    full,         \* the tableids whose flag is set in m_bfullTable
    filled,       \* filled[t]: m_curFilledCount, m_nextFilledPosition in rows
    files,        \* files[t]: the files, or replies of the stream, t has made
    pc,           \* the thread's place
    root,         \* the walk's iterator, as an index of Order
    stack         \* calls of notifyAlldepenedTable: the table, and its iterator

tableVars == <<status, created, full, filled, files>>
vars == <<xml, tableVars, pc, root, stack>>

Init ==
    /\ xml \in Templates
    /\ status = [t \in Tables |-> "NotReady"]
    /\ created = [t \in Tables |-> 0]
    /\ full = {}
    /\ filled = [t \in Tables |-> 0]
    /\ files = [t \in Tables |-> 0]
    /\ pc = "check"
    /\ root = 1
    /\ stack = <<>>

-----------------------------------------------------------------------------
(* The rounds of StartProduceData.                                         *)

AllFull == \A t \in Tables : xml.id[t] \in full

\* checkalltheTablefull: another round, or the end.  The flags are then cleared by the
\* number in the table header, which is always 0.
CheckFull ==
    /\ pc = "check"
    /\ \/ ~AllFull /\ pc' = "walk" /\ root' = 1 /\ UNCHANGED full
       \/ AllFull /\ pc' = "ended" /\ full' = full \ {0} /\ UNCHANGED root
    /\ UNCHANGED <<xml, status, created, filled, files, stack>>

\* The walk's next table, if it still has files to make.
WalkTable ==
    /\ pc = "walk" /\ root <= Len(Order)
    /\ LET t == Order[root]
       IN  IF created[t] < xml.fileNum[t]
           THEN pc' = "visit" /\ stack' = <<[table |-> t, next |-> 0]>> /\ UNCHANGED root
           ELSE root' = root + 1 /\ UNCHANGED <<pc, stack>>
    /\ UNCHANGED <<xml, tableVars>>

\* Fault: a table that has all its files stays Done.
EndRoundKeepsDone ==
    /\ pc = "walk" /\ root > Len(Order)
    /\ status' = [t \in Tables |-> IF created[t] < xml.fileNum[t] THEN "NotReady" ELSE status[t]]
    /\ filled' = [t \in Tables |-> 0]
    /\ pc' = "check"
    /\ UNCHANGED <<xml, created, full, files, root, stack>>

\* The end of a round: every table starts again from an empty buffer.
EndRound ==
    /\ pc = "walk" /\ root > Len(Order)
    /\ status' = [t \in Tables |-> "NotReady"]
    /\ filled' = [t \in Tables |-> 0]
    /\ pc' = "check"
    /\ UNCHANGED <<xml, created, full, files, root, stack>>

-----------------------------------------------------------------------------
(* notifyAlldepenedTable.                                                  *)

Top == stack[Len(stack)]

\* A call returns: to its caller, or to the walk.
Return ==
    IF Len(stack) = 1
    THEN stack' = <<>> /\ pc' = "walk" /\ root' = root + 1
    ELSE stack' = Front(stack) /\ UNCHANGED <<pc, root>>

\* The call looks at the next of the tables that depend on t.
NextDependent == stack' = [stack EXCEPT ![Len(stack)].next = @ + 1]

\* Fault: one dependency that is Done is enough.
CheckedStatusAny(t) ==
    IF xml.deps[t] # {} /\ \A d \in xml.deps[t] : status[d] # "Done" THEN "NotReady"
    ELSE IF status[t] = "NotReady" THEN "Ready"
    ELSE status[t]

\* Fault: a table that is Done is Ready again.
CheckedStatusForgets(t) ==
    IF \E d \in xml.deps[t] : status[d] # "Done" THEN "NotReady" ELSE "Ready"

\* checkStatus: what m_status becomes when the call begins.
CheckedStatus(t) ==
    IF \E d \in xml.deps[t] : status[d] # "Done" THEN "NotReady"
    ELSE IF status[t] = "NotReady" THEN "Ready"
    ELSE status[t]

Entering(t) == pc = "visit" /\ Top.table = t /\ Top.next = 0

\* Fault: the tables that depend on t are told in any case.
BlockedGoesOn(t) ==
    /\ Entering(t) /\ CheckedStatus(t) = "NotReady"
    /\ status' = [status EXCEPT ![t] = "NotReady"]
    /\ NextDependent
    /\ UNCHANGED <<xml, created, full, filled, files, pc, root>>

\* A dependency is still to come: nothing is made, and nobody is told.
Blocked(t) ==
    /\ Entering(t) /\ CheckedStatus(t) = "NotReady"
    /\ status' = [status EXCEPT ![t] = "NotReady"]
    /\ Return
    /\ UNCHANGED <<xml, created, full, filled, files>>

\* The table has made its file of this round.
AlreadyDone(t) ==
    /\ Entering(t) /\ CheckedStatus(t) = "Done"
    /\ NextDependent
    /\ UNCHANGED <<xml, tableVars, pc, root>>

\* Fault: the count is taken as complete one file early.
FinishEarly(t, n) ==
    /\ created' = [created EXCEPT ![t] = @ + n]
    /\ full' = IF created[t] + n + 1 >= xml.fileNum[t] THEN full \union {xml.id[t]} ELSE full

\* Fault: the flag waits for one file more.
FinishLate(t, n) ==
    /\ created' = [created EXCEPT ![t] = @ + n]
    /\ full' = IF created[t] + n > xml.fileNum[t] THEN full \union {xml.id[t]} ELSE full

\* finishtoCreateTableNum, called n times.
FinishToCreateTableNum(t, n) ==
    /\ created' = [created EXCEPT ![t] = @ + n]
    /\ full' = IF created[t] + n >= xml.fileNum[t] THEN full \union {xml.id[t]} ELSE full

\* createTableData or streamTableData: all the rows, then the file.  In stream mode the
\* file is counted by SendTableData and once more by streamTableData.
Produce(t) ==
    /\ Entering(t) /\ CheckedStatus(t) = "Ready"
    /\ filled' = [filled EXCEPT ![t] = @ + RowNum[t]]
    /\ files' = [files EXCEPT ![t] = @ + 1]
    /\ FinishToCreateTableNum(t, IF xml.stream THEN 2 ELSE 1)
    /\ status' = [status EXCEPT ![t] = "Done"]
    /\ NextDependent
    /\ UNCHANGED <<xml, pc, root>>

\* A row can't be produced: every call returns false, and the thread ends.
Fail(t) ==
    /\ MayFail
    /\ Entering(t) /\ CheckedStatus(t) = "Ready"
    /\ status' = [status EXCEPT ![t] = "Ready"]
    /\ \E r \in 0..(RowNum[t] - 1) : filled' = [filled EXCEPT ![t] = @ + r]
    /\ pc' = "failed"
    /\ stack' = <<>>
    /\ UNCHANGED <<xml, created, full, files, root>>

\* The call goes on with the tables that depend on t.
Notify(t) ==
    /\ pc = "visit" /\ Top.table = t /\ Top.next > 0
    /\ IF Top.next <= Len(xml.beDepended[t])
       THEN /\ stack' = Append([stack EXCEPT ![Len(stack)].next = @ + 1],
                               [table |-> xml.beDepended[t][Top.next], next |-> 0])
            /\ UNCHANGED <<pc, root>>
       ELSE Return
    /\ UNCHANGED <<xml, tableVars>>

NotifyAlldepenedTable(t) == Blocked(t) \/ AlreadyDone(t) \/ Produce(t) \/ Fail(t) \/ Notify(t)

-----------------------------------------------------------------------------
Next ==
    \/ CheckFull
    \/ WalkTable
    \/ EndRound
    \/ \E t \in Tables : NotifyAlldepenedTable(t)

Spec == Init /\ [][Next]_vars

\* The thread runs, and a function that may fail need not.
FairSpec == Spec /\ WF_vars(Next)

-----------------------------------------------------------------------------
(* Properties.                                                             *)

TableTypes ==
    /\ xml \in Templates
    /\ status \in [Tables -> {"NotReady", "Ready", "Done"}]
    /\ created \in [Tables -> Nat]
    /\ full \in SUBSET (0..254)
    /\ filled \in [Tables -> Nat]
    /\ files \in [Tables -> Nat]

ThreadTypes ==
    /\ pc \in {"check", "walk", "visit", "ended", "failed"}
    /\ root \in Nat \ {0}
    /\ stack \in Seq([table : Tables, next : Nat])
    /\ pc = "visit" <=> stack # <<>>

(* The variables keep their types; in particular the thread is inside      *)
(* notifyAlldepenedTable exactly while a call is on the stack.             *)
TypeOK == TableTypes /\ ThreadTypes

(* No row is written past the end of a table's buffer m_pData, which has   *)
(* room for m_rownum rows: however often a round reaches a table, by name  *)
(* or from the tables it depends on, it makes one file of it at most.      *)
RowsFit == \A t \in Tables : filled[t] <= RowNum[t]

(* A table that has rows in this round took them from dependencies whose   *)
(* rows of this round were all there.                                      *)
ReadsThisRound ==
    \A t \in Tables : filled[t] > 0 => \A d \in xml.deps[t] : filled[d] = RowNum[d]

(* What a table's status says of its buffer: empty, given up halfway, or   *)
(* full of this round's rows, which a table has after its dependencies.    *)
RoundInv ==
    \A t \in Tables :
        /\ status[t] = "NotReady" => filled[t] = 0
        /\ status[t] = "Ready" => filled[t] < RowNum[t] /\ pc = "failed"
        /\ status[t] = "Done" => filled[t] = RowNum[t]
        /\ status[t] # "NotReady" => \A d \in xml.deps[t] : status[d] = "Done"

(* The recursion is as deep as the tables are many at most, cycles of      *)
(* dependencies included.                                                  *)
StackBounded == Len(stack) <= Cardinality(Tables)

Rounds == INSTANCE LockStep WITH deps <- xml.deps, made <- files

(* The n-th file of a table is made from the rows of the n-th file of the  *)
(* tables it depends on.                                                   *)
InLockStep == Rounds!LockStepSpec

\* A template that can be produced: no cycle, the same positive fileNum along every
\* dependency, a tableid of its own for each table.
Producible ==
    /\ \E level \in [Tables -> 1..Cardinality(Tables)] :
         \A t \in Tables : \A d \in xml.deps[t] : level[d] < level[t]
    /\ \A t \in Tables : xml.fileNum[t] > 0 /\ \A d \in xml.deps[t] : xml.fileNum[d] = xml.fileNum[t]
    /\ \A t, u \in Tables : xml.id[t] = xml.id[u] => t = u

(* The loop of StartProduceData ends for every template that can be        *)
(* produced, unless a function fails.                                      *)
ProductionEnds == Producible ~> pc \in {"ended", "failed"}

(* When it ends, every table has made its fileNum files: no more, no less. *)
(* A stream counts each file twice, and makes half of them, rounded up.    *)
EveryFileMade ==
    pc = "ended" /\ Producible =>
        \A t \in Tables :
            files[t] = IF xml.stream THEN (xml.fileNum[t] + 1) \div 2 ELSE xml.fileNum[t]

(* Claims of the repository that the code does not keep.                   *)

(* TableObject.h:173, "all the files ( %s: %s ) have been generated!": the *)
(* flag set with this message means that fileNum files have been made.     *)
FullMeansAllFiles ==
    \A t \in Tables : Producible /\ xml.id[t] \in full => files[t] >= xml.fileNum[t]
=============================================================================
