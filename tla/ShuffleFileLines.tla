--------------------------- MODULE ShuffleFileLines ---------------------------
(***************************************************************************)
(* The shuffle of the lines of a file, CShuffleFileLines::                 *)
(* swapFileLineBymmap: the lines are listed in the order of the file; each *)
(* place of the output in turn takes one of those that are not yet used,   *)
(* by an exchange in an array of their numbers.  A line is the number it   *)
(* has in the file; what follows the last end of a line is not one, and of *)
(* a file that does not open nothing is listed.                            *)
(***************************************************************************)
EXTENDS Integers

CONSTANTS
    Count,        \* the lines of the file
    Room,         \* lines that the arrays have room for
    FillsPage     \* no zero follows the file: it fills its last page, or is empty

Sizes == Count \in Nat /\ Room \in Nat

VARIABLES
    phase,           \* "list", "swap", or how it ended
    lineCount,       \* lines that were found
    lineCountIndex,  \* the array of their numbers
    i,               \* the next place of the output
    out              \* the lines of the output

vars == <<phase, lineCount, lineCountIndex, i, out>>

Init ==
    /\ phase = "list" /\ lineCount = 0 /\ i = 0
    /\ lineCountIndex = [k \in 0..-1 |-> k]
    /\ out = [k \in 0..-1 |-> k]

\* The end of a line: its entry goes to the arrays, whether or not they have room.
ListLine ==
    /\ phase = "list" /\ lineCount < Count
    /\ IF lineCount < Room
       THEN /\ lineCount' = lineCount + 1
            /\ lineCountIndex' = [k \in 0..lineCount |-> IF k = lineCount THEN lineCount ELSE lineCountIndex[k]]
            /\ UNCHANGED phase
       ELSE phase' = "undefined" /\ UNCHANGED <<lineCount, lineCountIndex>>
    /\ UNCHANGED <<i, out>>

\* The list ends at a zero; the output may not open.
EndList ==
    /\ phase = "list" /\ lineCount = Count
    /\ phase' \in IF FillsPage THEN {"undefined"} ELSE {"swap", "failed"}
    /\ UNCHANGED <<lineCount, lineCountIndex, i, out>>

\* An exchange by three exclusive ors, which is not made of an entry with itself.
Swapped(index) ==
    [lineCountIndex EXCEPT ![index] = lineCountIndex[i], ![i] = lineCountIndex[index]]

\* The random number is taken modulo the places that are left, which is unsigned.
PutLine ==
    /\ phase = "swap" /\ i < lineCount
    /\ \E index \in i..(lineCount - 1) :
          /\ lineCountIndex' = Swapped(index)
          /\ out' = [k \in 0..i |-> IF k = i THEN lineCountIndex[index] ELSE out[k]]
    /\ i' = i + 1
    /\ UNCHANGED <<phase, lineCount>>

Finish ==
    /\ phase = "swap" /\ i = lineCount
    /\ phase' = "done"
    /\ UNCHANGED <<lineCount, lineCountIndex, i, out>>

Next == ListLine \/ EndList \/ PutLine \/ Finish

Spec == Init /\ [][Next]_vars

-----------------------------------------------------------------------------
(* The output has as many lines as the file, and each of them once.        *)
IsShuffle ==
    phase = "done" =>
        /\ DOMAIN out = 0..(Count - 1)
        /\ \A l \in 0..(Count - 1) : \E k \in 0..(Count - 1) : out[k] = l
        /\ \A j, k \in 0..(Count - 1) : j # k => out[j] # out[k]
===============================================================================
