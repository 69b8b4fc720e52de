---------------------------- MODULE RecordLayout ----------------------------
(***************************************************************************)
(* The layout of a table's rows (CXmlParser::parse_node and the stack of   *)
(* com/Comm.cc): one walk over the elements of a template gives each       *)
(* column, structure and union its offset and length, and the body of each *)
(* table the size of a row.  A row is the memory that the seed is read     *)
(* into, the columns are filled in and the lines are written from.         *)
(*                                                                         *)
(* A template is the list of its elements in the order of the walk, with   *)
(* their depths.  The recursion is the list of the elements that are open. *)
(***************************************************************************)
EXTENDS Integers, Sequences, FiniteSets, FiniteSetsExt, Functions

CONSTANTS
    Templates,    \* the templates: records [kind : sequence, depth : sequence]
    Length,       \* findNametypeLen: the types of columns and their lengths
    MaxDepth      \* MAX_STACK_DEPTH

Containers == {"interface", "table", "head", "body"}
Nested == {"struct", "union"}
\* A column without a type and an element of another kind are passed over.
Ignored == {"untyped", "other"}
Kinds == Containers \union Nested \union Ignored \union DOMAIN Length

\* m is an element below n of template t.
IsBelow(t, m, n) == n < m /\ \A k \in (n + 1)..m : t.depth[k] > t.depth[n]

\* The walk goes down from an element to its children, and has none of a column or of what it
\* passes over.  The body of a table and a structure hold fields, not another container.
WellFormed(t) ==
    /\ t.kind \in Seq(Kinds) /\ t.depth \in Seq(Nat)
    /\ Len(t.depth) = Len(t.kind)
    /\ \A n \in 2..Len(t.kind) : t.depth[n] <= t.depth[n - 1] + 1
    /\ \A n, m \in 1..Len(t.kind) : IsBelow(t, m, n) =>
          /\ t.kind[n] \in Containers \union Nested
          /\ t.kind[n] \in {"head", "body"} \union Nested => t.kind[m] \notin Containers

ASSUME LayoutAssumption ==
    /\ \A c \in DOMAIN Length : Length[c] \in Nat
    /\ DOMAIN Length \intersect (Containers \union Nested \union Ignored) = {}
    /\ \A t \in Templates : WellFormed(t)
    /\ MaxDepth \in Nat

VARIABLES
    tab,          \* the template
    pos,          \* the element the walk visits next
    open,         \* the elements whose children are visited: the calls of parse_node
    total,        \* NestedElement.total_length of the structures and unions
    offset,       \* m_offset
    structOffset, \* m_strcut_offset: one for all the structures
    unionOffset,  \* m_union_offset: one for all the unions
    at, len       \* m_offset and m_len of the elements

layout == <<tab, pos, open, total, offset, structOffset, unionOffset, at, len>>

Nodes == DOMAIN tab.kind
Kind(n) == tab.kind[n]
Below(m, n) == IsBelow(tab, m, n)
Unset == -1       \* the element has no offset yet

Init ==
    /\ tab \in Templates
    /\ pos = 1 /\ open = <<>>
    /\ total = [n \in Nodes |-> 0]
    /\ offset = 0 /\ structOffset = 0 /\ unionOffset = 0
    /\ at = [n \in Nodes |-> Unset] /\ len = [n \in Nodes |-> 0]

-----------------------------------------------------------------------------
(* The stack m_stack: the structures and unions among the open elements.   *)

\* The depth of m_stack.
Depth == Cardinality({i \in DOMAIN open : Kind(open[i]) \in Nested})

\* n is stack_top when the elements s are open.
IsTop(s, n) ==
    \E i \in DOMAIN s :
        /\ s[i] = n /\ Kind(n) \in Nested
        /\ \A j \in DOMAIN s : j > i => Kind(s[j]) \notin Nested

Larger(a, b) == IF a > b THEN a ELSE b

\* Fault: the members of a union are added up too.
WithMemberAdded(s, l) == [n \in Nodes |-> IF IsTop(s, n) THEN total[n] + l ELSE total[n]]

\* A member of length l is added to the top of the stack: a structure has the sum of its
\* members, a union the largest.
WithMember(s, l) ==
    [n \in Nodes |->
        IF ~IsTop(s, n) THEN total[n]
        ELSE IF Kind(n) = "struct" THEN total[n] + l ELSE Larger(total[n], l)]

-----------------------------------------------------------------------------
(* parse_node.                                                             *)

\* The next element is visited: it is below the last open one.
Visits(n) == n = pos /\ n \in Nodes /\ (open # <<>> => Below(n, open[Len(open)]))

\* The last open element has no more children.
Ends(n) ==
    /\ open # <<>> /\ n = open[Len(open)]
    /\ ~(pos \in Nodes /\ Below(pos, n))

Rest == SubSeq(open, 1, Len(open) - 1)

VisitColumn ==
    \E n \in Nodes :
        /\ Visits(n) /\ Kind(n) \in DOMAIN Length
        /\ at' = [at EXCEPT ![n] = offset]
        /\ len' = [len EXCEPT ![n] = Length[Kind(n)]]
        /\ offset' = offset + Length[Kind(n)]
        /\ total' = WithMember(open, Length[Kind(n)])
        /\ pos' = n + 1
        /\ UNCHANGED <<tab, open, structOffset, unionOffset>>

VisitIgnored ==
    \E n \in Nodes :
        /\ Visits(n) /\ Kind(n) \in Ignored
        /\ pos' = n + 1
        /\ UNCHANGED <<tab, open, total, offset, structOffset, unionOffset, at, len>>

Enter(n) == pos' = n + 1 /\ open' = Append(open, n)

OpenNested ==
    \E n \in Nodes :
        /\ Visits(n) /\ Kind(n) \in Nested /\ Depth < MaxDepth
        /\ Enter(n)
        /\ structOffset' = IF Kind(n) = "struct" THEN offset ELSE structOffset
        /\ unionOffset' = IF Kind(n) = "union" THEN offset ELSE unionOffset
        /\ UNCHANGED <<tab, total, offset, at, len>>

\* stack_push fails: the element and all below it are passed over, and nobody looks at the result.
StackFull ==
    \E n \in Nodes :
        /\ Visits(n) /\ Kind(n) \in Nested /\ Depth >= MaxDepth
        /\ pos' \in (n + 1)..(Len(tab.kind) + 1)
        /\ \A m \in (n + 1)..(pos' - 1) : Below(m, n)
        /\ ~(pos' \in Nodes /\ Below(pos', n))
        /\ UNCHANGED <<tab, open, total, offset, structOffset, unionOffset, at, len>>

\* Fault: the offset goes back to where the structure began.
StartOf(n) == IF Kind(n) = "struct" THEN structOffset ELSE unionOffset
CloseNestedAtStart ==
    \E n \in Nodes :
        /\ Ends(n) /\ Kind(n) \in Nested
        /\ open' = Rest
        /\ at' = [at EXCEPT ![n] = StartOf(n)]
        /\ len' = [len EXCEPT ![n] = total[n]]
        /\ offset' = StartOf(n)
        /\ total' = WithMember(Rest, total[n])
        /\ UNCHANGED <<tab, pos, structOffset, unionOffset>>

\* The element starts where the last one of its kind was entered, its own or one inside it.
CloseNested ==
    \E n \in Nodes :
        /\ Ends(n) /\ Kind(n) \in Nested
        /\ open' = Rest
        /\ at' = [at EXCEPT ![n] = StartOf(n)]
        /\ len' = [len EXCEPT ![n] = total[n]]
        /\ offset' = StartOf(n) + total[n]
        /\ total' = WithMember(Rest, total[n])
        /\ UNCHANGED <<tab, pos, structOffset, unionOffset>>

OpenContainer ==
    \E n \in Nodes :
        /\ Visits(n) /\ Kind(n) \in Containers
        /\ Enter(n)
        /\ offset' = IF Kind(n) = "body" THEN 0 ELSE offset
        /\ UNCHANGED <<tab, total, structOffset, unionOffset, at, len>>

\* The offset of a head or a body is where its last field ends: the size of a row.
CloseHeadBody ==
    \E n \in Nodes :
        /\ Ends(n) /\ Kind(n) \in {"head", "body"}
        /\ open' = Rest
        /\ at' = [at EXCEPT ![n] = offset]
        /\ UNCHANGED <<tab, pos, total, offset, structOffset, unionOffset, len>>

CloseTable ==
    \E n \in Nodes :
        /\ Ends(n) /\ Kind(n) \in {"interface", "table"}
        /\ open' = Rest
        /\ offset' = 0
        /\ UNCHANGED <<tab, pos, total, structOffset, unionOffset, at, len>>

LayoutNext ==
    \/ VisitColumn \/ VisitIgnored \/ OpenNested \/ StackFull
    \/ CloseNested \/ OpenContainer \/ CloseHeadBody \/ CloseTable

LayoutSpec == Init /\ [][LayoutNext]_layout

LaidOut == pos > Len(tab.kind) /\ open = <<>>

-----------------------------------------------------------------------------
(* What the layout promises.                                               *)

LayoutTypeOK ==
    /\ WellFormed(tab)
    /\ pos \in 1..(Len(tab.kind) + 1) /\ open \in Seq(Nodes)
    /\ total \in [Nodes -> Nat] /\ len \in [Nodes -> Nat]
    /\ at \in [Nodes -> Nat \union {Unset}]
    /\ offset \in Nat /\ structOffset \in Nat /\ unionOffset \in Nat

Children(n) == {m \in Nodes : Below(m, n) /\ tab.depth[m] = tab.depth[n] + 1}

\* No union is below b.
NoUnions(b) == \A n \in Nodes : Below(n, b) => Kind(n) # "union"
IsColumn(n) == Kind(n) \in DOMAIN Length /\ at[n] # Unset

\* Every nested element finds room on the stack.
FitsStack ==
    \A n \in Nodes : Kind(n) \in Nested =>
        Cardinality({m \in Nodes : Kind(m) \in Nested /\ Below(n, m)}) < MaxDepth

SumOf(numbers) == FoldFunction(+, 0, numbers)

\* The size of an element: of a structure that of its members, of a union that of the largest.
Size ==
    LET f[n \in Nodes] ==
            IF Kind(n) \in DOMAIN Length THEN Length[Kind(n)]
            ELSE IF Kind(n) = "struct" THEN SumOf([m \in Children(n) |-> f[m]])
            ELSE IF Kind(n) = "union" THEN Max({f[m] : m \in Children(n)} \union {0})
            ELSE 0
    IN  f

(* Every column, structure and union that the walk has left has its size   *)
(* as its length, however structures and unions are nested in each other:  *)
(* the one stack keeps the totals of all of them apart (Comm.h:548).       *)
LenIsSize == FitsStack => \A n \in Nodes : at[n] # Unset => len[n] = Size[n]

(* The columns of one body share no memory, and all of them end within the *)
(* size of its row: whatever the nesting of the structures, of which the   *)
(* walk remembers one offset only, and whatever part of the template is    *)
(* passed over because the stack is full.  Not so in a body with unions.   *)
Disjoint ==
    \A b \in Nodes : Kind(b) = "body" /\ NoUnions(b) =>
        /\ \A m, n \in Nodes :
              IsColumn(m) /\ IsColumn(n) /\ Below(m, b) /\ Below(n, b) /\ m < n =>
                  at[m] + len[m] <= at[n]
        /\ at[b] # Unset =>
              \A n \in Nodes : IsColumn(n) /\ Below(n, b) => at[n] + len[n] <= at[b]
=============================================================================
