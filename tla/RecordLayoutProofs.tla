------------------------- MODULE RecordLayoutProofs -------------------------
(***************************************************************************)
(* Proofs about RecordLayout, for every set of templates, every table of   *)
(* lengths and every depth of the stack: the state has its types, the      *)
(* columns of a body without unions share no memory and end within the     *)
(* size of its row, and an element that was left has its size.             *)
(*                                                                         *)
(* The walk remembers one offset for all the structures that are open, so  *)
(* that the end of a structure may be put too far, never too near: what is *)
(* laid out of the innermost structure is not longer than its total, and   *)
(* its end is computed from the last structure that was entered.           *)
(*                                                                         *)
(* The total of an open structure is the sum of its children that were     *)
(* left, that of a union the largest of them: a child that is open is not  *)
(* counted yet, and the one that is left is counted at the parent of it,   *)
(* which is the next on the stack.                                         *)
(*                                                                         *)
(* About RecordText: a seed is read within the memory of its lines, and    *)
(* one of numbers and texts comes out as it went in.  The calls to come    *)
(* are in the order of the body, so that the columns that are still to be  *)
(* read or written are those at or behind the first call; the pointer is   *)
(* never behind the place of one of them, and it is exactly at the place   *)
(* of the next if the row is as long as its columns.                       *)
(* Every line of a file has as many values as its header has names: the    *)
(* values that were written and the names of the calls to come are always  *)
(* as many.                                                                *)
(***************************************************************************)
EXTENDS RecordText, SequenceTheorems, FiniteSetTheorems, WellFoundedInduction, TLAPS

Types ==
    /\ tab \in Templates
    /\ pos \in 1..(Len(tab.kind) + 1) /\ open \in Seq(Nodes)
    /\ total \in [Nodes -> Nat] /\ len \in [Nodes -> Nat]
    /\ at \in [Nodes -> Nat \union {Unset}]
    /\ offset \in Nat /\ structOffset \in Nat /\ unionOffset \in Nat

(* The open elements are behind each other, and all that was visited since *)
(* one of them was opened is below it.                                     *)
Chain ==
    /\ \A i \in DOMAIN open :
          open[i] < pos /\ \A k \in (open[i] + 1)..(pos - 1) : tab.depth[k] > tab.depth[open[i]]
    /\ \A i, j \in DOMAIN open : i < j => open[i] < open[j]

IsOpen(n) == \E i \in DOMAIN open : open[i] = n

(* Elements that are not visited or not left have no offset.               *)
Fresh ==
    \A n \in Nodes : n >= pos \/ (IsOpen(n) /\ Kind(n) \notin DOMAIN Length) => at[n] = Unset

(* The walk has passed all that is below an element it has left.           *)
Passed ==
    \A b \in Nodes : b < pos =>
        IsOpen(b) \/ \A n \in Nodes : Below(n, b) => n < pos

(* The innermost structure ends behind what is laid out, wherever its      *)
(* start is taken to be.                                                   *)
Room ==
    \A b, n \in Nodes :
        Kind(b) = "body" /\ NoUnions(b) /\ Below(n, b) /\ IsTop(open, n) =>
            offset <= structOffset + total[n]

(* The columns of a body that is open end before the offset.               *)
Packed ==
    \A b, n \in Nodes :
        Kind(b) = "body" /\ NoUnions(b) /\ IsOpen(b) /\ Below(n, b) /\ IsColumn(n) =>
            at[n] + len[n] <= offset

Finished(n) == n < pos /\ ~IsOpen(n)
Done(n) == {m \in Children(n) : Finished(m)}
IsLargest(x, T) == x \in T /\ \A y \in T : y <= x

(* What is above an open element is open.                                  *)
OpenAbove == \A n, k \in Nodes : IsOpen(n) /\ Below(n, k) => IsOpen(k)

(* The total of a structure or a union is that of the members that were    *)
(* left, and the length of what was left is its size.                      *)
Summed(n) ==
    /\ Finished(n) => Size[n] \in Nat
    /\ Kind(n) = "struct" => total[n] = SumOf([m \in Done(n) |-> Size[m]])
    /\ Kind(n) = "union" => IsLargest(total[n], {Size[m] : m \in Done(n)} \union {0})

Measured(n) == len[n] = IF at[n] = Unset THEN 0 ELSE Size[n]

Totals == FitsStack => \A n \in Nodes : Summed(n) /\ Measured(n)

IInv == Types /\ Chain /\ Fresh /\ Passed /\ OpenAbove /\ Room /\ Packed /\ Disjoint /\ Totals

-----------------------------------------------------------------------------
(* Templates and sequences.                                                *)

(* The parts of a template.                                                *)
LEMMA TemplateParts ==
    ASSUME NEW t \in Templates
    PROVE  /\ t.kind \in Seq(Kinds) /\ t.depth \in Seq(Nat) /\ Len(t.depth) = Len(t.kind)
           /\ Len(t.kind) \in Nat
           /\ DOMAIN t.kind = 1..Len(t.kind) /\ DOMAIN t.depth = 1..Len(t.kind)
           /\ \A n \in DOMAIN t.kind : t.depth[n] \in Nat
           /\ \A n \in 2..Len(t.kind) : t.depth[n] <= t.depth[n - 1] + 1
           /\ \A n, m \in DOMAIN t.kind : IsBelow(t, m, n) =>
                /\ t.kind[n] \in Containers \union Nested
                /\ t.kind[n] \in {"head", "body"} \union Nested => t.kind[m] \notin Containers
<1>1. WellFormed(t)
    BY LayoutAssumption
<1>2. t.kind \in Seq(Kinds) /\ t.depth \in Seq(Nat) /\ Len(t.depth) = Len(t.kind)
    BY <1>1 DEF WellFormed
<1>3. /\ Len(t.kind) \in Nat /\ DOMAIN t.kind = 1..Len(t.kind) /\ DOMAIN t.depth = 1..Len(t.kind)
      /\ \A n \in DOMAIN t.kind : t.depth[n] \in Nat
    BY <1>2
<1>4. /\ \A n \in 2..Len(t.kind) : t.depth[n] <= t.depth[n - 1] + 1
      /\ \A n, m \in DOMAIN t.kind : IsBelow(t, m, n) =>
            /\ t.kind[n] \in Containers \union Nested
            /\ t.kind[n] \in {"head", "body"} \union Nested => t.kind[m] \notin Containers
    BY <1>1, <1>3 DEF WellFormed
<1> QED
    BY <1>2, <1>3, <1>4

(* The numbers of the elements and their depths.                           *)
LEMMA NodeParts ==
    ASSUME Types
    PROVE  /\ Nodes = 1..Len(tab.kind) /\ Len(tab.kind) \in Nat
           /\ \A n \in Nodes : tab.depth[n] \in Nat
           /\ pos \in Nat \ {0} /\ pos <= Len(tab.kind) + 1
BY TemplateParts DEF Types, Nodes

(* Nothing is below a column or what is passed over, and no container is   *)
(* below a structure or a union.                                           *)
LEMMA LeafHasNone ==
    ASSUME Types, NEW n \in Nodes
    PROVE  /\ Kind(n) \in DOMAIN Length \union Ignored => \A m \in Nodes : ~Below(m, n)
           /\ Kind(n) \in Nested => \A m \in Nodes : Below(m, n) => Kind(m) \notin Containers
<1>1. Kind(n) \in DOMAIN Length \union Ignored => Kind(n) \notin Containers \union Nested
    BY LayoutAssumption DEF Containers, Nested, Ignored
<1> QED
    BY <1>1, TemplateParts DEF Types, Nodes, Kind, Below

(* What is below has the larger number and the larger depth.               *)
LEMMA BelowDepth ==
    ASSUME Types, NEW a \in Nodes, NEW b \in Nodes, Below(b, a)
    PROVE  a < b /\ tab.depth[b] > tab.depth[a]
<1>1. a \in Int /\ b \in Int /\ a < b
    BY NodeParts DEF Below, IsBelow
<1>2. b \in (a + 1)..b
    BY <1>1
<1> QED
    BY <1>1, <1>2 DEF Below, IsBelow

(* Below is transitive.                                                    *)
LEMMA BelowBelow ==
    ASSUME Types, NEW a \in Nodes, NEW b \in Nodes, NEW c \in Nodes, Below(b, a), Below(c, b)
    PROVE  Below(c, a)
<1>1. a \in Int /\ b \in Int /\ c \in Int /\ a < b /\ b < c
    BY NodeParts DEF Below, IsBelow
<1>2. /\ \A k \in (a + 1)..b : tab.depth[k] > tab.depth[a]
      /\ \A k \in (b + 1)..c : tab.depth[k] > tab.depth[b]
    BY DEF Below, IsBelow
<1>3. ASSUME NEW k \in (a + 1)..c
      PROVE  tab.depth[k] > tab.depth[a]
    <2>1. k \in Nodes
        BY <1>1, <1>3, NodeParts
    <2>2. tab.depth[k] \in Nat /\ tab.depth[a] \in Nat /\ tab.depth[b] \in Nat
        BY <2>1, NodeParts
    <2>3. tab.depth[b] > tab.depth[a]
        BY <1>1, <1>2
    <2>4. k \in (a + 1)..b \/ k \in (b + 1)..c
        BY <1>1, <1>3
    <2> QED
        BY <2>2, <2>3, <2>4, <1>2
<1> QED
    BY <1>1, <1>3 DEF Below, IsBelow

(* The elements that remain open when the last is left.                    *)
LEMMA RestIs ==
    ASSUME open \in Seq(Nodes), open # <<>>
    PROVE  /\ Rest \in Seq(Nodes) /\ Len(Rest) = Len(open) - 1 /\ DOMAIN Rest = 1..(Len(open) - 1)
           /\ Len(open) \in Nat \ {0} /\ DOMAIN open = 1..Len(open)
           /\ \A i \in DOMAIN Rest : Rest[i] = open[i]
<1>1. /\ Len(open) \in Nat \ {0} /\ DOMAIN open = 1..Len(open)
      /\ \A i \in 1..(Len(open) - 1) : open[i] \in Nodes
    OBVIOUS
<1>2. /\ Rest \in Seq(Nodes) /\ Len(Rest) = Len(open) - 1
      /\ \A i \in 1..(Len(open) - 1) : Rest[i] = open[i]
    BY <1>1, SubSeqProperties DEF Rest
<1> QED
    BY <1>1, <1>2

(* The elements that are open when n is entered.                           *)
LEMMA EnteredIs ==
    ASSUME open \in Seq(Nodes), NEW n \in Nodes
    PROVE  /\ Append(open, n) \in Seq(Nodes) /\ Len(open) \in Nat
           /\ DOMAIN Append(open, n) = 1..(Len(open) + 1) /\ DOMAIN open = 1..Len(open)
           /\ \A i \in DOMAIN open : Append(open, n)[i] = open[i]
           /\ Append(open, n)[Len(open) + 1] = n
OBVIOUS

(* The top of the stack after a call and after a return.                   *)
LEMMA TopEntered ==
    ASSUME open \in Seq(Nodes), NEW n \in Nodes, NEW m \in Nodes, IsTop(Append(open, n), m)
    PROVE  IF Kind(n) \in Nested THEN m = n ELSE IsTop(open, m)
BY EnteredIs DEF IsTop

LEMMA TopLeft ==
    ASSUME open \in Seq(Nodes), open # <<>>, Kind(open[Len(open)]) \notin Nested,
           NEW m \in Nodes, IsTop(Rest, m)
    PROVE  IsTop(open, m)
BY RestIs DEF IsTop

(* The totals of the stack keep their type; the top of a stack of          *)
(* structures grows by the length of the member.                           *)
LEMMA MemberAdded ==
    ASSUME Types, NEW s \in Seq(Nodes), NEW l \in Nat
    PROVE  /\ WithMember(s, l) \in [Nodes -> Nat]
           /\ \A n \in Nodes : IsTop(s, n) /\ Kind(n) # "union" => WithMember(s, l)[n] = total[n] + l
BY DEF Types, WithMember, IsTop, Larger, Nested

(* What is visited is below every open element.                            *)
LEMMA VisitedIsBelow ==
    ASSUME Types, Chain, NEW n \in Nodes, Visits(n), NEW i \in DOMAIN open
    PROVE  Below(n, open[i]) /\ open[i] \in Nodes /\ open[i] < n
<1>1. Len(open) \in DOMAIN open /\ open[i] \in Nodes /\ open[Len(open)] \in Nodes
    BY DEF Types
<1>2. Below(n, open[Len(open)]) /\ n = pos
    BY <1>1 DEF Visits, Types
<1>3. open[i] < pos /\ \A k \in (open[i] + 1)..(pos - 1) : tab.depth[k] > tab.depth[open[i]]
    BY DEF Chain
<1>4. i = Len(open) \/ open[i] < open[Len(open)]
    BY <1>1 DEF Chain, Types
<1>5. CASE i = Len(open)
    BY <1>5, <1>1, <1>2, <1>3
<1>6. CASE open[i] < open[Len(open)]
    <2>1. open[Len(open)] < pos
        BY <1>1 DEF Chain
    <2>2. Below(open[Len(open)], open[i])
        BY <2>1, <1>1, <1>3, <1>6, NodeParts DEF Below, IsBelow
    <2> QED
        BY <2>2, <1>1, <1>2, <1>3, BelowBelow
<1> QED
    BY <1>4, <1>5, <1>6

(* The last open element is below the others.                              *)
LEMMA LastIsBelow ==
    ASSUME Types, Chain, NEW n \in Nodes, Ends(n), NEW i \in DOMAIN Rest
    PROVE  Below(n, Rest[i]) /\ Rest[i] \in Nodes /\ Rest[i] # n
<1>1. /\ Len(open) \in DOMAIN open /\ i \in DOMAIN open /\ i < Len(open)
      /\ Rest[i] = open[i] /\ open[i] \in Nodes /\ n = open[Len(open)]
    <2>1. open \in Seq(Nodes) /\ open # <<>> /\ n = open[Len(open)]
        BY DEF Types, Ends
    <2> QED
        BY <2>1, RestIs
<1>2. open[i] < n /\ n < pos
    BY <1>1 DEF Chain
<1>3. \A k \in (open[i] + 1)..(pos - 1) : tab.depth[k] > tab.depth[open[i]]
    BY <1>1 DEF Chain
<1> QED
    BY <1>1, <1>2, <1>3, NodeParts DEF Below, IsBelow

(* Nothing unvisited is below an element that is left or passed over.      *)
LEMMA NothingBehind ==
    ASSUME Types, NEW n \in Nodes, NEW p \in Nat, n < p,
           ~(p \in Nodes /\ Below(p, n)),
           NEW b \in Nodes, b = n \/ Below(b, n), b < p, NEW m \in Nodes, Below(m, b)
    PROVE  m < p
<1> SUFFICES ASSUME m >= p
             PROVE  FALSE
    BY NodeParts
<1>1. Below(m, n)
    BY BelowBelow
<1>2. p \in Nodes
    BY NodeParts
<1>3. Below(p, n)
    BY <1>1, <1>2, NodeParts DEF Below, IsBelow
<1> QED
    BY <1>2, <1>3

-----------------------------------------------------------------------------
(* The steps.                                                              *)

(* The operators over the template do not change with a step.              *)
LEMMA Constant ==
    ASSUME LayoutNext
    PROVE  tab' = tab
BY DEF LayoutNext, VisitColumn, VisitIgnored, OpenNested, StackFull, CloseNested, OpenContainer,
       CloseHeadBody, CloseTable

LEMMA TypesStep ==
    ASSUME Types, LayoutNext
    PROVE  Types'
<1>1. Nodes' = Nodes /\ tab' = tab
    BY Constant DEF Nodes
<1>2. CASE VisitColumn
    <2>1. PICK n \in Nodes :
              /\ Visits(n) /\ Kind(n) \in DOMAIN Length
              /\ at' = [at EXCEPT ![n] = offset]
              /\ len' = [len EXCEPT ![n] = Length[Kind(n)]]
              /\ offset' = offset + Length[Kind(n)]
              /\ total' = WithMember(open, Length[Kind(n)])
              /\ pos' = n + 1
              /\ UNCHANGED <<tab, open, structOffset, unionOffset>>
        BY <1>2 DEF VisitColumn
    <2>2. Length[Kind(n)] \in Nat
        BY <2>1, LayoutAssumption
    <2>3. open \in Seq(Nodes)
        BY DEF Types
    <2>4. total' \in [Nodes -> Nat]
        BY <2>1, <2>2, <2>3, MemberAdded
    <2>5. pos' \in 1..(Len(tab'.kind) + 1)
        BY <1>1, <2>1, NodeParts
    <2>6. at' \in [Nodes -> Nat \union {Unset}] /\ len' \in [Nodes -> Nat]
        BY <2>1, <2>2 DEF Types
    <2> QED
        BY <1>1, <2>1, <2>2, <2>4, <2>5, <2>6 DEF Types
<1>3. CASE VisitIgnored
    <2>1. pos' \in 1..(Len(tab'.kind) + 1)
        BY <1>1, <1>3, NodeParts DEF VisitIgnored
    <2> QED
        BY <1>1, <1>3, <2>1 DEF Types, VisitIgnored
<1>4. CASE OpenNested
    <2>1. pos' \in 1..(Len(tab'.kind) + 1)
        BY <1>1, <1>4, NodeParts DEF OpenNested, Enter
    <2> QED
        BY <1>1, <1>4, <2>1 DEF Types, OpenNested, Enter
<1>5. CASE StackFull
    <2>1. pos' \in 1..(Len(tab'.kind) + 1)
        BY <1>1, <1>5, NodeParts DEF StackFull
    <2> QED
        BY <1>1, <1>5, <2>1 DEF Types, StackFull
<1>6. CASE CloseNested
    <2>1. PICK n \in Nodes :
              /\ Ends(n)
              /\ open' = Rest
              /\ at' = [at EXCEPT ![n] = StartOf(n)]
              /\ len' = [len EXCEPT ![n] = total[n]]
              /\ offset' = StartOf(n) + total[n]
              /\ total' = WithMember(Rest, total[n])
              /\ UNCHANGED <<tab, pos, structOffset, unionOffset>>
        BY <1>6 DEF CloseNested
    <2>2. Rest \in Seq(Nodes)
        BY <2>1, RestIs DEF Types, Ends
    <2>3. total[n] \in Nat /\ StartOf(n) \in Nat
        BY DEF Types, StartOf
    <2>4. total' \in [Nodes -> Nat]
        BY <2>1, <2>2, <2>3, MemberAdded
    <2>5. at' \in [Nodes -> Nat \union {Unset}] /\ len' \in [Nodes -> Nat]
        BY <2>1, <2>3 DEF Types
    <2>6. pos' \in 1..(Len(tab'.kind) + 1)
        BY <1>1, <2>1 DEF Types
    <2> QED
        BY <1>1, <2>1, <2>2, <2>3, <2>4, <2>5, <2>6 DEF Types
<1>7. CASE OpenContainer
    <2>1. pos' \in 1..(Len(tab'.kind) + 1)
        BY <1>1, <1>7, NodeParts DEF OpenContainer, Enter
    <2> QED
        BY <1>1, <1>7, <2>1 DEF Types, OpenContainer, Enter
<1>8. CASE CloseHeadBody
    <2>1. Rest \in Seq(Nodes)
        BY <1>8, RestIs DEF Types, Ends, CloseHeadBody
    <2> QED
        BY <1>1, <1>8, <2>1 DEF Types, CloseHeadBody
<1>9. CASE CloseTable
    <2>1. Rest \in Seq(Nodes)
        BY <1>9, RestIs DEF Types, Ends, CloseTable
    <2> QED
        BY <1>1, <1>9, <2>1 DEF Types, CloseTable
<1> QED
    BY <1>2, <1>3, <1>4, <1>5, <1>6, <1>7, <1>8, <1>9 DEF LayoutNext

(* A step goes on to an element and enters it or not, passes over all that *)
(* is below an element, or leaves the last open one.                       *)
Entering(n) == Visits(n) /\ pos' = n + 1 /\ open' = Append(open, n)
Passing(n) ==
    /\ Visits(n) /\ open' = open
    /\ pos' \in (n + 1)..(Len(tab.kind) + 1)
    /\ \A m \in (n + 1)..(pos' - 1) : Below(m, n)
Leaving(n) == Ends(n) /\ pos' = pos /\ open' = Rest

LEMMA ChainEntering ==
    ASSUME Types, Chain, tab' = tab, NEW n \in Nodes, Entering(n)
    PROVE  Chain'
<1>1. /\ DOMAIN open' = 1..(Len(open) + 1) /\ DOMAIN open = 1..Len(open) /\ Len(open) \in Nat
      /\ \A i \in DOMAIN open : open'[i] = open[i] /\ open[i] \in Nodes
      /\ open'[Len(open) + 1] = n
    BY EnteredIs DEF Entering, Types
<1>2. pos = n /\ pos' = n + 1 /\ n \in Nat
    BY NodeParts DEF Entering, Visits
<1>3. \A i \in DOMAIN open :
          open[i] < n /\ \A k \in (open[i] + 1)..n : tab.depth[k] > tab.depth[open[i]]
    BY VisitedIsBelow DEF Entering, Below, IsBelow
<1>4. ASSUME NEW i \in DOMAIN open'
      PROVE  /\ open'[i] < pos'
             /\ \A k \in (open'[i] + 1)..(pos' - 1) : tab'.depth[k] > tab'.depth[open'[i]]
    <2>1. CASE i \in DOMAIN open
        BY <2>1, <1>1, <1>2, <1>3, NodeParts
    <2>2. CASE i = Len(open) + 1
        BY <2>2, <1>1, <1>2
    <2> QED
        BY <2>1, <2>2, <1>1
<1>5. ASSUME NEW i \in DOMAIN open', NEW j \in DOMAIN open', i < j
      PROVE  open'[i] < open'[j]
    <2>1. CASE j \in DOMAIN open
        BY <2>1, <1>1, <1>5 DEF Chain
    <2>2. CASE j = Len(open) + 1
        BY <2>2, <1>1, <1>3, <1>5
    <2> QED
        BY <2>1, <2>2, <1>1
<1> QED
    BY <1>4, <1>5 DEF Chain

(* A bound of an interval.                                                 *)
LEMMA Between ==
    ASSUME NEW n \in Int, NEW k \in Int, NEW p \in Int, n < k, k < p
    PROVE  k \in (n + 1)..(p - 1)
OBVIOUS

LEMMA ChainPassing ==
    ASSUME Types, Chain, tab' = tab, NEW n \in Nodes, Passing(n)
    PROVE  Chain'
<1>1. pos' \in Nat /\ n < pos' /\ n \in Nat /\ pos' <= Len(tab.kind) + 1
    BY NodeParts DEF Passing, Visits
<1>a. pos = n /\ open' = open
    BY DEF Passing, Visits
<1>2. ASSUME NEW i \in DOMAIN open
      PROVE  /\ open[i] < pos'
             /\ \A k \in (open[i] + 1)..(pos' - 1) : tab.depth[k] > tab.depth[open[i]]
    <2>1. Below(n, open[i]) /\ open[i] \in Nodes /\ open[i] < n /\ open[i] \in Nat
        BY VisitedIsBelow, NodeParts DEF Passing
    <2>2. ASSUME NEW k \in Int, open[i] < k, k < pos'
          PROVE  tab.depth[k] > tab.depth[open[i]]
        <3>1. k \in Nodes
            BY <1>1, <2>1, <2>2, NodeParts
        <3>2. CASE k <= n
            BY <3>2, <2>1, <1>1, <2>2 DEF Below, IsBelow
        <3>3. CASE k > n
            <4>1. k \in (n + 1)..(pos' - 1)
                <5>1. n < k /\ k < pos' /\ n \in Int /\ pos' \in Int
                    BY <3>3, <2>2, <1>1
                <5> QED
                    BY ONLY <5>1, k \in Int, Between
            <4>2. Below(k, n)
                BY <4>1 DEF Passing
            <4>3. Below(k, open[i])
                BY <4>2, <2>1, <3>1, BelowBelow
            <4> QED
                BY <4>3, <3>1, <2>1, BelowDepth
        <3> QED
            BY <3>2, <3>3, <1>1, <2>2
    <2>3. open[i] < pos'
        BY <2>1, <1>1
    <2> QED
        BY <1>1, <2>1, <2>2, <2>3
<1> QED
    BY <1>a, <1>2 DEF Chain

LEMMA ChainLeaving ==
    ASSUME Types, Chain, tab' = tab, NEW n \in Nodes, Leaving(n)
    PROVE  Chain'
<1>1. /\ open' = Rest /\ pos' = pos /\ DOMAIN open' \subseteq DOMAIN open
      /\ \A i \in DOMAIN open' : open'[i] = open[i]
    BY RestIs DEF Leaving, Types, Ends
<1> QED
    BY <1>1 DEF Chain

(* Every step is one of the three.                                         *)
LEMMA StepForms ==
    ASSUME Types, LayoutNext
    PROVE  \E n \in Nodes : Entering(n) \/ Passing(n) \/ Leaving(n)
<1>1. CASE VisitColumn \/ VisitIgnored
    <2>1. PICK n \in Nodes : Visits(n) /\ pos' = n + 1 /\ open' = open
        BY <1>1 DEF VisitColumn, VisitIgnored
    <2> QED
        BY <2>1, NodeParts DEF Passing
<1>2. CASE OpenNested \/ OpenContainer
    BY <1>2 DEF OpenNested, OpenContainer, Enter, Entering
<1>3. CASE StackFull
    BY <1>3 DEF StackFull, Passing
<1>4. CASE CloseNested \/ CloseHeadBody \/ CloseTable
    BY <1>4 DEF CloseNested, CloseHeadBody, CloseTable, Leaving
<1> QED
    BY <1>1, <1>2, <1>3, <1>4 DEF LayoutNext

LEMMA ChainStep ==
    ASSUME Types, Chain, LayoutNext
    PROVE  Chain'
BY StepForms, Constant, ChainEntering, ChainPassing, ChainLeaving

(* The open elements after a step.                                         *)
LEMMA OpenEntered ==
    ASSUME Types, NEW n \in Nodes, Entering(n), NEW m \in Nodes
    PROVE  IsOpen(m)' <=> IsOpen(m) \/ m = n
<1>1. /\ DOMAIN open' = 1..(Len(open) + 1) /\ DOMAIN open = 1..Len(open) /\ Len(open) \in Nat
      /\ \A i \in DOMAIN open : open'[i] = open[i]
      /\ open'[Len(open) + 1] = n
    BY EnteredIs DEF Entering, Types
<1> QED
    BY <1>1 DEF IsOpen

LEMMA OpenLeft ==
    ASSUME Types, Chain, NEW n \in Nodes, Leaving(n), NEW m \in Nodes
    PROVE  IsOpen(m)' <=> IsOpen(m) /\ m # n
<1>1. /\ open' = Rest /\ DOMAIN open = 1..Len(open) /\ Len(open) \in Nat \ {0}
      /\ DOMAIN Rest = 1..(Len(open) - 1) /\ \A i \in DOMAIN Rest : Rest[i] = open[i]
      /\ n = open[Len(open)] /\ Ends(n)
    BY RestIs DEF Leaving, Ends, Types
<1>2. \A i \in DOMAIN Rest : Rest[i] # n
    BY <1>1, LastIsBelow
<1>3. ASSUME IsOpen(m)'
      PROVE  IsOpen(m) /\ m # n
    BY <1>1, <1>2, <1>3 DEF IsOpen
<1>4. ASSUME IsOpen(m), m # n
      PROVE  IsOpen(m)'
    <2>1. PICK i \in DOMAIN open : open[i] = m
        BY <1>4 DEF IsOpen
    <2>2. i \in DOMAIN Rest
        BY <2>1, <1>1, <1>4
    <2> QED
        BY <2>1, <2>2, <1>1 DEF IsOpen
<1> QED
    BY <1>3, <1>4

LEMMA FreshStep ==
    ASSUME Types, Chain, Fresh, LayoutNext
    PROVE  Fresh'
<1>1. tab' = tab /\ Nodes' = Nodes
    BY Constant DEF Nodes
<1>2. ASSUME NEW n \in Nodes, Entering(n), at' = at, Kind(n) \notin DOMAIN Length
      PROVE  Fresh'
    <2>1. pos = n /\ pos' = n + 1 /\ n \in Nat
        BY <1>2, NodeParts DEF Entering, Visits
    <2>2. \A m \in Nodes : IsOpen(m)' => IsOpen(m) \/ m = n
        BY <1>2, OpenEntered
    <2>3. at[n] = Unset
        BY <2>1 DEF Fresh
    <2> QED
        BY <1>1, <1>2, <2>1, <2>2, <2>3, NodeParts DEF Fresh, Kind, Unset
<1>3. ASSUME NEW n \in Nodes, Passing(n), at' = at \/ (at' = [at EXCEPT ![n] = offset] /\ Kind(n) \in DOMAIN Length)
      PROVE  Fresh'
    <2>1. pos = n /\ pos' \in Nat /\ n < pos' /\ n \in Nat /\ open' = open
        BY <1>3, NodeParts DEF Passing, Visits
    <2>2. ASSUME NEW m \in Nodes, m >= pos' \/ (IsOpen(m)' /\ Kind(m) \notin DOMAIN Length)
          PROVE  at'[m] = Unset
        <3>1. IsOpen(m)' <=> IsOpen(m)
            BY <2>1 DEF IsOpen
        <3>2. at[m] = Unset
            BY <2>1, <2>2, <3>1, NodeParts DEF Fresh
        <3>3. at'[m] = at[m]
            BY <1>3, <2>1, <2>2, NodeParts DEF Types
        <3> QED
            BY <3>2, <3>3
    <2> QED
        BY <1>1, <2>2 DEF Fresh, Kind, Unset
<1>4. ASSUME NEW n \in Nodes, Leaving(n), NEW a, at' = [at EXCEPT ![n] = a] \/ at' = at
      PROVE  Fresh'
    <2>1. ASSUME NEW m \in Nodes, IsOpen(m)'
          PROVE  IsOpen(m) /\ m # n
        BY <1>4, <2>1, OpenLeft
    <2>2. n < pos
        BY <1>4 DEF Leaving, Ends, Chain, Types
    <2>3. ASSUME NEW m \in Nodes, m >= pos \/ (IsOpen(m)' /\ Kind(m) \notin DOMAIN Length)
          PROVE  at'[m] = Unset
        <3>1. m # n
            BY <2>1, <2>2, <2>3, NodeParts
        <3>2. at[m] = Unset
            BY <2>1, <2>3 DEF Fresh
        <3> QED
            BY <1>4, <3>1, <3>2 DEF Types
    <2> QED
        BY <1>1, <1>4, <2>3 DEF Fresh, Kind, Unset, Leaving
<1>5. CASE VisitColumn
    <2>1. PICK n \in Nodes :
              /\ Visits(n) /\ Kind(n) \in DOMAIN Length /\ at' = [at EXCEPT ![n] = offset]
              /\ pos' = n + 1 /\ open' = open
        BY <1>5 DEF VisitColumn
    <2>2. Passing(n)
        BY <2>1, NodeParts DEF Passing
    <2> QED
        BY <2>1, <2>2, <1>3
<1>6. CASE VisitIgnored
    <2>1. PICK n \in Nodes : Visits(n) /\ pos' = n + 1 /\ open' = open /\ at' = at
        BY <1>6 DEF VisitIgnored
    <2> QED
        BY <2>1, <1>3, NodeParts DEF Passing
<1>7. CASE OpenNested \/ OpenContainer
    <2>1. PICK n \in Nodes : Entering(n) /\ at' = at /\ Kind(n) \in Nested \union Containers
        BY <1>7 DEF OpenNested, OpenContainer, Enter, Entering
    <2> QED
        BY <2>1, <1>2, LayoutAssumption
<1>8. CASE StackFull
    BY <1>8, <1>3 DEF StackFull, Passing
<1>9. CASE CloseNested \/ CloseHeadBody \/ CloseTable
    <2>1. PICK n \in Nodes : Leaving(n) /\ (at' = at \/ \E a : at' = [at EXCEPT ![n] = a])
        BY <1>9 DEF CloseNested, CloseHeadBody, CloseTable, Leaving
    <2> QED
        BY <2>1, <1>4
<1> QED
    BY <1>5, <1>6, <1>7, <1>8, <1>9 DEF LayoutNext

LEMMA PassedStep ==
    ASSUME Types, Chain, Passed, LayoutNext
    PROVE  Passed'
<1>1. tab' = tab /\ Nodes' = Nodes
    BY Constant DEF Nodes
<1>2. ASSUME NEW n \in Nodes, Entering(n)
      PROVE  Passed'
    <2>1. pos = n /\ pos' = n + 1 /\ n \in Nat
        BY <1>2, NodeParts DEF Entering, Visits
    <2>2. IsOpen(n)' /\ \A m \in Nodes : IsOpen(m) => IsOpen(m)'
        BY <1>2, OpenEntered
    <2> QED
        BY <1>1, <2>1, <2>2, NodeParts DEF Passed, Kind, Below
<1>3. ASSUME NEW n \in Nodes, Passing(n), ~(pos' \in Nodes /\ Below(pos', n))
      PROVE  Passed'
    <2>1. pos = n /\ pos' \in Nat /\ n < pos' /\ n \in Nat
        BY <1>3, NodeParts DEF Passing, Visits
    <2>2. \A m \in Nodes : IsOpen(m) <=> IsOpen(m)'
        BY <1>3 DEF Passing, IsOpen
    <2>3. ASSUME NEW b \in Nodes, b < pos', ~IsOpen(b), NEW m \in Nodes, Below(m, b)
          PROVE  m < pos'
        <3>1. CASE b < n
            BY <3>1, <2>1, <2>3, NodeParts DEF Passed
        <3>2. CASE b >= n
            <4>1. b = n \/ Below(b, n)
                <5>1. CASE b > n
                    <6>1. n \in Int /\ b \in Int /\ pos' \in Int /\ n < b /\ b < pos'
                        BY <5>1, <2>1, <2>3, NodeParts
                    <6>2. b \in (n + 1)..(pos' - 1)
                        BY ONLY <6>1, Between
                    <6> QED
                        BY <6>2, <1>3 DEF Passing
                <5> QED
                    BY <5>1, <3>2, <2>1, NodeParts
            <4> QED
                BY <4>1, <1>3, <2>1, <2>3, NothingBehind
        <3> QED
            BY <3>1, <3>2, <2>1, NodeParts
    <2> QED
        BY <1>1, <2>2, <2>3 DEF Passed, Kind, Below
<1>4. ASSUME NEW n \in Nodes, Leaving(n)
      PROVE  Passed'
    <2>1. n < pos /\ n \in Nat /\ pos' = pos /\ pos \in Nat
        BY <1>4, NodeParts DEF Leaving, Ends, Chain, Types
    <2>2. ~(pos \in Nodes /\ Below(pos, n))
        BY <1>4 DEF Leaving, Ends
    <2>3. \A m \in Nodes : IsOpen(m) => IsOpen(m)' \/ m = n
        BY <1>4, OpenLeft
    <2>4. \A m \in Nodes : Below(m, n) => m < pos
        BY <2>1, <2>2, NothingBehind
    <2> QED
        BY <1>1, <2>1, <2>3, <2>4 DEF Passed, Kind, Below
<1>5. CASE VisitColumn \/ VisitIgnored
    <2>1. PICK n \in Nodes :
              /\ Visits(n) /\ Kind(n) \in DOMAIN Length \union Ignored /\ pos' = n + 1 /\ open' = open
        BY <1>5 DEF VisitColumn, VisitIgnored
    <2>2. \A m \in Nodes : ~Below(m, n)
        BY <2>1, LeafHasNone DEF Ignored
    <2> QED
        BY <2>1, <2>2, <1>3, NodeParts DEF Passing
<1>6. CASE OpenNested \/ OpenContainer
    BY <1>6, <1>2 DEF OpenNested, OpenContainer, Enter, Entering
<1>7. CASE StackFull
    BY <1>7, <1>3 DEF StackFull, Passing
<1>8. CASE CloseNested \/ CloseHeadBody \/ CloseTable
    BY <1>8, <1>4 DEF CloseNested, CloseHeadBody, CloseTable, Leaving
<1> QED
    BY <1>5, <1>6, <1>7, <1>8 DEF LayoutNext

(* What a step leaves of the operators over the template.                  *)
LEMMA SameTemplate ==
    ASSUME LayoutNext
    PROVE  /\ tab' = tab /\ Nodes' = Nodes /\ \A b \in Nodes : NoUnions(b)' <=> NoUnions(b)
           /\ \A n : Kind(n)' = Kind(n)
           /\ \A m, n : Below(m, n)' <=> Below(m, n)
BY Constant DEF Nodes, NoUnions, Kind, Below

LEMMA RoomStep ==
    ASSUME Types, Chain, Room, LayoutNext
    PROVE  Room'
<1> SUFFICES ASSUME NEW b \in Nodes, NEW m \in Nodes, Kind(b) = "body", NoUnions(b), Below(m, b),
                    IsTop(open, m)'
             PROVE  offset' <= structOffset' + total'[m]
    BY SameTemplate DEF Room
<1>a. Kind(m) # "union"
    BY DEF NoUnions
<1>1. IsTop(open', m)
    BY SameTemplate DEF IsTop
<1>2. CASE VisitColumn
    <2>1. PICK n \in Nodes :
              /\ Kind(n) \in DOMAIN Length
              /\ offset' = offset + Length[Kind(n)]
              /\ total' = WithMember(open, Length[Kind(n)])
              /\ UNCHANGED <<open, structOffset>>
        BY <1>2 DEF VisitColumn
    <2>2. Length[Kind(n)] \in Nat
        BY <2>1, LayoutAssumption
    <2>3. total'[m] = total[m] + Length[Kind(n)]
        BY <1>1, <1>a, <2>1, <2>2, MemberAdded DEF Types
    <2>4. offset <= structOffset + total[m]
        BY <1>1, <2>1 DEF Room
    <2> QED
        BY <2>1, <2>2, <2>3, <2>4 DEF Types
<1>3. CASE VisitIgnored \/ StackFull
    BY <1>3, <1>1 DEF Room, VisitIgnored, StackFull
<1>4. CASE OpenNested
    <2>1. PICK n \in Nodes :
              /\ Kind(n) \in Nested /\ open' = Append(open, n)
              /\ structOffset' = (IF Kind(n) = "struct" THEN offset ELSE structOffset)
              /\ UNCHANGED <<total, offset>>
        BY <1>4 DEF OpenNested, Enter
    <2>2. m = n /\ Kind(n) = "struct"
        BY <1>1, <1>a, <2>1, TopEntered DEF Types, Nested
    <2> QED
        BY <2>1, <2>2 DEF Types
<1>5. CASE CloseNested
    <2>1. PICK n \in Nodes :
              /\ Ends(n) /\ Kind(n) \in Nested /\ open' = Rest
              /\ offset' = StartOf(n) + total[n]
              /\ total' = WithMember(Rest, total[n])
              /\ UNCHANGED structOffset
        BY <1>5 DEF CloseNested
    <2>3. Rest \in Seq(Nodes)
        BY <2>1, RestIs DEF Types, Ends
    <2>5. Below(n, m)
        BY <1>1, <2>1, LastIsBelow DEF IsTop
    <2>6. Below(n, b)
        BY <2>5, BelowBelow
    <2>2. StartOf(n) = structOffset /\ total[n] \in Nat
        BY <2>1, <2>6 DEF Types, StartOf, NoUnions, Nested
    <2>4. total'[m] = total[m] + total[n]
        BY <1>1, <1>a, <2>1, <2>2, <2>3, MemberAdded
    <2> QED
        BY <2>1, <2>2, <2>4 DEF Types
<1>6. CASE OpenContainer
    <2>1. PICK n \in Nodes :
              /\ Kind(n) \in Containers /\ open' = Append(open, n)
              /\ offset' = (IF Kind(n) = "body" THEN 0 ELSE offset)
              /\ UNCHANGED <<total, structOffset>>
        BY <1>6 DEF OpenContainer, Enter
    <2>2. IsTop(open, m)
        BY <1>1, <2>1, TopEntered DEF Types, Nested, Containers
    <2> QED
        BY <2>1, <2>2 DEF Room, Types
<1>7. CASE CloseHeadBody \/ CloseTable
    <2>1. PICK n \in Nodes :
              /\ Ends(n) /\ Kind(n) \in Containers /\ open' = Rest
              /\ offset' = offset \/ offset' = 0
              /\ UNCHANGED <<total, structOffset>>
        BY <1>7 DEF CloseHeadBody, CloseTable, Containers
    <2>2. IsTop(open, m)
        BY <1>1, <2>1, TopLeft DEF Types, Ends, Nested, Containers
    <2> QED
        BY <2>1, <2>2 DEF Room, Types
<1> QED
    BY <1>2, <1>3, <1>4, <1>5, <1>6, <1>7 DEF LayoutNext

(* The offset of a body and the room its columns take stay as they are, or *)
(* the offset goes on.                                                     *)
LEMMA PackedKept ==
    ASSUME Types, Packed, LayoutNext, offset' >= offset, len' = len,
           \A n \in Nodes : Kind(n) \in DOMAIN Length => at'[n] = at[n],
           \A n \in Nodes : Kind(n) = "body" /\ IsOpen(n)' => IsOpen(n)
    PROVE  Packed'
<1> SUFFICES ASSUME NEW b \in Nodes, NoUnions(b), NEW n \in Nodes,
                    Kind(b) = "body", IsOpen(b)', Below(n, b), IsColumn(n)'
             PROVE  at'[n] + len'[n] <= offset'
    BY SameTemplate DEF Packed
<1>1. IsColumn(n) /\ at'[n] = at[n] /\ IsOpen(b)
    BY SameTemplate DEF IsColumn, Unset
<1>2. at[n] + len[n] <= offset /\ at[n] \in Nat
    BY <1>1 DEF Packed, Types, IsColumn
<1>3. offset \in Int /\ offset' \in Int /\ len[n] \in Int
    BY TypesStep DEF Types
<1> QED
    BY <1>1, <1>2, <1>3

(* No body is open when a container is entered or left.                    *)
LEMMA NoBodyAround ==
    ASSUME Types, Chain, NEW n \in Nodes, Kind(n) \in Containers,
           NEW b \in Nodes, Kind(b) = "body", IsOpen(b)
    PROVE  ~Visits(n) /\ (Ends(n) => b = n)
<1>1. ~Below(n, b)
    BY TemplateParts DEF Types, Nodes, Kind, Below
<1>2. PICK i \in DOMAIN open : open[i] = b
    BY DEF IsOpen
<1>3. ~Visits(n)
    BY <1>1, <1>2, VisitedIsBelow
<1>4. ASSUME Ends(n), b # n
      PROVE  FALSE
    <2>1. i \in DOMAIN Rest /\ Rest[i] = b
        <3>1. /\ DOMAIN open = 1..Len(open) /\ Len(open) \in Nat \ {0} /\ n = open[Len(open)]
              /\ DOMAIN Rest = 1..(Len(open) - 1) /\ \A j \in DOMAIN Rest : Rest[j] = open[j]
            BY <1>4, RestIs DEF Ends, Types
        <3>2. i # Len(open)
            BY <3>1, <1>2, <1>4
        <3> QED
            BY <3>1, <3>2, <1>2
    <2> QED
        BY <2>1, <1>1, <1>4, LastIsBelow
<1> QED
    BY <1>3, <1>4

(* The columns and bodies that a step lays out or leaves.                  *)
LEMMA PackedStep ==
    ASSUME Types, Chain, Fresh, Passed, Room, Packed, LayoutNext
    PROVE  Packed'
<1>1. CASE VisitColumn
    <2>1. PICK n \in Nodes :
              /\ Visits(n) /\ Kind(n) \in DOMAIN Length
              /\ at' = [at EXCEPT ![n] = offset]
              /\ len' = [len EXCEPT ![n] = Length[Kind(n)]]
              /\ offset' = offset + Length[Kind(n)]
              /\ open' = open
        BY <1>1 DEF VisitColumn
    <2>2. Length[Kind(n)] \in Nat /\ offset \in Nat
        BY <2>1, LayoutAssumption DEF Types
    <2> SUFFICES ASSUME NEW b \in Nodes, NoUnions(b), NEW m \in Nodes,
                        Kind(b) = "body", IsOpen(b)', Below(m, b), IsColumn(m)'
                 PROVE  at'[m] + len'[m] <= offset'
        BY SameTemplate DEF Packed
    <2>3. IsOpen(b)
        BY <2>1 DEF IsOpen
    <2>4. CASE m = n
        BY <2>4, <2>1, <2>2 DEF Types
    <2>5. CASE m # n
        <3>1. at'[m] = at[m] /\ len'[m] = len[m] /\ len[m] \in Nat
            BY <2>5, <2>1 DEF Types
        <3>2. IsColumn(m) /\ at[m] \in Nat
            BY <3>1, SameTemplate DEF IsColumn, Unset, Types
        <3>3. at[m] + len[m] <= offset
            BY <2>3, <3>2 DEF Packed
        <3> QED
            BY <3>1, <3>2, <3>3, <2>1, <2>2
    <2> QED
        BY <2>4, <2>5
<1>2. CASE VisitIgnored \/ StackFull
    <2>1. offset' = offset /\ len' = len /\ at' = at /\ open' = open /\ offset \in Nat
        BY <1>2 DEF VisitIgnored, StackFull, Types
    <2> QED
        BY <2>1, PackedKept DEF IsOpen
<1>3. CASE OpenNested
    <2>1. PICK n \in Nodes :
              Entering(n) /\ Kind(n) \in Nested /\ offset' = offset /\ len' = len /\ at' = at
        BY <1>3 DEF OpenNested, Enter, Entering
    <2>2. \A m \in Nodes : Kind(m) = "body" /\ IsOpen(m)' => IsOpen(m)
        BY <2>1, OpenEntered DEF Nested
    <2> QED
        BY <2>1, <2>2, PackedKept DEF Types
<1>4. CASE CloseNested
    <2>1. PICK n \in Nodes :
              /\ Ends(n) /\ Kind(n) \in Nested /\ open' = Rest /\ pos' = pos
              /\ at' = [at EXCEPT ![n] = StartOf(n)]
              /\ len' = [len EXCEPT ![n] = total[n]]
              /\ offset' = StartOf(n) + total[n]
        BY <1>4 DEF CloseNested
    <2>2. Kind(n) \notin DOMAIN Length
        BY <2>1, LayoutAssumption
    <2> SUFFICES ASSUME NEW b \in Nodes, NoUnions(b), NEW m \in Nodes,
                        Kind(b) = "body", IsOpen(b)', Below(m, b), IsColumn(m)'
                 PROVE  at'[m] + len'[m] <= offset'
        BY SameTemplate DEF Packed
    <2>5. IsOpen(b)
        BY <2>1, OpenLeft DEF Leaving
    <2>a. Below(n, b)
        <3>1. PICK i \in DOMAIN Rest : Rest[i] = b
            BY <2>1 DEF IsOpen
        <3> QED
            BY <2>1, <3>1, LastIsBelow
    <2>3. StartOf(n) = structOffset /\ IsTop(open, n)
        <3>1. Len(open) \in DOMAIN open /\ \A j \in DOMAIN open : ~(j > Len(open))
            <4>1. open \in Seq(Nodes) /\ open # <<>>
                BY <2>1 DEF Ends, Types
            <4>2. DOMAIN open = 1..Len(open) /\ Len(open) \in Nat \ {0}
                BY <4>1, RestIs
            <4> QED
                BY <4>2
        <3> QED
            BY <2>1, <2>a, <3>1 DEF StartOf, NoUnions, Nested, IsTop, Ends
    <2>4. offset <= offset' /\ offset \in Int /\ offset' \in Int
        BY <2>1, <2>3, <2>a, TypesStep DEF Room, Types
    <2>6. m # n
        BY <2>2, SameTemplate DEF IsColumn
    <2>7. at'[m] = at[m] /\ len'[m] = len[m] /\ len[m] \in Nat
        BY <2>6, <2>1 DEF Types
    <2>8. IsColumn(m) /\ at[m] \in Nat
        BY <2>7, SameTemplate DEF IsColumn, Unset, Types
    <2>9. at[m] + len[m] <= offset
        BY <2>5, <2>8 DEF Packed
    <2> QED
        BY <2>4, <2>7, <2>8, <2>9
<1>5. CASE OpenContainer
    <2>1. PICK n \in Nodes :
              Entering(n) /\ Kind(n) \in Containers /\ len' = len /\ at' = at
        BY <1>5 DEF OpenContainer, Enter, Entering
    <2> SUFFICES ASSUME NEW b \in Nodes, NoUnions(b), NEW m \in Nodes,
                        Kind(b) = "body", IsOpen(b)', Below(m, b), IsColumn(m)'
                 PROVE  FALSE
        BY SameTemplate DEF Packed
    <2>2. b = n
        BY <2>1, OpenEntered, NoBodyAround DEF Entering
    <2>3. m >= pos
        BY <2>1, <2>2, BelowDepth, NodeParts DEF Entering, Visits
    <2>4. at[m] = Unset
        BY <2>3 DEF Fresh
    <2> QED
        BY <2>1, <2>4 DEF IsColumn, Unset
<1>6. CASE CloseHeadBody
    <2>1. PICK n \in Nodes :
              /\ Leaving(n) /\ Kind(n) \in Containers /\ len' = len /\ offset' = offset
              /\ at' = [at EXCEPT ![n] = offset]
        BY <1>6 DEF CloseHeadBody, Leaving, Containers
    <2>2. \A m \in Nodes : Kind(m) \in DOMAIN Length => at'[m] = at[m]
        BY <2>1, LayoutAssumption DEF Types
    <2>3. \A m \in Nodes : Kind(m) = "body" /\ IsOpen(m)' => IsOpen(m)
        BY <2>1, OpenLeft
    <2> QED
        BY <2>1, <2>2, <2>3, PackedKept DEF Types
<1>7. CASE CloseTable
    <2>1. PICK n \in Nodes : Leaving(n) /\ Kind(n) \in Containers
        BY <1>7 DEF CloseTable, Leaving, Containers
    <2>2. \A b \in Nodes : Kind(b) = "body" => ~IsOpen(b)'
        BY <2>1, OpenLeft, NoBodyAround DEF Leaving
    <2> QED
        BY <2>2, SameTemplate DEF Packed
<1> QED
    BY <1>1, <1>2, <1>3, <1>4, <1>5, <1>6, <1>7 DEF LayoutNext

(* A step that moves neither a column nor a body.                          *)
LEMMA DisjointKept ==
    ASSUME Disjoint, LayoutNext,
           \A n \in Nodes : Kind(n) \in DOMAIN Length => at'[n] = at[n] /\ len'[n] = len[n],
           \A n \in Nodes : Kind(n) = "body" => at'[n] = at[n]
    PROVE  Disjoint'
<1>1. \A n \in Nodes : IsColumn(n)' <=> IsColumn(n)
    BY SameTemplate DEF IsColumn, Unset
<1>2. \A n \in Nodes : IsColumn(n) => at'[n] = at[n] /\ len'[n] = len[n]
    BY DEF IsColumn
<1> SUFFICES ASSUME NEW b \in Nodes, NoUnions(b), Kind(b) = "body"
             PROVE  /\ \A m, n \in Nodes :
                          IsColumn(m) /\ IsColumn(n) /\ Below(m, b) /\ Below(n, b) /\ m < n =>
                              at'[m] + len'[m] <= at'[n]
                    /\ at[b] # Unset =>
                          \A n \in Nodes :
                              IsColumn(n) /\ Below(n, b) => at'[n] + len'[n] <= at[b]
    BY <1>1, SameTemplate DEF Disjoint, Unset
<1> QED
    BY <1>2 DEF Disjoint

LEMMA DisjointStep ==
    ASSUME Types, Chain, Fresh, Passed, Packed, Disjoint, LayoutNext
    PROVE  Disjoint'
<1>1. CASE VisitColumn
    <2>1. PICK p \in Nodes :
              /\ Visits(p) /\ Kind(p) \in DOMAIN Length
              /\ at' = [at EXCEPT ![p] = offset]
              /\ len' = [len EXCEPT ![p] = Length[Kind(p)]]
        BY <1>1 DEF VisitColumn
    <2>2. p = pos /\ Kind(p) # "body" /\ offset \in Nat
        BY <2>1, LayoutAssumption DEF Visits, Types, Containers
    <2>3. \A n \in Nodes : n # p => at'[n] = at[n] /\ len'[n] = len[n] /\ (IsColumn(n)' <=> IsColumn(n))
        BY <2>1, SameTemplate DEF Types, IsColumn, Unset
    <2>4. at'[p] = offset
        BY <2>1 DEF Types
    <2>5. \A b \in Nodes : Kind(b) = "body" /\ Below(p, b) => IsOpen(b) /\ at[b] = Unset /\ b # p
        <3>1. ASSUME NEW b \in Nodes, Kind(b) = "body", Below(p, b)
              PROVE  IsOpen(b) /\ at[b] = Unset /\ b # p
            <4>1. b < p
                BY <3>1, BelowDepth
            <4>2. IsOpen(b)
                BY <3>1, <4>1, <2>2, NodeParts DEF Passed
            <4> QED
                BY <3>1, <4>2, <2>2, LayoutAssumption DEF Fresh, Containers
        <3> QED
            BY <3>1
    <2> SUFFICES ASSUME NEW b \in Nodes, NoUnions(b), Kind(b) = "body"
                 PROVE  /\ \A m, n \in Nodes :
                              IsColumn(m)' /\ IsColumn(n)' /\ Below(m, b) /\ Below(n, b) /\ m < n =>
                                  at'[m] + len'[m] <= at'[n]
                        /\ at'[b] # Unset =>
                              \A n \in Nodes :
                                  IsColumn(n)' /\ Below(n, b) => at'[n] + len'[n] <= at'[b]
        BY SameTemplate DEF Disjoint, Unset
    <2>6. ASSUME NEW m \in Nodes, NEW n \in Nodes,
                 IsColumn(m)', IsColumn(n)', Below(m, b), Below(n, b), m < n
          PROVE  at'[m] + len'[m] <= at'[n]
        <3>1. CASE n = p
            <4>1. m # p /\ IsColumn(m)
                BY <3>1, <2>3, <2>6, NodeParts
            <4>2. IsOpen(b)
                BY <3>1, <2>5, <2>6
            <4>3. at[m] + len[m] <= offset
                BY <4>1, <4>2, <2>6 DEF Packed
            <4> QED
                BY <3>1, <4>1, <4>3, <2>3, <2>4
        <3>2. CASE m = p
            <4>1. n # p /\ n >= pos
                BY <3>2, <2>2, <2>6, NodeParts
            <4>2. at[n] = Unset /\ IsColumn(n)
                BY <4>1, <2>3, <2>6 DEF Fresh
            <4> QED
                BY <4>2 DEF IsColumn
        <3>3. CASE m # p /\ n # p
            BY <3>3, <2>3, <2>6 DEF Disjoint
        <3> QED
            BY <3>1, <3>2, <3>3
    <2>7. ASSUME at'[b] # Unset, NEW n \in Nodes, IsColumn(n)', Below(n, b)
          PROVE  at'[n] + len'[n] <= at'[b]
        <3>1. b # p /\ at'[b] = at[b]
            BY <2>2, <2>3
        <3>2. n # p
            BY <3>1, <2>5, <2>7
        <3> QED
            BY <3>1, <3>2, <2>3, <2>7 DEF Disjoint
    <2> QED
        BY <2>6, <2>7
<1>2. CASE VisitIgnored \/ OpenNested \/ StackFull \/ OpenContainer \/ CloseTable
    <2>1. at' = at /\ len' = len
        BY <1>2 DEF VisitIgnored, OpenNested, StackFull, OpenContainer, CloseTable
    <2> QED
        BY <2>1, DisjointKept
<1>3. CASE CloseNested
    <2>1. PICK p \in Nodes :
              /\ Kind(p) \in Nested
              /\ at' = [at EXCEPT ![p] = StartOf(p)]
              /\ len' = [len EXCEPT ![p] = total[p]]
        BY <1>3 DEF CloseNested
    <2>2. \A n \in Nodes : Kind(n) \in DOMAIN Length \/ Kind(n) = "body" => n # p
        BY <2>1, LayoutAssumption DEF Nested
    <2>3. \A n \in Nodes : n # p => at'[n] = at[n] /\ len'[n] = len[n]
        BY <2>1 DEF Types
    <2> QED
        BY <2>2, <2>3, DisjointKept
<1>4. CASE CloseHeadBody
    <2>1. PICK p \in Nodes :
              /\ Leaving(p) /\ Kind(p) \in Containers /\ at' = [at EXCEPT ![p] = offset] /\ len' = len
        BY <1>4 DEF CloseHeadBody, Leaving, Containers
    <2>2. \A n \in Nodes : n # p => at'[n] = at[n] /\ (IsColumn(n)' <=> IsColumn(n))
        BY <2>1, SameTemplate DEF Types, IsColumn, Unset
    <2>3. ~IsColumn(p)' /\ ~IsColumn(p) /\ at'[p] = offset
        BY <2>1, SameTemplate, LayoutAssumption DEF IsColumn, Types
    <2>4. IsOpen(p)
        BY <2>1, RestIs DEF Leaving, Ends, Types, IsOpen
    <2> SUFFICES ASSUME NEW b \in Nodes, NoUnions(b), Kind(b) = "body"
                 PROVE  /\ \A m, n \in Nodes :
                              IsColumn(m)' /\ IsColumn(n)' /\ Below(m, b) /\ Below(n, b) /\ m < n =>
                                  at'[m] + len'[m] <= at'[n]
                        /\ at'[b] # Unset =>
                              \A n \in Nodes :
                                  IsColumn(n)' /\ Below(n, b) => at'[n] + len'[n] <= at'[b]
        BY SameTemplate DEF Disjoint, Unset
    <2>5. \A m, n \in Nodes :
              IsColumn(m)' /\ IsColumn(n)' /\ Below(m, b) /\ Below(n, b) /\ m < n =>
                  at'[m] + len'[m] <= at'[n]
        BY <2>1, <2>2, <2>3 DEF Disjoint
    <2>6. CASE b = p
        BY <2>6, <2>1, <2>2, <2>3, <2>4, <2>5 DEF Packed
    <2>7. CASE b # p
        BY <2>7, <2>1, <2>2, <2>3, <2>5 DEF Disjoint
    <2> QED
        BY <2>6, <2>7
<1> QED
    BY <1>1, <1>2, <1>3, <1>4 DEF LayoutNext

-----------------------------------------------------------------------------
(* The sum of the values of a function, as FoldFunction has it.            *)

LEMMA Least ==
    ASSUME NEW T \in SUBSET Nat, T # {}
    PROVE  \E m \in T : \A k \in T : m <= k
<1>. DEFINE R == OpToRel(<, Nat)
<1>1. IsWellFoundedOn(R, Nat)
    BY NatLessThanWellFounded
<1>. HIDE DEF R
<1>2. \E x \in T : \A y \in T : ~(<<y, x>> \in R)
    BY <1>1, WFMin
<1>3. \A x, y \in Nat : <<y, x>> \in R <=> y < x
    BY DEF R, OpToRel
<1>4. PICK x \in T : \A y \in T : ~(<<y, x>> \in R)
    BY <1>2
<1>5. \A y \in T : ~(y < x)
    BY <1>3, <1>4
<1>. QED
    BY <1>4, <1>5

LEMMA Smallest ==
    ASSUME NEW T \in SUBSET Nat, T # {}
    PROVE  \E m \in T : m \in Nat /\ (m # 0 => m - 1 \in Nat /\ m - 1 \notin T)
<1>1. PICK m \in T : \A k \in T : m <= k
    BY Least
<1>2. m \in Nat /\ (m # 0 => m - 1 \in Nat)
    OBVIOUS
<1>3. m - 1 \notin T
    BY <1>1, <1>2
<1>. QED
    BY <1>2, <1>3

LEMMA Greatest ==
    ASSUME NEW n \in Nat, NEW T \in SUBSET (1..n), T # {}
    PROVE  \E m \in T : \A k \in T : m >= k
<1>. DEFINE above == {k \in 0..n : \A j \in T : j <= k}
<1>1. n \in above
    OBVIOUS
<1>2. PICK m \in above : m \in Nat /\ (m # 0 => m - 1 \in Nat /\ m - 1 \notin above)
    <2>1. above \in SUBSET Nat /\ above # {}
        BY <1>1
    <2>. HIDE DEF above
    <2>. QED
        BY <2>1, Smallest
<1>3. m # 0
    <2>1. PICK j \in T : j \in 1..n
        OBVIOUS
    <2>. QED
        BY <1>2, <2>1
<1>4. PICK j \in T : ~(j <= m - 1)
    BY <1>2, <1>3
<1>5. j = m
    BY <1>2, <1>3, <1>4
<1>. QED
    BY <1>5

AnyOf(s) == CHOOSE x \in s : TRUE

\* sum is that of the values of r over each part of S.
IsSum(sum, S, r) ==
    /\ sum \in [SUBSET S -> Int] /\ sum[{}] = 0
    /\ \A T \in SUBSET S : \A x \in T : sum[T] = r[x] + sum[T \ {x}]
    /\ \A T \in SUBSET S : SumOf([e \in T |-> r[e]]) = sum[T]

\* The sum of the values of a function over a part of its domain, as FoldFunction has it, is that
\* of the rest and of any one of them, whichever the fold begins with.
LEMMA SumsAre ==
    ASSUME NEW S, IsFiniteSet(S), NEW r \in [S -> Int]
    PROVE  \E sum : IsSum(sum, S, r)
<1>. DEFINE Upto(n) == {T \in SUBSET S : Cardinality(T) <= n}
            to(g, n) == /\ g \in [Upto(n) -> Int] /\ g[{}] = 0
                        /\ \A T \in Upto(n) : T # {} => g[T] = r[AnyOf(T)] + g[T \ {AnyOf(T)}]
<1>1. ASSUME NEW T \in SUBSET S
      PROVE  /\ IsFiniteSet(T) /\ Cardinality(T) \in Nat /\ Cardinality(T) <= Cardinality(S)
             /\ Cardinality(T) = 0 <=> T = {}
             /\ \A x \in T : T \ {x} \in SUBSET S /\ Cardinality(T \ {x}) = Cardinality(T) - 1
             /\ T # {} => AnyOf(T) \in T
    <2>1. IsFiniteSet(T) /\ Cardinality(T) <= Cardinality(S)
        BY FS_Subset
    <2>2. Cardinality(T) \in Nat /\ (Cardinality(T) = 0 <=> T = {})
        BY <2>1, FS_CardinalityType, FS_EmptySet
    <2>3. \A x \in T : Cardinality(T \ {x}) = Cardinality(T) - 1
        BY <2>1, FS_RemoveElement
    <2>. QED
        BY <2>1, <2>2, <2>3 DEF AnyOf
<1>2. \A n \in Nat : \E g : to(g, n)
    <2>. DEFINE bad == {n \in Nat : ~\E g : to(g, n)}
    <2>. SUFFICES ASSUME bad # {} PROVE FALSE
        OBVIOUS
    <2>1. PICK m \in bad : m \in Nat /\ (m # 0 => m - 1 \in Nat /\ m - 1 \notin bad)
        <3>1. bad \in SUBSET Nat
            OBVIOUS
        <3>. HIDE DEF bad
        <3>. QED
            BY <3>1, Smallest
    <2>2. m # 0
        <3>1. \A T \in Upto(0) : T = {}
            BY <1>1
        <3>2. to([T \in Upto(0) |-> 0], 0)
            BY <3>1, FS_EmptySet
        <3>3. \E g : to(g, 0)
            BY <3>2
        <3>. HIDE DEF to
        <3>. QED
            BY <3>3
    <2>3. m - 1 \in Nat /\ m - 1 \notin bad
        BY <2>1, <2>2
    <2>4. PICK g : to(g, m - 1)
        BY <2>3
    <2>. DEFINE h == [T \in Upto(m) |-> IF T = {} THEN 0 ELSE r[AnyOf(T)] + g[T \ {AnyOf(T)}]]
    <2>5. ASSUME NEW T \in Upto(m), T # {}
          PROVE  AnyOf(T) \in S /\ T \ {AnyOf(T)} \in Upto(m - 1) /\ T \ {AnyOf(T)} \in Upto(m)
        BY <1>1, <2>1, <2>5
    <2>6. {} \in Upto(m) /\ h[{}] = 0
        BY <2>1, FS_EmptySet
    <2>7. ASSUME NEW T \in Upto(m - 1) PROVE T \in Upto(m) /\ h[T] = g[T]
        <3>1. Cardinality(T) <= m - 1 /\ Cardinality(T) \in Nat /\ m \in Nat /\ T \in SUBSET S
            BY <1>1, <2>1
        <3>2. T \in Upto(m)
            BY <3>1
        <3>. QED
            BY <2>4, <3>2
    <2>8. h \in [Upto(m) -> Int]
        BY <2>4, <2>5
    <2>9. \A T \in Upto(m) : T # {} => h[T] = r[AnyOf(T)] + h[T \ {AnyOf(T)}]
        BY <2>5, <2>7
    <2>10. to(h, m)
        BY <2>6, <2>8, <2>9
    <2>. QED
        BY <2>1, <2>10
<1>3. PICK sum : to(sum, Cardinality(S))
    BY <1>1, <1>2
<1>4. Upto(Cardinality(S)) = SUBSET S
    BY <1>1
<1>5. /\ sum \in [SUBSET S -> Int] /\ sum[{}] = 0
      /\ \A T \in SUBSET S : T # {} => sum[T] = r[AnyOf(T)] + sum[T \ {AnyOf(T)}]
    BY <1>3, <1>4
<1>. HIDE DEF Upto, to
<1>6. \A T \in SUBSET S : \A x \in T : sum[T] = r[x] + sum[T \ {x}]
    <2>. DEFINE fair(T) == \A x \in T : sum[T] = r[x] + sum[T \ {x}]
                bad == {n \in Nat : \E T \in SUBSET S : Cardinality(T) = n /\ ~fair(T)}
    <2>. SUFFICES ASSUME bad # {} PROVE FALSE
        BY <1>1
    <2>1. PICK m \in bad : m \in Nat /\ (m # 0 => m - 1 \in Nat /\ m - 1 \notin bad)
        <3>1. bad \in SUBSET Nat
            OBVIOUS
        <3>. HIDE DEF bad
        <3>. QED
            BY <3>1, Smallest
    <2>2. PICK T \in SUBSET S : Cardinality(T) = m /\ ~fair(T)
        BY <2>1
    <2>3. PICK x \in T : sum[T] # r[x] + sum[T \ {x}]
        BY <2>2
    <2>. DEFINE c == AnyOf(T)
    <2>4. c \in T /\ sum[T] = r[c] + sum[T \ {c}] /\ c # x
        BY <1>1, <1>5, <2>3
    <2>5. ASSUME NEW y \in T PROVE fair(T \ {y})
        <3>1. Cardinality(T \ {y}) = m - 1 /\ T \ {y} \in SUBSET S
            BY <1>1, <2>2
        <3>2. m # 0
            BY <1>1, <2>2
        <3>. QED
            BY <2>1, <3>1, <3>2
    <2>6. sum[T \ {c}] = r[x] + sum[(T \ {c}) \ {x}] /\ sum[T \ {x}] = r[c] + sum[(T \ {x}) \ {c}]
        BY <2>4, <2>5
    <2>7. (T \ {c}) \ {x} = (T \ {x}) \ {c} /\ (T \ {x}) \ {c} \in SUBSET S
        OBVIOUS
    <2>8. r[x] \in Int /\ r[c] \in Int /\ sum[(T \ {x}) \ {c}] \in Int
        BY <1>5, <2>4, <2>7
    <2>9. \A a, b, d \in Int : a + (b + d) = b + (a + d)
        OBVIOUS
    <2>. DEFINE rest == sum[(T \ {x}) \ {c}]
    <2>. HIDE DEF c
    <2>10. sum[T \ {c}] = r[x] + rest /\ sum[T \ {x}] = r[c] + rest
        BY <2>6, <2>7
    <2>11. rest \in Int
        BY <2>8
    <2>. HIDE DEF rest
    <2>12. r[x] + (r[c] + rest) = r[c] + (r[x] + rest)
        BY <2>8, <2>9, <2>11
    <2>. QED
        BY <2>3, <2>4, <2>10, <2>12
<1>7. ASSUME NEW T \in SUBSET S
      PROVE  SumOf([e \in T |-> r[e]]) = sum[T]
    <2>. DEFINE q == [e \in T |-> r[e]]
                iter == CHOOSE iter :
                            iter = [s \in SUBSET T |-> IF s = {} THEN 0 ELSE q[AnyOf(s)] + iter[s \ {AnyOf(s)}]]
                H == [s \in SUBSET T |-> sum[s]]
    <2>1. DOMAIN q = T
        OBVIOUS
    <2>2. SumOf(q) = iter[T]
        BY <2>1 DEF SumOf, FoldFunction, FoldFunctionOnSet, MapThenFoldSet, AnyOf
    <2>3. \A s \in SUBSET T : s # {} => AnyOf(s) \in s /\ q[AnyOf(s)] = r[AnyOf(s)]
        BY <1>1
    <2>. HIDE DEF q
    <2>4. H = [s \in SUBSET T |-> IF s = {} THEN 0 ELSE q[AnyOf(s)] + H[s \ {AnyOf(s)}]]
        BY <1>5, <2>3
    <2>. HIDE DEF H
    <2>5. iter = [s \in SUBSET T |-> IF s = {} THEN 0 ELSE q[AnyOf(s)] + iter[s \ {AnyOf(s)}]]
        BY <2>4
    <2>. HIDE DEF iter
    <2>6. \A s \in SUBSET T : iter[s] = IF s = {} THEN 0 ELSE q[AnyOf(s)] + iter[s \ {AnyOf(s)}]
        BY <2>5
    <2>7. \A s \in SUBSET T : iter[s] = sum[s]
        <3>. DEFINE bad == {n \in Nat : \E s \in SUBSET T : Cardinality(s) = n /\ iter[s] # sum[s]}
        <3>. SUFFICES ASSUME bad # {} PROVE FALSE
            BY <1>1
        <3>1. PICK m \in bad : m \in Nat /\ (m # 0 => m - 1 \in Nat /\ m - 1 \notin bad)
            <4>1. bad \in SUBSET Nat
                OBVIOUS
            <4>. HIDE DEF bad
            <4>. QED
                BY <4>1, Smallest
        <3>2. PICK s \in SUBSET T : Cardinality(s) = m /\ iter[s] # sum[s]
            BY <3>1
        <3>3. s # {} /\ s \in SUBSET S
            BY <1>5, <2>6, <3>2
        <3>4. AnyOf(s) \in s /\ Cardinality(s \ {AnyOf(s)}) = m - 1 /\ m # 0
            BY <1>1, <3>2, <3>3
        <3>5. iter[s \ {AnyOf(s)}] = sum[s \ {AnyOf(s)}]
            BY <3>1, <3>4
        <3>. QED
            BY <1>5, <2>3, <2>6, <3>2, <3>3, <3>5
    <2>. QED
        BY <2>2, <2>7 DEF q
<1>. QED
    BY <1>5, <1>6, <1>7 DEF IsSum

\* One more value.
LEMMA SumAdds ==
    ASSUME NEW T, IsFiniteSet(T), NEW x, x \notin T, NEW r \in [T \union {x} -> Int]
    PROVE  /\ SumOf([e \in T |-> r[e]]) \in Int
           /\ SumOf([e \in T \union {x} |-> r[e]]) = SumOf([e \in T |-> r[e]]) + r[x]
<1>. DEFINE S == T \union {x}
<1>1. IsFiniteSet(S)
    BY FS_AddElement
<1>2. S \ {x} = T /\ x \in S /\ S \in SUBSET S /\ T \in SUBSET S /\ r \in [S -> Int]
    OBVIOUS
<1>. HIDE DEF S
<1>3. PICK sum : IsSum(sum, S, r)
    BY <1>1, <1>2, SumsAre
<1>4. sum[T] \in Int /\ r[x] \in Int /\ sum[S] = r[x] + sum[T]
    BY <1>2, <1>3 DEF IsSum
<1>5. SumOf([e \in S |-> r[e]]) = sum[S] /\ SumOf([e \in T |-> r[e]]) = sum[T]
    BY <1>2, <1>3 DEF IsSum
<1>. QED
    BY <1>4, <1>5 DEF S

LEMMA SumOfNone == SumOf([e \in {} |-> 0]) = 0
<1>. DEFINE r == [e \in {} |-> 0]
<1>1. IsFiniteSet({}) /\ r \in [{} -> Int] /\ {} \in SUBSET {}
    BY FS_EmptySet
<1>. HIDE DEF r
<1>2. PICK sum : IsSum(sum, {}, r)
    BY <1>1, SumsAre
<1>3. SumOf([e \in {} |-> r[e]]) = 0
    BY <1>1, <1>2 DEF IsSum
<1>4. [e \in {} |-> r[e]] = [e \in {} |-> 0]
    OBVIOUS
<1>. QED
    BY <1>3, <1>4

-----------------------------------------------------------------------------
(* The sizes.                                                              *)

(* The size that an element has when the sizes below it are those of f.    *)
SizeWith(f, n) ==
    IF Kind(n) \in DOMAIN Length THEN Length[Kind(n)]
    ELSE IF Kind(n) = "struct" THEN SumOf([m \in Children(n) |-> f[m]])
    ELSE IF Kind(n) = "union" THEN Max({f[m] : m \in Children(n)} \union {0})
    ELSE 0

LEMMA SizeKept ==
    ASSUME tab' = tab
    PROVE  Size' = Size /\ \A n : Children(n)' = Children(n)
BY DEF Size, Nodes, Kind, Children, Below

LEMMA SizeIs ==
    ASSUME Types
    PROVE  \A n \in Nodes : Size[n] = SizeWith(Size, n)
<1>. DEFINE N == Len(tab.kind)
            Latter(j) == {n \in Nodes : n > N - j}
            to(g, j) == g = [n \in Latter(j) |-> SizeWith(g, n)]
<1>1. \A j \in Nat : \E g : to(g, j)
    <2>. DEFINE bad == {j \in Nat : ~\E g : to(g, j)}
    <2>. SUFFICES ASSUME bad # {} PROVE FALSE
        OBVIOUS
    <2>1. PICK j \in bad : j \in Nat /\ (j # 0 => j - 1 \in Nat /\ j - 1 \notin bad)
        <3>1. bad \in SUBSET Nat
            OBVIOUS
        <3>. HIDE DEF bad
        <3>. QED
            BY <3>1, Smallest
    <2>2. j # 0
        <3>1. Latter(0) = {}
            BY NodeParts
        <3>2. to([n \in {} |-> 0], 0)
            BY <3>1
        <3>3. \E g : to(g, 0)
            BY <3>2
        <3>. HIDE DEF to
        <3>. QED
            BY <2>1, <3>3
    <2>3. j - 1 \in Nat /\ j - 1 \notin bad
        BY <2>1, <2>2
    <2>4. PICK g : to(g, j - 1)
        BY <2>3
    <2>. DEFINE h == [n \in Latter(j) |-> SizeWith(g, n)]
    <2>5. ASSUME NEW n \in Latter(j), NEW m \in Children(n)
          PROVE  m \in Latter(j - 1) /\ m \in Latter(j)
        BY <2>1, NodeParts, BelowDepth DEF Children
    <2>6. \A n \in Latter(j - 1) : n \in Latter(j)
        BY <2>1, NodeParts
    <2>7. \A n \in Latter(j - 1) : h[n] = g[n]
        BY <2>4, <2>6
    <2>8. ASSUME NEW n \in Latter(j)
          PROVE  SizeWith(g, n) = SizeWith(h, n)
        <3>1. \A m \in Children(n) : g[m] = h[m]
            BY <2>5, <2>7
        <3>2. [m \in Children(n) |-> g[m]] = [m \in Children(n) |-> h[m]]
            BY <3>1
        <3>3. {g[m] : m \in Children(n)} = {h[m] : m \in Children(n)}
            BY <3>1
        <3>. QED
            BY <3>2, <3>3 DEF SizeWith
    <2>9. h = [n \in Latter(j) |-> SizeWith(h, n)]
        BY <2>8
    <2>10. \E f : to(f, j)
        BY <2>9
    <2>. HIDE DEF to
    <2>. QED
        BY <2>1, <2>10
<1>2. N \in Nat /\ Latter(N) = Nodes
    BY NodeParts
<1>3. PICK g : to(g, N)
    BY <1>1, <1>2
<1>4. g = [n \in Nodes |-> SizeWith(g, n)]
    BY <1>2, <1>3
<1>5. Size = CHOOSE f : f = [n \in Nodes |-> SizeWith(f, n)]
    BY DEF Size, SizeWith
<1>6. Size = [n \in Nodes |-> SizeWith(Size, n)]
    BY <1>4, <1>5
<1>. QED
    BY <1>6

-----------------------------------------------------------------------------
(* The elements above an element, and which of them is its parent.         *)

(* The nearest element above is the parent.                                *)
LEMMA NearestIsParent ==
    ASSUME Types, NEW n \in Nodes, NEW p \in Nodes, Below(n, p),
           \A k \in Nodes : p < k => ~Below(n, k)
    PROVE  n \in Children(p)
<1>1. p < n /\ tab.depth[n] > tab.depth[p] /\ n \in Nat /\ p \in Nat
    BY BelowDepth, NodeParts
<1>2. ASSUME tab.depth[n] > tab.depth[p] + 1
      PROVE  FALSE
    <2>. DEFINE lower == {k \in 1..(n - 1) : tab.depth[k] < tab.depth[n]}
    <2>1. p \in lower
        BY <1>1, NodeParts
    <2>2. PICK k \in lower : \A j \in lower : k >= j
        <3>1. lower \in SUBSET (1..(n - 1)) /\ lower # {} /\ n - 1 \in Nat
            BY <1>1, <2>1
        <3>. HIDE DEF lower
        <3>. QED
            BY <3>1, Greatest
    <2>3. k \in Nodes /\ k \in Nat /\ k < n /\ p <= k /\ tab.depth[k] < tab.depth[n]
        BY <1>1, <2>1, <2>2, NodeParts
    <2>4. ASSUME NEW j \in (k + 1)..n
          PROVE  tab.depth[j] > tab.depth[k]
        <3>1. j \in Nodes /\ j \in Nat /\ tab.depth[j] \in Nat /\ tab.depth[n] \in Nat /\ tab.depth[k] \in Nat
            BY <1>1, <2>3, NodeParts
        <3>2. j = n \/ (j \in 1..(n - 1) /\ j > k)
            BY <1>1, <2>3, <3>1
        <3>3. j = n \/ ~(tab.depth[j] < tab.depth[n])
            BY <2>2, <2>3, <3>1, <3>2
        <3>. QED
            BY <2>3, <3>1, <3>3
    <2>5. Below(n, k)
        BY <2>3, <2>4 DEF Below, IsBelow
    <2>6. k = p
        BY <2>3, <2>5, <1>1
    <2>7. p + 1 \in 2..Len(tab.kind) /\ p + 1 \in (k + 1)..n /\ p + 1 \in Nodes
        BY <1>1, <2>6, NodeParts
    <2>8. tab.depth[p + 1] <= tab.depth[(p + 1) - 1] + 1
        BY <2>7, TemplateParts DEF Types
    <2>9. (p + 1) - 1 = p
        BY <1>1
    <2>10. p + 1 # n
        BY <1>2, <2>8, <2>9, <2>7, NodeParts
    <2>11. p + 1 \notin lower
        BY <1>1, <2>2, <2>6
    <2>12. ~(tab.depth[p + 1] < tab.depth[n])
        BY <1>1, <2>7, <2>10, <2>11
    <2>13. tab.depth[p + 1] \in Nat /\ tab.depth[p] \in Nat /\ tab.depth[n] \in Nat
        BY <2>7, NodeParts
    <2>14. tab.depth[p + 1] <= tab.depth[p] + 1
        BY <2>8, <2>9
    <2>. QED
        BY <1>2, <2>12, <2>13, <2>14
<1>. QED
    BY <1>1, <1>2, NodeParts DEF Children

(* What is between an element and one above it is below the latter.        *)
LEMMA Between2 ==
    ASSUME Types, NEW n \in Nodes, NEW k \in Nodes, NEW p \in Nodes, Below(n, p), p < k, k < n
    PROVE  Below(k, p)
BY NodeParts DEF Below, IsBelow

(* When s are the elements above n, the top of the stack is its parent, if *)
(* that is a structure or a union.                                         *)
LEMMA TopIsParent ==
    ASSUME Types, NEW s \in Seq(Nodes), \A i, j \in DOMAIN s : i < j => s[i] < s[j],
           NEW n \in Nodes, \A k \in Nodes : Below(n, k) <=> \E i \in DOMAIN s : s[i] = k,
           NEW p \in Nodes
    PROVE  IsTop(s, p) <=> Kind(p) \in Nested /\ n \in Children(p)
<1>1. DOMAIN s \subseteq Nat /\ \A i \in DOMAIN s : s[i] \in Nodes /\ s[i] \in Nat
    BY NodeParts
<1>2. ASSUME IsTop(s, p)
      PROVE  Kind(p) \in Nested /\ n \in Children(p)
    <2>1. PICK i \in DOMAIN s :
              /\ s[i] = p /\ Kind(p) \in Nested
              /\ \A j \in DOMAIN s : j > i => Kind(s[j]) \notin Nested
        BY <1>2 DEF IsTop
    <2>2. Below(n, p)
        BY <2>1
    <2>3. ASSUME NEW k \in Nodes, p < k, Below(n, k)
          PROVE  FALSE
        <3>1. PICK j \in DOMAIN s : s[j] = k
            BY <2>3
        <3>2. i < j
            BY <1>1, <2>1, <2>3, <3>1
        <3>3. Kind(k) \in Containers
            BY <2>1, <2>3, <3>1, <3>2, TemplateParts DEF Types, Nodes, Kind, Below
        <3>4. Below(k, p)
            BY <2>2, <2>3, BelowDepth, Between2
        <3>. QED
            BY <2>1, <3>3, <3>4, LeafHasNone
    <2>. QED
        BY <2>1, <2>2, <2>3, NearestIsParent
<1>3. ASSUME Kind(p) \in Nested, n \in Children(p)
      PROVE  IsTop(s, p)
    <2>1. Below(n, p) /\ tab.depth[n] = tab.depth[p] + 1
        BY <1>3 DEF Children
    <2>2. PICK i \in DOMAIN s : s[i] = p
        BY <2>1
    <2>3. ASSUME NEW j \in DOMAIN s, j > i
          PROVE  FALSE
        <3>1. p < s[j] /\ s[j] \in Nodes /\ Below(n, s[j])
            BY <1>1, <2>2, <2>3
        <3>2. s[j] < n /\ tab.depth[n] > tab.depth[s[j]]
            BY <3>1, BelowDepth
        <3>3. Below(s[j], p)
            BY <2>1, <3>1, <3>2, Between2
        <3>4. tab.depth[s[j]] > tab.depth[p]
            BY <3>1, <3>3, BelowDepth
        <3>5. tab.depth[n] \in Nat /\ tab.depth[p] \in Nat /\ tab.depth[s[j]] \in Nat
            BY <3>1, NodeParts
        <3>. QED
            BY <2>1, <3>2, <3>4, <3>5
    <2>. QED
        BY <1>3, <2>2, <2>3 DEF IsTop
<1>. QED
    BY <1>2, <1>3

(* The open elements are those above the one that is visited, and those    *)
(* that stay open are above the one that is left.                          *)
LEMMA VisitedParent ==
    ASSUME Types, Chain, Passed, NEW n \in Nodes, Visits(n), NEW p \in Nodes
    PROVE  IsTop(open, p) <=> Kind(p) \in Nested /\ n \in Children(p)
<1>1. \A k \in Nodes : Below(n, k) <=> \E i \in DOMAIN open : open[i] = k
    <2>1. ASSUME NEW k \in Nodes, Below(n, k)
          PROVE  \E i \in DOMAIN open : open[i] = k
        <3>1. k < n /\ n = pos /\ n \in Nat
            BY <2>1, BelowDepth, NodeParts DEF Visits
        <3>. QED
            BY <2>1, <3>1 DEF Passed, IsOpen
    <2>. QED
        BY <2>1, VisitedIsBelow
<1>2. open \in Seq(Nodes) /\ \A i, j \in DOMAIN open : i < j => open[i] < open[j]
    BY DEF Types, Chain
<1>. QED
    BY <1>1, <1>2, TopIsParent

(* The last open element is the one with the largest number.               *)
LEMMA LastIsGreatest ==
    ASSUME Types, Chain, NEW n \in Nodes, Ends(n)
    PROVE  IsOpen(n) /\ n < pos /\ \A k \in Nodes : IsOpen(k) => k <= n
<1>1. /\ open # <<>> /\ n = open[Len(open)] /\ DOMAIN open = 1..Len(open) /\ Len(open) \in Nat \ {0}
      /\ \A i \in DOMAIN open : open[i] \in Nodes /\ open[i] \in Nat
    <2>1. open \in Seq(Nodes) /\ open # <<>> /\ n = open[Len(open)]
        BY DEF Ends, Types
    <2>2. Nodes \subseteq Nat
        BY NodeParts
    <2>3. DOMAIN open = 1..Len(open) /\ Len(open) \in Nat \ {0}
        BY <2>1, RestIs
    <2>4. \A i \in DOMAIN open : open[i] \in Nodes
        BY <2>1
    <2>. QED
        BY <2>1, <2>2, <2>3, <2>4
<1>2. Len(open) \in DOMAIN open
    BY <1>1
<1>3. \A i \in DOMAIN open : i = Len(open) \/ open[i] < open[Len(open)]
    BY <1>1, <1>2 DEF Chain
<1>. QED
    BY <1>1, <1>2, <1>3 DEF IsOpen, Chain

LEMMA LeftParent ==
    ASSUME Types, Chain, OpenAbove, NEW n \in Nodes, Ends(n), NEW p \in Nodes
    PROVE  IsTop(Rest, p) <=> Kind(p) \in Nested /\ n \in Children(p)
<1>1. /\ Rest \in Seq(Nodes) /\ DOMAIN Rest = 1..(Len(open) - 1) /\ DOMAIN open = 1..Len(open)
      /\ Len(open) \in Nat \ {0} /\ \A i \in DOMAIN Rest : Rest[i] = open[i]
      /\ n = open[Len(open)]
    BY RestIs DEF Ends, Types
<1>2. \A k \in Nodes : Below(n, k) <=> \E i \in DOMAIN Rest : Rest[i] = k
    <2>1. ASSUME NEW k \in Nodes, Below(n, k)
          PROVE  \E i \in DOMAIN Rest : Rest[i] = k
        <3>1. IsOpen(k)
            BY <2>1, LastIsGreatest DEF OpenAbove
        <3>2. PICK i \in DOMAIN open : open[i] = k
            BY <3>1 DEF IsOpen
        <3>3. k # n
            BY <2>1, BelowDepth, NodeParts
        <3>. QED
            BY <1>1, <3>2, <3>3
    <2>. QED
        BY <2>1, LastIsBelow
<1>3. \A i, j \in DOMAIN Rest : i < j => Rest[i] < Rest[j]
    BY <1>1 DEF Chain
<1>. QED
    BY <1>1, <1>2, <1>3, TopIsParent

LEMMA OpenAboveStep ==
    ASSUME Types, Chain, Passed, OpenAbove, LayoutNext
    PROVE  OpenAbove'
<1>1. PICK n \in Nodes : Entering(n) \/ Passing(n) \/ Leaving(n)
    BY StepForms
<1>. SUFFICES ASSUME NEW m \in Nodes, NEW k \in Nodes, IsOpen(m)', Below(m, k)
              PROVE  IsOpen(k)'
    BY SameTemplate DEF OpenAbove
<1>2. CASE Entering(n)
    <2>1. IsOpen(m) \/ m = n
        BY <1>2, OpenEntered
    <2>2. CASE IsOpen(m)
        BY <1>2, <2>2, OpenEntered DEF OpenAbove
    <2>3. CASE m = n
        <3>1. k < pos
            BY <1>2, <2>3, BelowDepth DEF Entering, Visits
        <3>2. IsOpen(k)
            BY <1>2, <2>3, <3>1, NodeParts DEF Passed, Entering, Visits
        <3>. QED
            BY <1>2, <3>2, OpenEntered
    <2>. QED
        BY <2>1, <2>2, <2>3
<1>3. CASE Passing(n)
    BY <1>3 DEF Passing, OpenAbove, IsOpen
<1>4. CASE Leaving(n)
    <2>1. IsOpen(m) /\ m # n
        BY <1>4, OpenLeft
    <2>2. IsOpen(k)
        BY <2>1 DEF OpenAbove
    <2>3. k # n
        BY <1>4, <2>1, LastIsGreatest, BelowDepth, NodeParts DEF Leaving
    <2>. QED
        BY <1>4, <2>2, <2>3, OpenLeft
<1>. QED
    BY <1>1, <1>2, <1>3, <1>4

-----------------------------------------------------------------------------
(* The totals.                                                             *)

(* A step enters an element, or an element is left with it: what was       *)
(* visited and is not entered has been left.                               *)
FinishedIs(n) == ~Finished(n) /\ \A m \in Nodes : Finished(m)' <=> Finished(m) \/ m = n

LEMMA EnteredFinished ==
    ASSUME Types, NEW n \in Nodes, Entering(n), NEW m \in Nodes
    PROVE  Finished(m)' <=> Finished(m)
<1>1. IsOpen(m)' <=> IsOpen(m) \/ m = n
    BY OpenEntered
<1>2. pos' = pos + 1 /\ pos = n /\ m \in Nat /\ n \in Nat
    BY NodeParts DEF Entering, Visits
<1>. QED
    BY <1>1, <1>2 DEF Finished

LEMMA VisitedFinished ==
    ASSUME Types, Chain, NEW n \in Nodes, Visits(n), pos' = n + 1, open' = open
    PROVE  FinishedIs(n)
<1>1. pos = n /\ n \in Nat /\ \A m \in Nodes : m \in Nat
    BY NodeParts DEF Visits
<1>2. ~IsOpen(n)
    BY <1>1 DEF IsOpen, Chain
<1>3. \A m \in Nodes : IsOpen(m)' <=> IsOpen(m)
    BY DEF IsOpen
<1>. QED
    BY <1>1, <1>2, <1>3 DEF Finished, FinishedIs

LEMMA LeftFinished ==
    ASSUME Types, Chain, NEW n \in Nodes, Leaving(n)
    PROVE  FinishedIs(n)
<1>1. IsOpen(n) /\ n < pos /\ pos' = pos
    BY LastIsGreatest DEF Leaving
<1>2. \A m \in Nodes : IsOpen(m)' <=> IsOpen(m) /\ m # n
    BY OpenLeft
<1>. QED
    BY <1>1, <1>2 DEF Finished, FinishedIs

(* When an element is left all below it has been left.                     *)
LEMMA AllDone ==
    ASSUME Types, Chain, NEW n \in Nodes, Ends(n)
    PROVE  Done(n) = Children(n)
<1>1. ASSUME NEW m \in Children(n)
      PROVE  Finished(m)
    <2>1. m \in Nodes /\ Below(m, n) /\ n < m /\ n \in Nat /\ m \in Nat
        BY BelowDepth, NodeParts DEF Children
    <2>2. m < pos
        BY <2>1, LastIsGreatest, NothingBehind, NodeParts DEF Ends
    <2>3. ~IsOpen(m)
        BY <2>1, LastIsGreatest
    <2>. QED
        BY <2>2, <2>3 DEF Finished
<1>. QED
    BY <1>1 DEF Done

(* One more member of p was left, or an element that is none.              *)
LEMMA DoneAdds ==
    ASSUME tab' = tab, NEW n \in Nodes, FinishedIs(n), NEW p \in Nodes
    PROVE  /\ n \notin Children(p) => Done(p)' = Done(p)
           /\ n \in Children(p) => Done(p)' = Done(p) \union {n} /\ n \notin Done(p)
<1>1. Children(p)' = Children(p) /\ Children(p) \subseteq Nodes
    BY SizeKept DEF Children
<1>. QED
    BY <1>1 DEF Done, FinishedIs

LEMMA SumWithOne ==
    ASSUME Types, Totals, FitsStack, NEW n \in Nodes, Size[n] \in Nat, NEW p \in Nodes, n \notin Done(p)
    PROVE  SumOf([m \in Done(p) \union {n} |-> Size[m]]) = SumOf([m \in Done(p) |-> Size[m]]) + Size[n]
<1>. DEFINE T == Done(p)
            r == [m \in T \union {n} |-> Size[m]]
<1>1. \A m \in T : Size[m] \in Nat
    BY DEF Done, Children, Totals, Summed
<1>2. r \in [T \union {n} -> Int]
    BY <1>1
<1>3. IsFiniteSet(T)
    <2>1. T \subseteq 1..Len(tab.kind) /\ Len(tab.kind) \in Nat
        BY NodeParts DEF Done, Children
    <2>2. IsFiniteSet(1..Len(tab.kind))
        BY <2>1, FS_Interval
    <2>. QED
        BY <2>1, <2>2, FS_Subset
<1>4. [e \in T |-> r[e]] = [m \in T |-> Size[m]] /\ r[n] = Size[n]
    OBVIOUS
<1>5. [e \in T \union {n} |-> r[e]] = r
    OBVIOUS
<1>. HIDE DEF T
<1>6. n \notin T
    BY DEF T
<1>. HIDE DEF r
<1>7. SumOf([e \in T \union {n} |-> r[e]]) = SumOf([e \in T |-> r[e]]) + r[n]
    BY <1>2, <1>3, <1>6, SumAdds
<1>8. SumOf(r) = SumOf([m \in T |-> Size[m]]) + Size[n]
    BY <1>4, <1>5, <1>7
<1>. QED
    BY <1>8 DEF r, T

LEMMA TotalsAdd ==
    ASSUME Types, Totals, FitsStack, tab' = tab, NEW n \in Nodes, FinishedIs(n), Size[n] \in Nat,
           NEW s \in Seq(Nodes), total' = WithMember(s, Size[n]),
           \A p \in Nodes : IsTop(s, p) <=> Kind(p) \in Nested /\ n \in Children(p),
           NEW p \in Nodes
    PROVE  Summed(p)'
<1>. DEFINE D == Done(p)
            E == Done(p)'
<1>1. /\ Kind(p)' = Kind(p) /\ Size' = Size
      /\ Finished(p)' => Finished(p) \/ p = n
      /\ total'[p] = IF ~IsTop(s, p) THEN total[p]
                     ELSE IF Kind(p) = "struct" THEN total[p] + Size[n] ELSE Larger(total[p], Size[n])
    BY SizeKept DEF Kind, FinishedIs, WithMember
<1>2. Summed(p)
    BY DEF Totals, Summed
<1>3. \A m \in D : Size[m] \in Nat
    BY DEF Totals, Summed, Done, Children
<1>. HIDE DEF D, E
<1>4. (n \notin Children(p) => E = D) /\ (n \in Children(p) => E = D \union {n} /\ n \notin D)
    BY DoneAdds DEF D, E
<1>5. Finished(p)' => Size'[p] \in Nat
    BY <1>1, <1>2 DEF Summed
<1>6. CASE Kind(p) = "struct"
    <2>1. total[p] = SumOf([m \in D |-> Size[m]])
        BY <1>2, <1>6 DEF Summed, D
    <2>2. CASE n \in Children(p)
        <3>1. SumOf([m \in D \union {n} |-> Size[m]]) = SumOf([m \in D |-> Size[m]]) + Size[n]
            BY <1>4, <2>2, SumWithOne DEF D
        <3>2. IsTop(s, p)
            BY <1>6, <2>2 DEF Nested
        <3>3. E = D \union {n}
            BY <1>4, <2>2
        <3>4. total'[p] = SumOf([m \in E |-> Size[m]])
            BY <1>1, <1>6, <2>1, <3>1, <3>2, <3>3
        <3>. QED
            BY <1>1, <1>5, <1>6, <3>4 DEF Summed, E
    <2>3. CASE n \notin Children(p)
        <3>1. total'[p] = SumOf([m \in E |-> Size[m]])
            BY <1>1, <1>4, <2>1, <2>3
        <3>. QED
            BY <1>1, <1>5, <1>6, <3>1 DEF Summed, E
    <2>. QED
        BY <2>2, <2>3
<1>7. CASE Kind(p) = "union"
    <2>1. IsLargest(total[p], {Size[m] : m \in D} \union {0})
        BY <1>2, <1>7 DEF Summed, D
    <2>2. CASE n \in Children(p)
        <3>1. IsLargest(Larger(total[p], Size[n]), {Size[m] : m \in D \union {n}} \union {0})
            <4>1. total[p] \in Nat /\ \A m \in D : Size[m] <= total[p]
                <5>1. /\ total[p] \in {Size[m] : m \in D} \union {0}
                      /\ \A z \in {Size[m] : m \in D} \union {0} : z <= total[p]
                    BY <2>1 DEF IsLargest
                <5>. QED
                    BY <1>3, <5>1
            <4>2. total[p] \in {Size[m] : m \in D} \union {0}
                BY <2>1 DEF IsLargest
            <4>. DEFINE y == Larger(total[p], Size[n])
            <4>3. y \in Nat /\ y >= total[p] /\ y >= Size[n] /\ y \in {total[p], Size[n]}
                BY <4>1 DEF Larger
            <4>. HIDE DEF y
            <4>4. y \in {Size[m] : m \in D \union {n}} \union {0}
                BY <4>2, <4>3
            <4>5. \A m \in D \union {n} : Size[m] <= y
                BY <1>3, <4>1, <4>3
            <4>6. IsLargest(y, {Size[m] : m \in D \union {n}} \union {0})
                BY <4>3, <4>4, <4>5 DEF IsLargest
            <4>. QED
                BY <4>6 DEF y
        <3>2. IsTop(s, p)
            BY <1>7, <2>2 DEF Nested
        <3>3. E = D \union {n}
            BY <1>4, <2>2
        <3>4. total'[p] = Larger(total[p], Size[n])
            BY <1>1, <1>7, <3>2
        <3>5. IsLargest(total'[p], {Size[m] : m \in E} \union {0})
            BY <3>1, <3>3, <3>4
        <3>. QED
            BY <1>1, <1>5, <1>7, <3>5 DEF Summed, E, IsLargest
    <2>3. CASE n \notin Children(p)
        <3>1. IsLargest(total'[p], {Size[m] : m \in E} \union {0})
            BY <1>1, <1>4, <2>1, <2>3
        <3>. QED
            BY <1>1, <1>5, <1>7, <3>1 DEF Summed, E, IsLargest
    <2>. QED
        BY <2>2, <2>3
<1>8. CASE Kind(p) \notin Nested
    BY <1>1, <1>5, <1>8 DEF Summed, Nested
<1>. QED
    BY <1>6, <1>7, <1>8 DEF Nested

(* Nothing is added.                                                       *)
LEMMA NothingAdded ==
    ASSUME Types, NEW s \in Seq(Nodes)
    PROVE  WithMember(s, 0) = total
BY DEF WithMember, Types, Larger

(* The largest is the maximum.                                             *)
LEMMA LargestIsMax ==
    ASSUME NEW T, T \subseteq Int, NEW x, IsLargest(x, T)
    PROVE  Max(T) = x
<1>. DEFINE Q(c) == c \in T /\ \A y \in T : c >= y
<1>1. Max(T) = CHOOSE c : Q(c)
    BY DEF Max
<1>2. Q(x)
    BY DEF IsLargest
<1>3. \A c : Q(c) => c = x
    BY <1>2
<1>. HIDE DEF Q
<1>. QED
    BY <1>1, <1>2, <1>3

(* The total of a structure or a union that is left is its size.           *)
LEMMA WholeSize ==
    ASSUME Types, Chain, Totals, FitsStack, NEW n \in Nodes, Ends(n), Kind(n) \in Nested
    PROVE  total[n] = Size[n] /\ Size[n] \in Nat
<1>. DEFINE D == Done(n)
<1>1. D = Children(n)
    BY AllDone
<1>2. Summed(n)
    BY DEF Totals, Summed
<1>3. \A m \in D : Size[m] \in Nat
    BY DEF Totals, Summed, Done, Children
<1>4. Size[n] = SizeWith(Size, n) /\ Kind(n) \notin DOMAIN Length /\ total[n] \in Nat
    BY SizeIs, LayoutAssumption DEF Types
<1>5. CASE Kind(n) = "struct"
    BY <1>1, <1>2, <1>4, <1>5 DEF Summed, SizeWith
<1>6. CASE Kind(n) = "union"
    <2>1. IsLargest(total[n], {Size[m] : m \in D} \union {0})
        BY <1>2, <1>6 DEF Summed
    <2>. HIDE DEF D
    <2>2. Max({Size[m] : m \in D} \union {0}) = total[n]
        BY <1>3, <2>1, LargestIsMax
    <2>3. Size[n] = Max({Size[m] : m \in D} \union {0})
        BY <1>1, <1>4, <1>6 DEF SizeWith
    <2>. QED
        BY <1>4, <2>2, <2>3
<1>. QED
    BY <1>5, <1>6 DEF Nested

(* The stack has room for every structure and union: all that are open     *)
(* around one are above it.                                                *)
LEMMA StackHasRoom ==
    ASSUME Types, Chain, FitsStack
    PROVE  ~StackFull
<1>. SUFFICES ASSUME NEW n \in Nodes, Visits(n), Kind(n) \in Nested
              PROVE  Depth \in Nat /\ Depth < MaxDepth
    BY LayoutAssumption DEF StackFull
<1>. DEFINE S == {i \in DOMAIN open : Kind(open[i]) \in Nested}
            T == {m \in Nodes : Kind(m) \in Nested /\ Below(n, m)}
            f == [i \in S |-> open[i]]
<1>1. IsFiniteSet(T)
    <2>1. T \subseteq 1..Len(tab.kind) /\ Len(tab.kind) \in Nat
        BY NodeParts
    <2>2. IsFiniteSet(1..Len(tab.kind))
        BY <2>1, FS_Interval
    <2>. QED
        BY <2>1, <2>2, FS_Subset
<1>2. \A i \in S : open[i] \in T
    BY VisitedIsBelow
<1>3. \A i, j \in S : i # j => open[i] # open[j]
    <2>1. DOMAIN open \subseteq Int /\ \A i \in DOMAIN open : open[i] \in Int
        <3>1. open \in Seq(Nodes) /\ Nodes \subseteq Int
            BY NodeParts DEF Types
        <3>2. DOMAIN open \subseteq Int
            BY <3>1
        <3>3. \A i \in DOMAIN open : open[i] \in Nodes
            BY <3>1
        <3>. QED
            BY <3>1, <3>2, <3>3
    <2>. QED
        BY <2>1 DEF Chain
<1>. HIDE DEF S, T
<1>4. f \in Injection(S, T)
    BY <1>2, <1>3 DEF Injection, IsInjective
<1>5. IsFiniteSet(S) /\ Cardinality(S) <= Cardinality(T)
    BY <1>1, <1>4, FS_Injection
<1>6. Cardinality(T) < MaxDepth
    BY DEF FitsStack, T
<1>7. Cardinality(S) \in Nat /\ Cardinality(T) \in Nat /\ MaxDepth \in Nat
    BY <1>1, <1>5, FS_CardinalityType, LayoutAssumption
<1>8. Cardinality(S) < MaxDepth
    BY <1>5, <1>6, <1>7
<1>. QED
    BY <1>7, <1>8 DEF Depth, S

(* A step that adds no member to what has been left.                       *)
LEMMA TotalsEnter ==
    ASSUME Types, Totals, FitsStack, tab' = tab, total' = total, NEW n \in Nodes, Entering(n),
           NEW p \in Nodes
    PROVE  Summed(p)'
<1>1. Done(p)' = Done(p) /\ (Finished(p)' <=> Finished(p)) /\ Size' = Size /\ Kind(p)' = Kind(p)
    <2>1. Children(p)' = Children(p) /\ Children(p) \subseteq Nodes
        BY SizeKept DEF Children
    <2>. QED
        BY <2>1, SizeKept, EnteredFinished DEF Done, Kind
<1>2. Summed(p)
    BY DEF Totals, Summed
<1>. DEFINE D == Done(p)
<1>3. Done(p)' = D
    BY <1>1
<1>4. /\ Finished(p) => Size[p] \in Nat
      /\ Kind(p) = "struct" => total[p] = SumOf([m \in D |-> Size[m]])
      /\ Kind(p) = "union" => IsLargest(total[p], {Size[m] : m \in D} \union {0})
    BY <1>2 DEF Summed
<1>. HIDE DEF D
<1>. QED
    BY <1>1, <1>3, <1>4 DEF Summed, IsLargest

(* What is neither a structure nor a union nor a column has no size.       *)
LEMMA NoSize ==
    ASSUME Types, NEW n \in Nodes, Kind(n) \in Ignored \union Containers
    PROVE  Size[n] = 0
BY SizeIs, LayoutAssumption DEF SizeWith, Ignored, Containers, Nested

LEMMA TotalsStep ==
    ASSUME Types, Chain, Fresh, Passed, OpenAbove, Totals, LayoutNext
    PROVE  Totals'
<1>1. tab' = tab /\ Nodes' = Nodes /\ Size' = Size
    BY SameTemplate, SizeKept
<1>. SUFFICES ASSUME FitsStack
              PROVE  \A p \in Nodes : Summed(p)' /\ Measured(p)'
    BY SameTemplate DEF Totals, FitsStack
<1>2. \A n \in Nodes : Measured(n)
    BY DEF Totals
<1>. USE <1>1 DEF Unset
<1>3. open \in Seq(Nodes)
    BY DEF Types
<1>4. CASE VisitColumn
    <2>1. PICK n \in Nodes :
              /\ Visits(n) /\ Kind(n) \in DOMAIN Length
              /\ at' = [at EXCEPT ![n] = offset]
              /\ len' = [len EXCEPT ![n] = Length[Kind(n)]]
              /\ total' = WithMember(open, Length[Kind(n)])
              /\ pos' = n + 1 /\ open' = open
        BY <1>4 DEF VisitColumn
    <2>2. Size[n] = Length[Kind(n)] /\ Size[n] \in Nat
        BY <2>1, SizeIs, LayoutAssumption DEF SizeWith
    <2>3. FinishedIs(n)
        BY <2>1, VisitedFinished
    <2>4. \A p \in Nodes : Summed(p)'
        BY <1>1, <1>3, <2>1, <2>2, <2>3, VisitedParent, TotalsAdd
    <2>5. \A p \in Nodes : Measured(p)'
        BY <1>2, <2>1, <2>2 DEF Measured, Types
    <2>. QED
        BY <2>4, <2>5
<1>5. CASE VisitIgnored
    <2>1. PICK n \in Nodes :
              /\ Visits(n) /\ Kind(n) \in Ignored
              /\ at' = at /\ len' = len /\ total' = total /\ pos' = n + 1 /\ open' = open
        BY <1>5 DEF VisitIgnored
    <2>2. Size[n] = 0 /\ total' = WithMember(open, Size[n])
        BY <1>3, <2>1, NoSize, NothingAdded
    <2>3. FinishedIs(n)
        BY <2>1, VisitedFinished
    <2>4. \A p \in Nodes : Summed(p)'
        BY <1>1, <1>3, <2>1, <2>2, <2>3, VisitedParent, TotalsAdd
    <2>. QED
        BY <1>2, <2>1, <2>4 DEF Measured
<1>6. CASE OpenNested \/ OpenContainer
    <2>1. PICK n \in Nodes : Entering(n) /\ at' = at /\ len' = len /\ total' = total
        BY <1>6 DEF OpenNested, OpenContainer, Enter, Entering
    <2>2. \A p \in Nodes : Summed(p)'
        BY <2>1, TotalsEnter
    <2>. QED
        BY <1>2, <2>1, <2>2 DEF Measured
<1>7. CASE StackFull
    BY <1>7, StackHasRoom
<1>8. CASE CloseNested
    <2>1. PICK n \in Nodes :
              /\ Ends(n) /\ Kind(n) \in Nested /\ Leaving(n)
              /\ at' = [at EXCEPT ![n] = StartOf(n)]
              /\ len' = [len EXCEPT ![n] = total[n]]
              /\ total' = WithMember(Rest, total[n])
        BY <1>8 DEF CloseNested, Leaving
    <2>2. Size[n] = total[n] /\ Size[n] \in Nat
        BY <2>1, WholeSize
    <2>3. FinishedIs(n) /\ Rest \in Seq(Nodes)
        BY <1>3, <2>1, LeftFinished, RestIs DEF Ends
    <2>4. \A p \in Nodes : Summed(p)'
        BY <1>1, <2>1, <2>2, <2>3, LeftParent, TotalsAdd
    <2>5. StartOf(n) \in Nat
        BY DEF Types, StartOf
    <2>6. \A p \in Nodes : Measured(p)'
        BY <1>2, <2>1, <2>2, <2>5 DEF Measured, Types
    <2>. QED
        BY <2>4, <2>6
<1>9. CASE CloseHeadBody \/ CloseTable
    <2>1. PICK n \in Nodes :
              /\ Ends(n) /\ Kind(n) \in Containers /\ Leaving(n) /\ len' = len /\ total' = total
              /\ at' = at \/ at' = [at EXCEPT ![n] = offset]
        BY <1>9 DEF CloseHeadBody, CloseTable, Leaving, Containers
    <2>2. Size[n] = 0
        BY <2>1, NoSize
    <2>3. FinishedIs(n) /\ Rest \in Seq(Nodes)
        BY <1>3, <2>1, LeftFinished, RestIs DEF Ends
    <2>4. total' = WithMember(Rest, Size[n])
        BY <2>1, <2>2, <2>3, NothingAdded
    <2>5. \A p \in Nodes : Summed(p)'
        BY <1>1, <2>1, <2>2, <2>3, <2>4, LeftParent, TotalsAdd
    <2>6. at[n] = Unset
        BY <2>1, LastIsGreatest, LayoutAssumption DEF Fresh
    <2>7. \A p \in Nodes : Measured(p)'
        BY <1>2, <2>1, <2>2, <2>6 DEF Measured, Types
    <2>. QED
        BY <2>5, <2>7
<1>. QED
    BY <1>4, <1>5, <1>6, <1>7, <1>8, <1>9 DEF LayoutNext

LEMMA InitTotals ==
    ASSUME Init, Types
    PROVE  OpenAbove /\ Totals
<1>1. \A n \in Nodes : ~Finished(n) /\ ~IsOpen(n)
    <2>1. \A n \in Nodes : n >= 1
        BY NodeParts
    <2>. QED
        BY <2>1 DEF Init, Finished, IsOpen
<1>2. ASSUME NEW n \in Nodes
      PROVE  Summed(n) /\ Measured(n)
    <2>1. Done(n) = {} /\ total[n] = 0
        BY <1>1 DEF Done, Children, Init
    <2>2. [m \in {} |-> Size[m]] = [m \in {} |-> 0]
        OBVIOUS
    <2>3. SumOf([m \in Done(n) |-> Size[m]]) = 0
        BY <2>1, <2>2, SumOfNone
    <2>4. IsLargest(0, {Size[m] : m \in Done(n)} \union {0})
        BY <2>1 DEF IsLargest
    <2>5. Summed(n)
        BY <1>1, <2>1, <2>3, <2>4 DEF Summed
    <2>. QED
        BY <2>5 DEF Measured, Init
<1>. QED
    BY <1>1, <1>2 DEF OpenAbove, Totals

-----------------------------------------------------------------------------
(* The theorems.                                                           *)

LEMMA InitIInv == Init => IInv
<1> SUFFICES ASSUME Init
             PROVE  IInv
    OBVIOUS
<1>1. Types
    <2>1. pos \in 1..(Len(tab.kind) + 1)
        BY TemplateParts DEF Init
    <2> QED
        BY <2>1 DEF Init, Types, Unset
<1>2. Chain /\ Fresh /\ Room /\ Packed /\ Disjoint
    BY DEF Init, Chain, Fresh, Room, Packed, IsTop, IsOpen, Disjoint, IsColumn, Unset
<1>3. Passed
    BY <1>1, NodeParts DEF Init, Passed
<1>4. OpenAbove /\ Totals
    BY <1>1, InitTotals
<1> QED
    BY <1>1, <1>2, <1>3, <1>4 DEF IInv

LEMMA StepIInv ==
    ASSUME IInv, [LayoutNext]_layout
    PROVE  IInv'
<1>1. CASE LayoutNext
    BY <1>1, TypesStep, ChainStep, FreshStep, PassedStep, OpenAboveStep, RoomStep, PackedStep,
       DisjointStep, TotalsStep DEF IInv
<1>2. CASE UNCHANGED layout
    <2>1. /\ tab' = tab /\ pos' = pos /\ open' = open /\ total' = total /\ offset' = offset
          /\ structOffset' = structOffset /\ unionOffset' = unionOffset /\ at' = at /\ len' = len
        BY <1>2 DEF layout
    <2>2. Types' /\ Chain' /\ Fresh' /\ Passed'
        BY <2>1 DEF IInv, Types, Chain, Fresh, Passed, IsOpen, Nodes, Kind, Below, Unset
    <2>3. Room' /\ Packed' /\ Disjoint'
        BY <2>1 DEF IInv, Room, Packed, Disjoint, IsOpen, IsTop, IsColumn, NoUnions, Nodes, Kind, Below,
                    Unset
    <2>4. OpenAbove'
        BY <2>1 DEF IInv, OpenAbove, IsOpen, Nodes, Below
    <2>5. Totals'
        <3>1. Size' = Size /\ FitsStack' = FitsStack /\ Nodes' = Nodes
            BY <2>1, SizeKept DEF FitsStack, Nodes, Kind, Below
        <3>2. \A n \in Nodes : Done(n)' = Done(n) /\ (Finished(n)' <=> Finished(n)) /\ Kind(n)' = Kind(n)
            BY <2>1, SizeKept DEF Done, Finished, IsOpen, Kind
        <3>3. \A n \in Nodes : Summed(n) => Summed(n)'
            BY <2>1, <3>1, <3>2 DEF Summed, IsLargest
        <3>4. \A n \in Nodes : Measured(n) => Measured(n)'
            BY <2>1, <3>1 DEF Measured, Unset
        <3> QED
            BY <3>1, <3>3, <3>4 DEF IInv, Totals
    <2> QED
        BY <2>2, <2>3, <2>4, <2>5 DEF IInv
<1> QED
    BY <1>1, <1>2

(* The invariant of the walk.                                              *)
THEOREM Invariant == LayoutSpec => []IInv
<1>1. Init => IInv
    BY InitIInv
<1>2. IInv /\ [LayoutNext]_layout => IInv'
    BY StepIInv
<1> QED
    BY <1>1, <1>2, PTL DEF LayoutSpec

(* The state has its types: offsets and lengths are numbers, and no offset *)
(* of the walk falls below zero.                                           *)
THEOREM LayoutTypes == LayoutSpec => []LayoutTypeOK
<1>1. IInv => LayoutTypeOK
    BY LayoutAssumption DEF IInv, Types, LayoutTypeOK
<1> QED
    BY <1>1, Invariant, PTL

(* The columns of a body without unions share no memory and end within its *)
(* row, for every template, nested as deep as it may be.                   *)
THEOREM ColumnsDisjoint == LayoutSpec => []Disjoint
<1>1. IInv => Disjoint
    BY DEF IInv
<1> QED
    BY <1>1, Invariant, PTL

(* Every column, structure and union has its size as its length, for every *)
(* template that fits the stack, however its structures and unions nest.   *)
THEOREM LengthsAreSizes == LayoutSpec => []LenIsSize
<1>1. IInv => LenIsSize
    BY DEF IInv, Totals, Measured, LenIsSize
<1> QED
    BY <1>1, Invariant, PTL

(* Reading the seed and writing the file leave the layout alone: every     *)
(* step of RecordText is one of the walk or none.                          *)
THEOREM TextImplementsLayout == Spec => LayoutSpec
<1>1. TextInit => Init
    BY DEF TextInit
<1>2. [Next]_vars => [LayoutNext]_layout
    BY DEF Next, vars, Layout, OpenSeed, LayoutNext, Descend, NoSuchMember, EntryColumn, LineTooShort, DiesOfOverrun,
           NextLine, EndSeed, WriteHeader, WriteColumn, EndRow
<1> QED
    BY <1>1, <1>2, PTL DEF Spec, LayoutSpec

(* So the columns are disjoint wherever a seed is read or a row written.   *)
THEOREM TextDisjoint == Spec => []Disjoint
BY TextImplementsLayout, ColumnsDisjoint, PTL

(* And their lengths are their sizes.                                      *)
THEOREM TextLengths == Spec => []LenIsSize
BY TextImplementsLayout, LengthsAreSizes, PTL

-----------------------------------------------------------------------------
(* The children of an element in order.                                    *)

Rank(S, m) == Cardinality({k \in S : k < m})

(* The elements of a finite set of numbers have the ranks below its size.  *)
LEMMA Ranks ==
    ASSUME NEW S \in SUBSET Nat, IsFiniteSet(S)
    PROVE  /\ Cardinality(S) \in Nat
           /\ \A m \in S : Rank(S, m) \in 0..(Cardinality(S) - 1)
           /\ \A m, n \in S : m < n => Rank(S, m) < Rank(S, n)
<1>1. ASSUME NEW n \in Nat
      PROVE  /\ IsFiniteSet({k \in S : k < n}) /\ Rank(S, n) \in Nat
             /\ \A T \in SUBSET {k \in S : k < n} : Cardinality(T) \in Nat /\ Cardinality(T) <= Rank(S, n)
    <2>1. IsFiniteSet({k \in S : k < n})
        BY FS_Subset
    <2>. QED
        BY <2>1, FS_Subset, FS_CardinalityType DEF Rank
<1>2. ASSUME NEW m \in S, NEW T \in SUBSET S, \A k \in S : k <= m => k \in T
      PROVE  Rank(S, m) < Cardinality(T) /\ Cardinality(T) \in Nat
    <2>. DEFINE B == {k \in S : k < m}
    <2>0. m \in Nat /\ S \subseteq Nat
        OBVIOUS
    <2>a. IsFiniteSet(B) /\ IsFiniteSet(T)
        BY <1>1, <2>0, FS_Subset
    <2>1. B \union {m} \subseteq T /\ m \notin B /\ IsFiniteSet(B) /\ IsFiniteSet(T)
        <3>1. \A k \in B : k \in S /\ k <= m
            BY <2>0
        <3>2. m <= m /\ ~(m < m)
            BY <2>0
        <3>. QED
            BY <1>2, <2>a, <3>1, <3>2
    <2>2. Cardinality(B \union {m}) = Cardinality(B) + 1
        BY <2>1, FS_AddElement
    <2>3. Cardinality(B \union {m}) <= Cardinality(T) /\ Cardinality(T) \in Nat
        BY <2>1, FS_Subset, FS_CardinalityType
    <2>4. Cardinality(B) \in Nat
        BY <2>1, FS_CardinalityType
    <2>. QED
        BY <2>2, <2>3, <2>4 DEF Rank
<1>3. ASSUME NEW m \in S
      PROVE  Rank(S, m) \in 0..(Cardinality(S) - 1)
    <2>1. Rank(S, m) < Cardinality(S) /\ Cardinality(S) \in Nat
        BY <1>2
    <2>2. m \in Nat
        OBVIOUS
    <2>3. Rank(S, m) \in Nat
        BY <1>1, <2>2
    <2>. QED
        BY <2>1, <2>3
<1>4. ASSUME NEW m \in S, NEW n \in S, m < n
      PROVE  Rank(S, m) < Rank(S, n)
    <2>1. {k \in S : k < n} \in SUBSET S /\ \A k \in S : k <= m => k \in {j \in S : j < n}
        BY <1>4
    <2>. QED
        BY <1>2, <2>1 DEF Rank
<1>. QED
    BY <1>3, <1>4, FS_CardinalityType

LEMMA RankTaken ==
    ASSUME NEW S \in SUBSET Nat, IsFiniteSet(S), NEW r \in 0..(Cardinality(S) - 1)
    PROVE  \E m \in S : Rank(S, m) = r
<1>. DEFINE bad == {n \in Nat : \E T \in SUBSET S : Cardinality(T) = n
                                   /\ \E q \in 0..(n - 1) : \A m \in T : Rank(T, m) # q}
<1>. SUFFICES ASSUME bad # {} PROVE FALSE
    BY FS_CardinalityType
<1>1. PICK n \in bad : n \in Nat /\ (n # 0 => n - 1 \in Nat /\ n - 1 \notin bad)
    <2>1. bad \in SUBSET Nat
        OBVIOUS
    <2>. HIDE DEF bad
    <2>. QED
        BY <2>1, Smallest
<1>2. PICK T \in SUBSET S : Cardinality(T) = n /\ \E q \in 0..(n - 1) : \A m \in T : Rank(T, m) # q
    BY <1>1
<1>3. PICK q \in 0..(n - 1) : \A m \in T : Rank(T, m) # q
    BY <1>2
<1>a. n # 0
    BY <1>1, <1>3
<1>4. IsFiniteSet(T) /\ T # {} /\ T \in SUBSET Nat /\ n # 0
    <2>1. IsFiniteSet(T)
        BY FS_Subset
    <2>2. T # {}
        BY <1>2, <1>a, FS_EmptySet
    <2>. QED
        BY <1>a, <2>1, <2>2
<1>5. PICK g \in T : \A k \in T : g >= k
    <2>1. \A m \in T : Rank(T, m) \in 0..(n - 1)
        BY <1>2, <1>4, Ranks
    <2>. DEFINE R == {Rank(T, m) + 1 : m \in T}
    <2>2. R \in SUBSET (1..n) /\ R # {} /\ n \in Nat
        <3>1. \A m \in T : Rank(T, m) + 1 \in 1..n
            BY <1>1, <2>1
        <3>2. R # {}
            <4>1. PICK y \in T : TRUE
                BY <1>4
            <4>2. Rank(T, y) + 1 \in R
                OBVIOUS
            <4>. QED
                BY <4>2
        <3>3. R \subseteq 1..n
            BY <3>1
        <3>. HIDE DEF R
        <3>. QED
            BY <1>1, <3>2, <3>3
    <2>3. PICK x \in R : \A k \in R : x >= k
        <3>. HIDE DEF R
        <3>. QED
            BY <2>2, Greatest
    <2>5. PICK g \in T : x = Rank(T, g) + 1
        BY <2>3
    <2>6. \A k \in T : Rank(T, g) >= Rank(T, k)
        <3>1. ASSUME NEW k \in T
              PROVE  Rank(T, g) >= Rank(T, k)
            <4>1. Rank(T, k) + 1 \in R
                OBVIOUS
            <4>2. Rank(T, g) + 1 >= Rank(T, k) + 1
                BY <2>3, <2>5, <4>1
            <4>3. Rank(T, g) \in 0..(n - 1) /\ Rank(T, k) \in 0..(n - 1)
                BY <2>1
            <4>. QED
                BY <4>2, <4>3
        <3>. QED
            BY <3>1
    <2>4. ASSUME NEW k \in T, ~(g >= k)
          PROVE  FALSE
        <3>1. Rank(T, g) < Rank(T, k)
            BY <1>4, <2>4, Ranks
        <3>2. Rank(T, g) >= Rank(T, k) /\ Rank(T, g) \in 0..(n - 1) /\ Rank(T, k) \in 0..(n - 1)
            BY <2>1, <2>6
        <3>. QED
            BY <1>1, <3>1, <3>2
    <2>. QED
        BY <2>4
<1>. DEFINE U == T \ {g}
<1>6. U \in SUBSET S /\ Cardinality(U) = n - 1 /\ IsFiniteSet(U)
    BY <1>2, <1>4, FS_RemoveElement, FS_Subset
<1>7. \A m \in U : Rank(U, m) = Rank(T, m)
    <2>1. ASSUME NEW m \in U
          PROVE  {k \in U : k < m} = {k \in T : k < m}
        BY <1>5, <1>4
    <2>. QED
        BY <2>1 DEF Rank
<1>8. Rank(T, g) = n - 1
    <2>1. ASSUME NEW k \in T
          PROVE  k < g <=> k # g
        <3>1. k \in Nat /\ g \in Nat /\ g >= k
            BY <1>4, <1>5
        <3>. QED
            BY <3>1
    <2>2. {k \in T : k < g} = U
        BY <2>1
    <2>. QED
        BY <1>6, <2>2 DEF Rank
<1>9. q \in 0..((n - 1) - 1)
    BY <1>1, <1>3, <1>8
<1>10. n - 1 \notin bad
    BY <1>1, <1>4
<1>. QED
    BY <1>1, <1>3, <1>4, <1>6, <1>7, <1>9, <1>10

LEMMA ChildrenFinite ==
    ASSUME Types, NEW T \in SUBSET Nodes
    PROVE  IsFiniteSet(T) /\ T \in SUBSET Nat /\ Cardinality(T) \in Nat
<1>1. T \subseteq 1..Len(tab.kind) /\ Len(tab.kind) \in Nat
    BY NodeParts
<1>2. IsFiniteSet(1..Len(tab.kind))
    BY <1>1, FS_Interval
<1>3. IsFiniteSet(T)
    BY <1>1, <1>2, FS_Subset
<1>4. Cardinality(T) \in Nat
    BY <1>3, FS_CardinalityType
<1>. QED
    BY <1>1, <1>3, <1>4

(* The children of an element, each once and in order.                     *)
LEMMA ChildSeqIs ==
    ASSUME Types, NEW n \in Nodes
    PROVE  /\ ChildSeq(n) \in Seq(Children(n)) /\ Len(ChildSeq(n)) = Cardinality(Children(n))
           /\ DOMAIN ChildSeq(n) = 1..Cardinality(Children(n)) /\ Cardinality(Children(n)) \in Nat
           /\ \A i, j \in DOMAIN ChildSeq(n) : i < j => ChildSeq(n)[i] < ChildSeq(n)[j]
           /\ \A m \in Children(n) : \E i \in DOMAIN ChildSeq(n) : ChildSeq(n)[i] = m
<1>. DEFINE S == Children(n)
            c == ChildSeq(n)
<1>1. S \in SUBSET Nat /\ IsFiniteSet(S) /\ Cardinality(S) \in Nat
    BY ChildrenFinite DEF Children
<1>. HIDE DEF S
<1>2. c = [i \in 1..Cardinality(S) |-> CHOOSE m \in S : Rank(S, m) = i - 1]
    BY DEF ChildSeq, Rank, S
<1>. HIDE DEF c
<1>3. ASSUME NEW i \in 1..Cardinality(S)
      PROVE  c[i] \in S /\ Rank(S, c[i]) = i - 1
    <2>1. i - 1 \in 0..(Cardinality(S) - 1)
        BY <1>1
    <2>2. \E m \in S : Rank(S, m) = i - 1
        BY <1>1, <2>1, RankTaken
    <2>. QED
        BY <1>2, <2>2
<1>4. ASSUME NEW i \in 1..Cardinality(S), NEW j \in 1..Cardinality(S), i < j
      PROVE  c[i] < c[j]
    <2>1. Rank(S, c[i]) < Rank(S, c[j])
        BY <1>3, <1>4
    <2>2. c[j] < c[i] => Rank(S, c[j]) < Rank(S, c[i])
        BY <1>1, <1>3, Ranks
    <2>3. Rank(S, c[i]) = i - 1 /\ Rank(S, c[j]) = j - 1 /\ c[i] \in Nat /\ c[j] \in Nat
        BY <1>1, <1>3
    <2>. QED
        BY <1>4, <2>1, <2>2, <2>3
<1>5. ASSUME NEW m \in S
      PROVE  \E i \in 1..Cardinality(S) : c[i] = m
    <2>1. Rank(S, m) \in 0..(Cardinality(S) - 1)
        BY <1>1, Ranks
    <2>. DEFINE i == Rank(S, m) + 1
    <2>2. i \in 1..Cardinality(S) /\ i - 1 = Rank(S, m)
        BY <1>1, <2>1
    <2>. HIDE DEF i
    <2>3. c[i] \in S /\ Rank(S, c[i]) = Rank(S, m)
        BY <1>3, <2>2
    <2>4. ~(c[i] < m) /\ ~(m < c[i])
        <3>1. c[i] < m => Rank(S, c[i]) < Rank(S, m)
            BY <1>1, <2>3, Ranks
        <3>2. m < c[i] => Rank(S, m) < Rank(S, c[i])
            BY <1>1, <2>3, Ranks
        <3>. QED
            BY <2>1, <2>3, <3>1, <3>2
    <2>5. c[i] = m
        <3>1. c[i] \in Nat /\ m \in Nat
            BY <1>1, <2>3
        <3>. QED
            BY <2>4, <3>1
    <2>. QED
        BY <2>2, <2>5
<1>6. c \in Seq(S) /\ Len(c) = Cardinality(S) /\ DOMAIN c = 1..Cardinality(S)
    BY <1>1, <1>2, <1>3
<1>. QED
    BY <1>1, <1>4, <1>5, <1>6 DEF c, S

-----------------------------------------------------------------------------
(* The layout when a table is left.                                        *)

(* What has been left has its offset: a body in any case, a column if no   *)
(* part of the template is passed over.                                    *)
Laid ==
    \A n \in Nodes : Finished(n) =>
        /\ Kind(n) = "body" => at[n] # Unset
        /\ FitsStack /\ Kind(n) \in DOMAIN Length => at[n] # Unset

(* What has been left stays as it is.                                      *)
LEMMA FinishedStays ==
    ASSUME Types, Chain, LayoutNext, NEW m \in Nodes, Finished(m)
    PROVE  Finished(m)' /\ at'[m] = at[m] /\ len'[m] = len[m]
<1>1. m < pos /\ ~IsOpen(m) /\ m \in Nat
    BY NodeParts DEF Finished
<1>2. CASE VisitColumn \/ VisitIgnored
    <2>1. PICK n \in Nodes :
              /\ Visits(n) /\ pos' = n + 1 /\ open' = open
              /\ at' = at \/ at' = [at EXCEPT ![n] = offset]
              /\ len' = len \/ len' = [len EXCEPT ![n] = Length[Kind(n)]]
        BY <1>2 DEF VisitColumn, VisitIgnored
    <2>2. n # m /\ FinishedIs(n)
        BY <1>1, <2>1, VisitedFinished DEF Visits
    <2>. QED
        BY <2>1, <2>2 DEF Types, FinishedIs
<1>3. CASE OpenNested \/ OpenContainer
    <2>1. PICK n \in Nodes : Entering(n) /\ at' = at /\ len' = len
        BY <1>3 DEF OpenNested, OpenContainer, Enter, Entering
    <2>. QED
        BY <2>1, EnteredFinished
<1>4. CASE StackFull
    <2>1. PICK n \in Nodes : Passing(n) /\ at' = at /\ len' = len
        BY <1>4 DEF StackFull, Passing
    <2>2. pos < pos' /\ pos \in Nat /\ pos' \in Nat /\ open' = open
        BY <2>1, NodeParts DEF Passing, Visits
    <2>. QED
        BY <1>1, <2>1, <2>2 DEF Finished, IsOpen
<1>5. CASE CloseNested \/ CloseHeadBody \/ CloseTable
    <2>1. PICK n \in Nodes :
              /\ Leaving(n)
              /\ at' = at \/ \E a : at' = [at EXCEPT ![n] = a]
              /\ len' = len \/ len' = [len EXCEPT ![n] = total[n]]
        BY <1>5 DEF CloseNested, CloseHeadBody, CloseTable, Leaving
    <2>2. IsOpen(n) /\ FinishedIs(n)
        BY <2>1, LastIsGreatest, LeftFinished DEF Leaving
    <2>3. n # m
        BY <1>1, <2>2
    <2>. QED
        BY <2>1, <2>2, <2>3 DEF Types, FinishedIs
<1>. QED
    BY <1>2, <1>3, <1>4, <1>5 DEF LayoutNext

LEMMA LaidStep ==
    ASSUME Types, Chain, Laid, LayoutNext
    PROVE  Laid'
<1>1. ASSUME NEW m \in Nodes, Finished(m)', ~Finished(m),
             Kind(m) = "body" \/ (FitsStack /\ Kind(m) \in DOMAIN Length)
      PROVE  at'[m] # Unset
    <2>1. Kind(m) \notin Ignored \union Nested /\ (Kind(m) = "body" => Kind(m) \in Containers)
        BY <1>1, LayoutAssumption DEF Containers, Nested, Ignored
    <2>2. CASE VisitColumn
        <3>1. PICK n \in Nodes : Visits(n) /\ pos' = n + 1 /\ open' = open /\ at' = [at EXCEPT ![n] = offset]
            BY <2>2 DEF VisitColumn
        <3>2. m = n
            BY <1>1, <3>1, VisitedFinished DEF FinishedIs
        <3>. QED
            BY <3>1, <3>2 DEF Types, Unset
    <2>3. CASE VisitIgnored
        <3>1. PICK n \in Nodes : Visits(n) /\ pos' = n + 1 /\ open' = open /\ Kind(n) \in Ignored
            BY <2>3 DEF VisitIgnored
        <3>2. m = n
            BY <1>1, <3>1, VisitedFinished DEF FinishedIs
        <3>. QED
            BY <2>1, <3>1, <3>2
    <2>4. CASE OpenNested \/ OpenContainer
        <3>1. PICK n \in Nodes : Entering(n)
            BY <2>4 DEF OpenNested, OpenContainer, Enter, Entering
        <3>. QED
            BY <1>1, <3>1, EnteredFinished
    <2>5. CASE StackFull
        <3>1. PICK n \in Nodes : Passing(n) /\ Kind(n) \in Nested
            BY <2>5 DEF StackFull, Passing
        <3>2. Kind(m) = "body"
            BY <1>1, <2>5, StackHasRoom
        <3>3. m < pos' /\ ~IsOpen(m)' /\ pos = n /\ pos' \in Nat /\ n \in Nat /\ m \in Nat /\ open' = open
            BY <1>1, <3>1, NodeParts DEF Finished, Passing, Visits
        <3>4. ~IsOpen(m) /\ m >= n
            BY <1>1, <3>3 DEF Finished, IsOpen
        <3>5. m = n \/ m \in (n + 1)..(pos' - 1)
            <4>1. CASE n < m
                <5>1. n \in Int /\ m \in Int /\ pos' \in Int /\ n < m /\ m < pos'
                    BY <3>3, <4>1
                <5>2. m \in (n + 1)..(pos' - 1)
                    BY ONLY <5>1, Between
                <5>. QED
                    BY <5>2
            <4>2. m = n \/ n < m
                <5>1. n \in Int /\ m \in Int /\ m >= n
                    BY <3>3, <3>4
                <5>. QED
                    BY ONLY <5>1
            <4>. QED
                BY <4>1, <4>2
        <3>6. m = n \/ Below(m, n)
            BY <3>1, <3>5 DEF Passing
        <3>. QED
            BY <2>1, <3>1, <3>2, <3>6, LeafHasNone
    <2>6. CASE CloseNested \/ CloseHeadBody \/ CloseTable
        <3>1. PICK n \in Nodes :
                  /\ Leaving(n)
                  /\ Kind(n) \in Nested \union {"interface", "table"} \/ at' = [at EXCEPT ![n] = offset]
            BY <2>6 DEF CloseNested, CloseHeadBody, CloseTable, Leaving
        <3>2. m = n
            BY <1>1, <3>1, LeftFinished DEF FinishedIs
        <3>3. Kind(n) \notin Nested \union {"interface", "table"}
            BY <1>1, <3>2, LayoutAssumption DEF Containers, Nested
        <3>. QED
            BY <3>1, <3>2, <3>3 DEF Types, Unset
    <2>. QED
        BY <2>2, <2>3, <2>4, <2>5, <2>6 DEF LayoutNext
<1>2. ASSUME NEW m \in Nodes, Finished(m),
             Kind(m) = "body" \/ (FitsStack /\ Kind(m) \in DOMAIN Length)
      PROVE  at'[m] # Unset
    BY <1>2, FinishedStays DEF Laid
<1>3. (FitsStack' <=> FitsStack) /\ Unset' = Unset
    BY SameTemplate DEF FitsStack, Unset
<1>. QED
    BY <1>1, <1>2, <1>3, SameTemplate DEF Laid

-----------------------------------------------------------------------------
(* The table, its body and the flags.                                      *)

Table == CHOOSE n \in Nodes : Kind(n) = "table"
BodyNodes == {n \in Nodes : InBody(n)}

LEMMA TableAndBody ==
    ASSUME Types
    PROVE  /\ Body \in Nodes /\ Kind(Body) = "body" /\ Table \in Nodes /\ Kind(Table) = "table"
           /\ \A n \in Nodes : (Kind(n) = "body" => n = Body) /\ (Kind(n) = "table" => n = Table)
           /\ Below(Body, Table)
<1>1. PICK a \in Nodes, b \in Nodes :
          /\ {n \in Nodes : tab.kind[n] = "table"} = {a}
          /\ {n \in Nodes : tab.kind[n] = "body"} = {b}
          /\ IsBelow(tab, b, a)
    BY TextAssumption DEF Types, TextAssumption, Nodes
<1>2. \A n \in Nodes : (Kind(n) = "table" <=> n = a) /\ (Kind(n) = "body" <=> n = b)
    BY <1>1 DEF Kind
<1>3. Body = b /\ Table = a
    BY <1>2 DEF Body, Table
<1>. QED
    BY <1>1, <1>2, <1>3 DEF Below

(* The table and the body are those of every state.                        *)
LEMMA SameBody ==
    ASSUME tab' = tab
    PROVE  /\ Body' = Body /\ Table' = Table /\ BodyNodes' = BodyNodes /\ Nodes' = Nodes
           /\ (\A n : Kind(n)' = Kind(n)) /\ \A m, n : Below(m, n)' <=> Below(m, n)
<1>1. Nodes' = Nodes /\ (\A n : Kind(n)' = Kind(n)) /\ \A m, n : Below(m, n)' <=> Below(m, n)
    BY DEF Nodes, Kind, Below
<1>2. Body' = Body
    BY <1>1 DEF Body
<1>3. Table' = Table
    BY <1>1 DEF Table
<1>4. BodyNodes' = BodyNodes
    BY <1>1, <1>2 DEF BodyNodes, InBody
<1>. QED
    BY <1>1, <1>2, <1>3, <1>4

LEMMA BodyParts ==
    ASSUME Types, NEW n \in BodyNodes
    PROVE  /\ n \in Nodes /\ Below(n, Body) /\ Kind(n) \notin Containers
           /\ \A m \in Nodes : Below(m, n) => m \in BodyNodes
           /\ \A m \in Children(n) : m \in BodyNodes
<1>1. n \in Nodes /\ Below(n, Body) /\ Body \in Nodes /\ Kind(Body) = "body"
    BY TableAndBody DEF BodyNodes, InBody
<1>2. Kind(n) \notin Containers
    BY <1>1, TemplateParts DEF Types, Nodes, Kind, Below
<1>3. \A m \in Nodes : Below(m, n) => m \in BodyNodes
    BY <1>1, BelowBelow DEF BodyNodes, InBody
<1>. QED
    BY <1>1, <1>2, <1>3 DEF Children

LEMMA BodyChildren ==
    ASSUME Types
    PROVE  \A m \in Children(Body) : m \in BodyNodes
BY DEF Children, BodyNodes, InBody

(* What a flag stands before.                                              *)
LEMMA FlagParts ==
    ASSUME Types, NEW n \in tab.flags
    PROVE  /\ n \in Nodes /\ Kind(n) = "number" /\ n + 1 \in Nodes /\ tab.depth[n + 1] = tab.depth[n]
           /\ NextOf(n) = n + 1
           /\ n \in BodyNodes => n + 1 \in BodyNodes
<1>1. n \in Nodes /\ Kind(n) = "number" /\ n + 1 \in Nodes /\ tab.depth[n + 1] = tab.depth[n]
    BY TextAssumption DEF Types, TextAssumption, Nodes, Kind
<1>2. NextOf(n) = n + 1
    <2>1. "number" \in DOMAIN Length
        BY TextAssumption DEF TextAssumption, Stored
    <2>2. \A m \in Nodes : ~Below(m, n) /\ m \in Nat
        BY <1>1, <2>1, LeafHasNone, NodeParts
    <2>. DEFINE T == {m \in Nodes : n < m /\ ~Below(m, n)}
                Q(c) == c \in T /\ \A y \in T : c <= y
    <2>3. Q(n + 1)
        BY <1>1, <2>2
    <2>4. \A c : Q(c) => c = n + 1
        BY <1>1, <2>2, <2>3
    <2>5. NextOf(n) = CHOOSE c : Q(c)
        BY DEF NextOf, Min
    <2>. HIDE DEF Q
    <2>. QED
        BY <2>3, <2>4, <2>5
<1>3. ASSUME n \in BodyNodes
      PROVE  n + 1 \in BodyNodes
    <2>1. Below(n, Body) /\ Body \in Nodes /\ n \in Nat /\ Body \in Nat
        BY <1>1, <1>3, TableAndBody, NodeParts DEF BodyNodes, InBody
    <2>2. Body < n /\ tab.depth[n] > tab.depth[Body]
        BY <1>1, <2>1, BelowDepth
    <2>3. \A k \in (Body + 1)..n : tab.depth[k] > tab.depth[Body]
        BY <2>1 DEF Below, IsBelow
    <2>4. \A k \in (Body + 1)..(n + 1) : k \in (Body + 1)..n \/ k = n + 1
        BY <2>1
    <2>5. \A k \in (Body + 1)..(n + 1) : tab.depth[k] > tab.depth[Body]
        BY <1>1, <2>2, <2>3, <2>4
    <2>6. Below(n + 1, Body)
        BY <2>1, <2>2, <2>5 DEF Below, IsBelow
    <2>. QED
        BY <1>1, <2>6 DEF BodyNodes, InBody
<1>. QED
    BY <1>1, <1>2, <1>3

(* What the walk over a row has still to call is below the body.           *)
LEMMA CallsBelowIs ==
    ASSUME Types, NEW n \in Nodes, n = Body \/ n \in BodyNodes
    PROVE  /\ CallsBelow(n) \in Seq(BodyNodes \X Nat)
           /\ DOMAIN CallsBelow(n) = DOMAIN ChildSeq(n)
           /\ Len(CallsBelow(n)) = Cardinality(Children(n))
           /\ \A i \in DOMAIN ChildSeq(n) : CallsBelow(n)[i][1] = ChildSeq(n)[i]
<1>. DEFINE c == ChildSeq(n)
            K == Cardinality(Children(n))
<1>1. c \in Seq(Children(n)) /\ DOMAIN c = 1..K /\ K \in Nat
    BY ChildSeqIs
<1>2. \A i \in 1..K : c[i] \in BodyNodes
    BY <1>1, BodyParts, BodyChildren
<1>3. CallsBelow(n) = [i \in 1..K |-> <<c[i], 0>>]
    BY <1>1 DEF CallsBelow
<1>. HIDE DEF c, K
<1>4. CallsBelow(n) \in Seq(BodyNodes \X Nat) /\ DOMAIN CallsBelow(n) = 1..K /\ Len(CallsBelow(n)) = K
    BY <1>1, <1>2, <1>3
<1>. QED
    BY <1>1, <1>3, <1>4 DEF c, K

LEMMA CallsIs ==
    ASSUME Types, NEW n \in BodyNodes, NEW index \in Nat, HasMember(n, index)
    PROVE  Calls(n, index) \in Seq(BodyNodes \X Nat)
<1>1. n \in Nodes
    BY BodyParts
<1>2. CASE Kind(n) = "struct"
    BY <1>1, <1>2, CallsBelowIs DEF Calls
<1>3. CASE Kind(n) = "union"
    <2>1. index + 1 \in 1..Cardinality(Children(n))
        BY <1>1, <1>3, ChildSeqIs DEF HasMember
    <2>2. ChildSeq(n)[index + 1] \in Children(n)
        BY <1>1, <2>1, ChildSeqIs
    <2>3. ChildSeq(n)[index + 1] \in BodyNodes
        BY <2>2, BodyParts
    <2>. QED
        BY <1>3, <2>3 DEF Calls
<1>4. CASE Kind(n) \notin Nested
    BY <1>4 DEF Calls, Nested
<1>. QED
    BY <1>2, <1>3, <1>4 DEF Nested

LEMMA CallsBehindIs ==
    ASSUME Types, NEW n \in BodyNodes, NEW v \in Nat
    PROVE  CallsBehind(n, v) \in Seq(BodyNodes \X Nat)
<1>1. n \in tab.flags => NextOf(n) \in BodyNodes
    BY FlagParts
<1>. QED
    BY <1>1 DEF CallsBehind

-----------------------------------------------------------------------------
(* Reading and writing: types and stages.                                  *)

TextTypes ==
    /\ phase \in {"layout", "reading", "writing", "written", "dead"}
    /\ loaded \in {"not yet", "yes", "refused"}
    /\ entries \in Nat /\ line \in Nat /\ data \in Nat
    /\ todo \in Seq(BodyNodes \X Nat)
    /\ mem \in [0..(MaxWords - 1) -> Nat]
    /\ seed \in Seq(Seq(Nat)) /\ out \in Seq(Seq(Nat))

(* The table is left before its seed is read, and once; the lines read and *)
(* the lines written are those of the seed, one after another.             *)
Stages ==
    /\ phase # "layout" \/ loaded # "not yet" => Finished(Table) /\ Finished(Body)
    /\ phase = "layout" => line = 0 /\ out = <<>>
    /\ phase = "layout" /\ loaded = "not yet" => seed = <<>> /\ data = 0
    /\ phase = "reading" => loaded = "not yet" /\ line \in 1..entries /\ Len(seed) = line /\ out = <<>>
    /\ entries <= MaxLines
    /\ phase \in {"writing", "written"} => loaded = "yes" /\ line \in 1..entries /\ Len(out) = line
    /\ loaded = "yes" => Len(seed) = entries /\ entries >= 1

Walk == IInv /\ Laid /\ TextTypes /\ Stages

LEMMA TextConstants ==
    /\ FlagValues \subseteq Nat /\ MaxLines \in Nat /\ MaxWords \in Nat
    /\ TextWords \subseteq Nat \ {0} /\ Narrow \in Nat \ {0}
    /\ Stored \subseteq DOMAIN Length /\ Length["number"] = 1 /\ Length["text"] >= 1
    /\ \A c \in DOMAIN Length : Length[c] \in Nat
BY TextAssumption, LayoutAssumption DEF TextAssumption

(* A step that does not go on with the layout.                             *)
LEMMA LayoutStays ==
    ASSUME UNCHANGED layout
    PROVE  /\ tab' = tab /\ pos' = pos /\ open' = open /\ at' = at /\ len' = len
           /\ (\A n : Finished(n)' <=> Finished(n)) /\ RowSize' = RowSize
           /\ Body' = Body /\ Table' = Table /\ BodyNodes' = BodyNodes
           /\ (IInv => IInv') /\ (Laid => Laid')
<1>1. /\ tab' = tab /\ pos' = pos /\ open' = open /\ total' = total /\ offset' = offset
      /\ structOffset' = structOffset /\ unionOffset' = unionOffset /\ at' = at /\ len' = len
    BY DEF layout
<1>2. Body' = Body /\ Table' = Table /\ BodyNodes' = BodyNodes /\ Nodes' = Nodes /\ \A n : Kind(n)' = Kind(n)
    BY <1>1, SameBody
<1>3. \A n : Finished(n)' <=> Finished(n)
    BY <1>1 DEF Finished, IsOpen
<1>4. RowSize' = RowSize
    BY <1>1, <1>2 DEF RowSize
<1>5. IInv => IInv'
    BY StepIInv
<1>6. Laid => Laid'
    BY <1>1, <1>2, <1>3 DEF Laid, Unset, FitsStack, Nodes, Kind, Below
<1>. QED
    BY <1>1, <1>2, <1>3, <1>4, <1>5, <1>6

(* The size of a row is known when the body is left.                       *)
LEMMA RowSizeIs ==
    ASSUME Types, Laid, Finished(Body)
    PROVE  RowSize \in Nat /\ RowSize = at[Body] /\ at[Body] # Unset
<1>1. at[Body] # Unset /\ Body \in Nodes
    BY TableAndBody DEF Laid
<1>. QED
    BY <1>1 DEF Types, RowSize

LEMMA WordIs ==
    ASSUME Types, Laid, TextTypes, Finished(Body), NEW n \in Nodes, line >= 1
    PROVE  Word(n) \in Nat
<1>. DEFINE a == IF at[n] = Unset THEN 0 ELSE at[n]
            w == (line - 1) * RowSize + a
<1>a. RowSize \in Nat
    BY RowSizeIs
<1>d. line \in Nat
    BY DEF TextTypes
<1>b. line - 1 \in Nat
    BY <1>d
<1>c. a \in Nat
    BY DEF Types
<1>1. RowSize \in Nat /\ line - 1 \in Nat /\ a \in Nat
    BY <1>a, <1>b, <1>c
<1>2. \A x, y, z \in Nat : x * y + z \in Nat
    OBVIOUS
<1>3. w \in Nat
    BY <1>1, <1>2
<1>4. MaxWords \in Nat /\ mem \in [0..(MaxWords - 1) -> Nat]
    BY TextConstants DEF TextTypes
<1>5. Word(n) = IF w < MaxWords THEN mem[w] ELSE 0
    BY DEF Word
<1>. HIDE DEF w
<1>. QED
    BY <1>3, <1>4, <1>5

(* The sequences of the walk.                                              *)
LEMMA HeadAndTail ==
    ASSUME NEW S, NEW s \in Seq(S), s # <<>>
    PROVE  /\ s[1] \in S /\ Len(s) \in Nat \ {0} /\ DOMAIN s = 1..Len(s)
           /\ Tail(s) \in Seq(S) /\ Len(Tail(s)) = Len(s) - 1 /\ DOMAIN Tail(s) = 1..(Len(s) - 1)
           /\ \A i \in 1..(Len(s) - 1) : Tail(s)[i] = s[i + 1]
OBVIOUS

LEMMA ConcatIs ==
    ASSUME NEW S, NEW s \in Seq(S), NEW t \in Seq(S)
    PROVE  /\ s \o t \in Seq(S) /\ Len(s \o t) = Len(s) + Len(t) /\ Len(s) \in Nat /\ Len(t) \in Nat
           /\ DOMAIN (s \o t) = 1..(Len(s) + Len(t))
           /\ \A i \in 1..Len(s) : (s \o t)[i] = s[i]
           /\ \A i \in 1..Len(t) : (s \o t)[Len(s) + i] = t[i]
OBVIOUS

LEMMA TodoHead ==
    ASSUME TextTypes, todo # <<>>
    PROVE  todo[1][1] \in BodyNodes /\ todo[1][2] \in Nat /\ Tail(todo) \in Seq(BodyNodes \X Nat)
<1>1. todo[1] \in BodyNodes \X Nat /\ Tail(todo) \in Seq(BodyNodes \X Nat)
    BY HeadAndTail DEF TextTypes
<1>. QED
    BY <1>1

(* Every step goes on with the layout or keeps it.                         *)
LEMMA StepLayout ==
    ASSUME Types, [Next]_vars
    PROVE  /\ LayoutNext \/ UNCHANGED layout
           /\ tab' = tab /\ Body' = Body /\ Table' = Table /\ BodyNodes' = BodyNodes
           /\ \A n : Kind(n)' = Kind(n)
<1>1. LayoutNext \/ UNCHANGED layout
    BY DEF Next, vars, Layout, OpenSeed, LayoutNext, Descend, NoSuchMember, EntryColumn, LineTooShort, DiesOfOverrun,
           NextLine, EndSeed, WriteHeader, WriteColumn, EndRow
<1>2. tab' = tab
    BY <1>1, Constant DEF layout
<1>. QED
    BY <1>1, <1>2, SameBody

(* A column takes a field: its value, or that of a text which is too long, *)
(* and the words that are written.                                         *)
Entry(n, v, w) ==
    /\ n \in Nodes /\ phase = "reading" /\ AtColumn(n)
    /\ v = Mangled \/ v \in FieldValues(n)
    /\ w \in WordsOf(n)
    /\ seed' = [seed EXCEPT ![line] = Append(@, v)]
    /\ mem' = [i \in DOMAIN mem |-> IF i \in data..(data + w - 1) THEN v ELSE mem[i]]
    /\ reach' = Larger(reach, data + w)
    /\ excess' = Larger(excess, w - Length["text"])
    /\ todo' = CallsBehind(n, v) \o Tail(todo)
    /\ data' = data + WidthInText(n)
    /\ UNCHANGED <<phase, loaded, entries, line, out, medium, names>>
    /\ UNCHANGED layout

LEMMA EntryIs == EntryColumn => \E n, v, w : Entry(n, v, w)
<1>. SUFFICES ASSUME EntryColumn
              PROVE  \E n, v, w : Entry(n, v, w)
    OBVIOUS
<1>1. PICK n \in Nodes :
          /\ phase = "reading" /\ AtColumn(n)
          /\ \E field \in FieldValues(n), w \in WordsOf(n) :
                LET v == IF Kind(n) = "text" /\ w > Length["text"] THEN Mangled ELSE field
                IN  /\ seed' = [seed EXCEPT ![line] = Append(@, v)]
                    /\ mem' = [i \in DOMAIN mem |-> IF i \in data..(data + w - 1) THEN v ELSE mem[i]]
                    /\ reach' = Larger(reach, data + w)
                    /\ excess' = Larger(excess, w - Length["text"])
                    /\ todo' = CallsBehind(n, v) \o Tail(todo)
          /\ data' = data + WidthInText(n)
          /\ UNCHANGED <<phase, loaded, entries, line, out, medium, names>>
          /\ UNCHANGED layout
    BY Zenon DEF EntryColumn
<1>2. PICK field \in FieldValues(n), w \in WordsOf(n) :
          LET v == IF Kind(n) = "text" /\ w > Length["text"] THEN Mangled ELSE field
          IN  /\ seed' = [seed EXCEPT ![line] = Append(@, v)]
              /\ mem' = [i \in DOMAIN mem |-> IF i \in data..(data + w - 1) THEN v ELSE mem[i]]
              /\ reach' = Larger(reach, data + w)
              /\ excess' = Larger(excess, w - Length["text"])
              /\ todo' = CallsBehind(n, v) \o Tail(todo)
    BY <1>1
<1>. DEFINE v == IF Kind(n) = "text" /\ w > Length["text"] THEN Mangled ELSE field
<1>3. /\ v = Mangled \/ v \in FieldValues(n)
      /\ seed' = [seed EXCEPT ![line] = Append(@, v)]
      /\ mem' = [i \in DOMAIN mem |-> IF i \in data..(data + w - 1) THEN v ELSE mem[i]]
      /\ reach' = Larger(reach, data + w)
      /\ excess' = Larger(excess, w - Length["text"])
      /\ todo' = CallsBehind(n, v) \o Tail(todo)
    BY <1>2, Zenon
<1>4. Entry(n, v, w)
    <2>. HIDE DEF v
    <2>. QED
        BY <1>1, <1>2, <1>3 DEF Entry
<1>. QED
    BY <1>4

(* A field is a number, and so are the words that it takes.                *)
LEMMA EntryTypes ==
    ASSUME TextTypes, Stages, NEW n, NEW v, NEW w, Entry(n, v, w)
    PROVE  /\ v \in Nat /\ w \in Nat /\ WidthInText(n) \in Nat /\ data \in Nat
           /\ w - Length["text"] \in Int
           /\ w <= Length["text"] \/ Kind(n) = "text"
           /\ w <= WidthInText(n) \/ w - WidthInText(n) = w - Length["text"]
           /\ Kind(n) \in Stored => w >= 1
<1>1. /\ seed \in Seq(Seq(Nat)) /\ Len(seed) = line /\ line \in 1..entries /\ entries \in Nat
      /\ data \in Nat /\ line \in Nat
    BY DEF TextTypes, Stages, Entry
<1>2. Last(seed) \in Seq(Nat)
    BY <1>1 DEF Last
<1>3. Len(Last(seed)) \in Nat
    BY <1>2
<1>4. 10 * line + Len(Last(seed)) \in Nat /\ Mangled \in Nat
    BY <1>1, <1>3, TextConstants DEF Mangled
<1>5. v \in Nat
    BY <1>4, TextConstants DEF FieldValues, Entry
<1>6. /\ Length["number"] = 1 /\ Length["text"] \in Nat /\ Length["text"] >= 1
      /\ TextWords \subseteq Nat \ {0}
    BY TextConstants DEF Stored
<1>7. w \in WordsOf(n)
    BY DEF Entry
<1>8. /\ w \in Nat /\ WidthInText(n) \in Nat
      /\ w <= Length["text"] \/ Kind(n) = "text"
      /\ w <= WidthInText(n) \/ w - WidthInText(n) = w - Length["text"]
      /\ Kind(n) \in Stored => w >= 1
    <2>1. CASE Kind(n) = "text"
        <3>1. w \in TextWords /\ WidthInText(n) = Length["text"]
            BY <1>7, <2>1 DEF WordsOf, WidthInText, Stored
        <3>. QED
            BY <1>6, <2>1, <3>1
    <2>2. CASE Kind(n) = "number"
        <3>1. w = 1 /\ WidthInText(n) = 1
            BY <1>6, <1>7, <2>2 DEF WordsOf, WidthInText, Stored
        <3>. QED
            BY <1>6, <3>1
    <2>3. CASE Kind(n) \notin Stored
        <3>1. w = 0 /\ WidthInText(n) = 0 /\ Kind(n) # "text"
            BY <1>7, <2>3 DEF WordsOf, WidthInText, Stored
        <3>. QED
            BY <1>6, <2>3, <3>1
    <2>. QED
        BY <2>1, <2>2, <2>3 DEF Stored
<1>. QED
    BY <1>1, <1>5, <1>6, <1>8

(* The types of the text after a step.                                     *)
LEMMA TextTypesStep ==
    ASSUME Walk, [Next]_vars
    PROVE  TextTypes'
<1>. USE DEF Walk
<1>1. Types /\ TextTypes /\ Laid /\ Stages
    BY DEF IInv
<1>2. BodyNodes' = BodyNodes /\ tab' = tab
    BY <1>1, StepLayout
<1>3. CallsBelow(Body) \in Seq(BodyNodes \X Nat)
    BY <1>1, TableAndBody, CallsBelowIs
<1>a. /\ entries \in Nat /\ line \in Nat /\ data \in Nat /\ line + 1 \in Nat
      /\ seed \in Seq(Seq(Nat)) /\ out \in Seq(Seq(Nat))
      /\ Append(seed, <<>>) \in Seq(Seq(Nat)) /\ Append(out, <<>>) \in Seq(Seq(Nat))
      /\ <<>> \in Seq(BodyNodes \X Nat)
    <2>1. entries \in Nat /\ line \in Nat /\ data \in Nat /\ seed \in Seq(Seq(Nat)) /\ out \in Seq(Seq(Nat))
        BY <1>1 DEF TextTypes
    <2>2. <<>> \in Seq(Nat) /\ <<>> \in Seq(BodyNodes \X Nat)
        OBVIOUS
    <2>3. \A s \in Seq(Seq(Nat)) : Append(s, <<>>) \in Seq(Seq(Nat))
        BY <2>2
    <2>. QED
        BY <2>1, <2>2, <2>3
<1>4. CASE Layout \/ UNCHANGED vars
    BY <1>1, <1>2, <1>4 DEF Layout, text, vars, TextTypes
<1>5. CASE OpenSeed
    <2>1. entries' \in Nat /\ line' \in Nat /\ seed' \in Seq(Seq(Nat)) /\ todo' \in Seq(BodyNodes \X Nat)
        <3>1. entries' \in 1..MaxLines /\ line' = line + 1 /\ seed' = Append(seed, <<>>) /\ todo' = CallsBelow(Body)
            BY <1>5 DEF OpenSeed, BeginLine
        <3>2. entries' \in Nat
            BY <3>1, TextConstants
        <3>. QED
            BY <1>3, <1>a, <3>1, <3>2
    <2>. QED
        BY <1>1, <1>2, <1>5, <2>1 DEF OpenSeed, TextTypes
<1>6. CASE Descend
    <2>1. todo' = Calls(todo[1][1], todo[1][2]) \o Tail(todo) /\ todo # <<>> /\ HasMember(todo[1][1], todo[1][2])
        BY <1>6 DEF Descend
    <2>2. Calls(todo[1][1], todo[1][2]) \in Seq(BodyNodes \X Nat)
        BY <1>1, <2>1, TodoHead, CallsIs
    <2>3. todo' \in Seq(BodyNodes \X Nat)
        BY <1>1, <2>1, <2>2, TodoHead, ConcatIs
    <2>. QED
        BY <1>1, <1>2, <1>6, <2>3 DEF Descend, TextTypes
<1>7. CASE NoSuchMember \/ LineTooShort \/ DiesOfOverrun
    BY <1>1, <1>2, <1>7 DEF NoSuchMember, LineTooShort, DiesOfOverrun, TextTypes
<1>8. CASE EntryColumn
    <2>1. PICK n, v, w : Entry(n, v, w)
        BY <1>8, EntryIs
    <2>2. n = todo[1][1] /\ todo # <<>> /\ n \in BodyNodes
        BY <1>1, <2>1, TodoHead DEF AtColumn, Entry
    <2>3. v \in Nat /\ w \in Nat /\ WidthInText(n) \in Nat
        BY <1>1, <2>1, EntryTypes
    <2>4. /\ phase = "reading"
          /\ seed' = [seed EXCEPT ![line] = Append(@, v)]
          /\ mem' = [i \in DOMAIN mem |-> IF i \in data..(data + w - 1) THEN v ELSE mem[i]]
          /\ todo' = CallsBehind(n, v) \o Tail(todo)
          /\ data' = data + WidthInText(n)
          /\ UNCHANGED <<phase, loaded, entries, line, out, medium, names>>
        BY <2>1 DEF Entry
    <2>5. todo' \in Seq(BodyNodes \X Nat)
        BY <1>1, <2>2, <2>3, <2>4, TodoHead, CallsBehindIs, ConcatIs
    <2>6. seed' \in Seq(Seq(Nat))
        <3>1. seed \in Seq(Seq(Nat)) /\ line \in DOMAIN seed
            <4>1. Len(seed) = line /\ line \in 1..entries
                BY <1>1, <2>4 DEF Stages
            <4>. QED
                BY <1>a, <4>1
        <3>2. Append(seed[line], v) \in Seq(Nat)
            BY <2>3, <3>1
        <3>3. seed' = [seed EXCEPT ![line] = Append(seed[line], v)]
            BY <2>4
        <3>. QED
            BY <3>1, <3>2, <3>3
    <2>7. mem' \in [0..(MaxWords - 1) -> Nat]
        BY <1>1, <2>3, <2>4 DEF TextTypes
    <2>8. data' \in Nat
        BY <1>a, <2>3, <2>4
    <2>. QED
        BY <1>1, <1>2, <2>4, <2>5, <2>6, <2>7, <2>8 DEF TextTypes
<1>9. CASE NextLine
    <2>1. line' \in Nat /\ seed' \in Seq(Seq(Nat)) /\ todo' \in Seq(BodyNodes \X Nat)
        BY <1>3, <1>9, <1>a DEF NextLine, BeginLine
    <2>. QED
        BY <1>1, <1>2, <1>9, <2>1 DEF NextLine, TextTypes
<1>10. CASE EndSeed
    <2>1. todo' = <<>> /\ line' = 0 /\ loaded' \in {"yes", "refused"} /\ phase' = "layout"
        BY <1>10 DEF EndSeed
    <2>2. todo' \in Seq(BodyNodes \X Nat) /\ line' \in Nat
        BY <1>a, <2>1
    <2>. QED
        BY <1>1, <1>2, <1>10, <2>1, <2>2 DEF EndSeed, TextTypes
<1>11. CASE WriteHeader
    <2>1. line' \in Nat /\ out' \in Seq(Seq(Nat)) /\ todo' \in Seq(BodyNodes \X Nat)
        <3>1. \/ line' = line /\ todo' = todo /\ out' = out
              \/ line' = line + 1 /\ todo' = CallsBelow(Body) /\ out' = Append(out, <<>>)
            BY <1>11 DEF WriteHeader, BeginRow
        <3>2. todo \in Seq(BodyNodes \X Nat)
            BY <1>1 DEF TextTypes
        <3>. QED
            BY <1>3, <1>a, <3>1, <3>2
    <2>. QED
        BY <1>1, <1>2, <1>11, <2>1 DEF WriteHeader, TextTypes
<1>12. CASE WriteColumn
    <2>1. PICK n \in Nodes :
              /\ phase = "writing" /\ AtColumn(n)
              /\ out' = IF Kind(n) \in Stored THEN [out EXCEPT ![line] = Append(@, Word(n))] ELSE out
              /\ todo' = CallsBehind(n, Word(n)) \o Tail(todo)
              /\ UNCHANGED <<phase, loaded, entries, line, data, reach, excess, mem, seed, medium, names>>
        BY <1>12 DEF WriteColumn
    <2>2. n = todo[1][1] /\ todo # <<>> /\ n \in BodyNodes
        BY <1>1, <2>1, TodoHead DEF AtColumn
    <2>3. Finished(Body) /\ line \in 1..entries /\ Len(out) = line
        BY <1>1, <2>1 DEF Stages
    <2>4. Word(n) \in Nat
        <3>1. line >= 1
            BY <1>a, <2>3
        <3>. QED
            BY <1>1, <2>3, <3>1, WordIs
    <2>5. todo' \in Seq(BodyNodes \X Nat)
        BY <1>1, <2>1, <2>2, <2>4, TodoHead, CallsBehindIs, ConcatIs
    <2>6. out' \in Seq(Seq(Nat))
        <3>1. out \in Seq(Seq(Nat)) /\ line \in DOMAIN out
            BY <1>a, <2>3
        <3>2. Append(out[line], Word(n)) \in Seq(Nat)
            BY <2>4, <3>1
        <3>3. out' = out \/ out' = [out EXCEPT ![line] = Append(out[line], Word(n))]
            BY <2>1
        <3>4. [out EXCEPT ![line] = Append(out[line], Word(n))] \in Seq(Seq(Nat))
            BY <3>1, <3>2
        <3>. QED
            BY <3>1, <3>3, <3>4
    <2>. QED
        BY <1>1, <1>2, <2>1, <2>5, <2>6 DEF TextTypes
<1>13. CASE EndRow
    <2>1. line' \in Nat /\ out' \in Seq(Seq(Nat)) /\ todo' \in Seq(BodyNodes \X Nat)
        <3>1. \/ line' = line /\ todo' = todo /\ out' = out
              \/ line' = line + 1 /\ todo' = CallsBelow(Body) /\ out' = Append(out, <<>>)
            BY <1>13 DEF EndRow, BeginRow
        <3>2. todo \in Seq(BodyNodes \X Nat)
            BY <1>1 DEF TextTypes
        <3>. QED
            BY <1>3, <1>a, <3>1, <3>2
    <2>2. phase' \in {"writing", "written", "dead"}
        BY <1>1, <1>13, <1>1 DEF EndRow, Stages
    <2>. QED
        BY <1>1, <1>2, <1>13, <2>1, <2>2 DEF EndRow, TextTypes
<1>. QED
    BY <1>4, <1>5, <1>6, <1>7, <1>8, <1>9, <1>10, <1>11, <1>12, <1>13 DEF Next

(* When the table is left its body has been left, and both stay so.        *)
LEMMA BodyIsLeft ==
    ASSUME Types, Chain, Ends(open[Len(open)]), open # <<>>, Kind(open[Len(open)]) = "table"
    PROVE  ~Finished(Table) /\ Finished(Body) /\ open[Len(open)] = Table
<1>. DEFINE n == open[Len(open)]
<1>1. n \in Nodes
    BY RestIs DEF Types
<1>2. n = Table /\ Below(Body, Table) /\ Body \in Nodes /\ Ends(n)
    BY <1>1, TableAndBody
<1>. HIDE DEF n
<1>3. IsOpen(n) /\ n < pos /\ \A k \in Nodes : IsOpen(k) => k <= n
    BY <1>1, <1>2, LastIsGreatest
<1>4. n < Body /\ n \in Nat /\ Body \in Nat
    BY <1>1, <1>2, BelowDepth, NodeParts
<1>5. Body < pos
    BY <1>1, <1>2, <1>3, NothingBehind, NodeParts DEF Ends
<1>6. ~IsOpen(Body)
    BY <1>2, <1>3, <1>4
<1>. QED
    BY <1>2, <1>3, <1>5, <1>6 DEF Finished, n

LEMMA LeftStays ==
    ASSUME IInv, [Next]_vars
    PROVE  (Finished(Table) => Finished(Table)') /\ (Finished(Body) => Finished(Body)')
<1>1. Types /\ Chain
    BY DEF IInv
<1>2. PICK a \in Nodes, b \in Nodes : a = Table /\ b = Body /\ a = Table' /\ b = Body'
    BY <1>1, StepLayout, TableAndBody
<1>3. (Finished(a) => Finished(a)') /\ (Finished(b) => Finished(b)')
    BY <1>1, StepLayout, LayoutStays, FinishedStays
<1>. QED
    BY <1>2, <1>3 DEF Finished, IsOpen

LEMMA StagesStep ==
    ASSUME Walk, [Next]_vars
    PROVE  Stages'
<1>1. Types /\ Chain /\ TextTypes /\ Stages /\ IInv
    BY DEF Walk, IInv
<1>2. /\ entries \in Nat /\ line \in Nat /\ MaxLines \in Nat
      /\ seed \in Seq(Seq(Nat)) /\ out \in Seq(Seq(Nat))
      /\ Len(seed) \in Nat /\ Len(out) \in Nat
      /\ Len(Append(seed, <<>>)) = Len(seed) + 1 /\ Len(Append(out, <<>>)) = Len(out) + 1
    <2>1. entries \in Nat /\ line \in Nat /\ seed \in Seq(Seq(Nat)) /\ out \in Seq(Seq(Nat))
        BY <1>1 DEF TextTypes
    <2>2. \A s \in Seq(Seq(Nat)) : Len(s) \in Nat /\ Len(Append(s, <<>>)) = Len(s) + 1
        OBVIOUS
    <2>. QED
        BY <2>1, <2>2, TextConstants
<1>3. Finished(Table) /\ Finished(Body) => Finished(Table)' /\ Finished(Body)'
    BY <1>1, LeftStays
<1>4. CASE Layout \/ UNCHANGED vars
    BY <1>1, <1>3, <1>4 DEF Layout, text, vars, Stages
<1>5. CASE OpenSeed
    <2>1. ~Finished(Table) /\ Finished(Body) /\ open[Len(open)] = Table /\ Ends(Table) /\ open # <<>>
        BY <1>1, <1>5, BodyIsLeft DEF OpenSeed, LeavesTable
    <2>2. PICK a \in Nodes, b \in Nodes : a = Table /\ b = Body /\ a = Table' /\ b = Body'
        BY <1>1, StepLayout, TableAndBody
    <2>3. Leaving(a)
        <3>1. PICK n \in Nodes : Ends(n) /\ open' = Rest /\ pos' = pos
            BY <1>5 DEF OpenSeed, CloseTable
        <3>2. n = a
            BY <2>1, <2>2, <3>1 DEF Ends
        <3>. QED
            BY <3>1, <3>2 DEF Leaving
    <2>4. Finished(a)'
        BY <1>1, <2>3, LeftFinished DEF FinishedIs
    <2>5. Finished(Table)' /\ Finished(Body)'
        BY <1>1, <2>1, <2>2, <2>4, LeftStays DEF Finished, IsOpen
    <2>6. loaded = "not yet" /\ phase = "layout"
        BY <1>1, <1>5, <2>1 DEF Stages, OpenSeed
    <2>7. line = 0 /\ out = <<>> /\ seed = <<>> /\ Len(seed) = 0
        BY <1>1, <2>6 DEF Stages
    <2>8. /\ phase' = "reading" /\ entries' \in 1..MaxLines /\ line' = 1 /\ Len(seed') = 1 /\ out' = <<>>
          /\ loaded' = "not yet"
        <3>1. /\ phase' = "reading" /\ entries' \in 1..MaxLines /\ line' = line + 1
              /\ seed' = Append(seed, <<>>) /\ UNCHANGED <<loaded, out>>
            BY <1>5 DEF OpenSeed, BeginLine
        <3>2. line' = 1
            BY <2>7, <3>1
        <3>3. Len(seed') = 1
            BY <1>2, <2>7, <3>1
        <3>. QED
            BY <2>6, <2>7, <3>1, <3>2, <3>3
    <2>9. entries' <= MaxLines /\ line' \in 1..entries'
        <3>1. \A e : e \in 1..MaxLines => e <= MaxLines /\ 1 \in 1..e
            BY <1>2
        <3>. QED
            BY <2>8, <3>1
    <2>. QED
        BY <2>5, <2>8, <2>9 DEF Stages
<1>6. CASE Descend \/ NoSuchMember \/ LineTooShort \/ DiesOfOverrun
    BY <1>1, <1>3, <1>6 DEF Descend, NoSuchMember, LineTooShort, DiesOfOverrun, Stages
<1>7. CASE EntryColumn
    <2>1. /\ phase = "reading" /\ UNCHANGED <<phase, loaded, entries, line, out>>
          /\ \E v : seed' = [seed EXCEPT ![line] = Append(@, v)]
        BY <1>7, EntryIs DEF Entry
    <2>2. Len(seed') = Len(seed)
        BY <1>2, <2>1
    <2>. QED
        BY <1>1, <1>3, <2>1, <2>2 DEF Stages
<1>8. CASE NextLine
    <2>1. phase = "reading" /\ line < entries /\ line' = line + 1 /\ Len(seed') = Len(seed) + 1
        BY <1>2, <1>8 DEF NextLine, BeginLine
    <2>2. line' \in 1..entries
        BY <1>2, <2>1
    <2>. QED
        BY <1>1, <1>3, <1>8, <2>1, <2>2 DEF Stages, NextLine
<1>9. CASE EndSeed
    <2>1. /\ phase = "reading" /\ phase' = "layout" /\ line' = 0 /\ loaded' \in {"yes", "refused"}
          /\ UNCHANGED <<entries, seed, out>> /\ (loaded' = "yes" => line = entries)
        BY <1>9 DEF EndSeed
    <2>2. line \in 1..entries /\ Len(seed) = line /\ out = <<>> /\ entries <= MaxLines
          /\ Finished(Table) /\ Finished(Body)
        BY <1>1, <2>1 DEF Stages
    <2>3. entries >= 1
        BY <1>2, <2>2
    <2>. QED
        BY <1>3, <2>1, <2>2, <2>3 DEF Stages
<1>10. CASE WriteHeader
    <2>1. phase = "layout" /\ loaded = "yes" /\ line = 0 /\ out = <<>> /\ Len(out) = 0
        BY <1>1, <1>10 DEF Stages, WriteHeader
    <2>2. \/ phase' = "dead"
          \/ phase' = "writing" /\ line' = 1 /\ Len(out') = 1
        BY <1>2, <1>10, <2>1 DEF WriteHeader, BeginRow
    <2>3. UNCHANGED <<loaded, entries, seed>>
        BY <1>10 DEF WriteHeader
    <2>4. entries \in Nat \ {0}
        BY <1>1, <1>2, <2>1 DEF Stages
    <2>. QED
        <3>1. /\ Finished(Table)' /\ Finished(Body)' /\ entries <= MaxLines
              /\ Len(seed) = entries /\ entries >= 1
            BY <1>1, <1>3, <2>1 DEF Stages
        <3>2. 1 \in 1..entries
            BY <2>4
        <3>3. phase' # "layout" /\ phase' # "reading" /\ phase' # "written"
            BY <2>2
        <3>. QED
            BY <2>1, <2>2, <2>3, <3>1, <3>2, <3>3 DEF Stages
<1>11. CASE WriteColumn
    <2>1. /\ phase = "writing" /\ UNCHANGED <<phase, loaded, entries, line, seed>>
          /\ out' = out \/ \E v : out' = [out EXCEPT ![line] = Append(@, v)]
        BY <1>11 DEF WriteColumn
    <2>2. Len(out') = Len(out)
        BY <1>2, <2>1
    <2>. QED
        BY <1>1, <1>3, <2>1, <2>2 DEF Stages
<1>12. CASE EndRow
    <2>1. phase = "writing" /\ UNCHANGED <<loaded, entries, seed>>
        BY <1>12 DEF EndRow
    <2>2. \/ phase' \in {"dead", "written"} /\ line' = line /\ out' = out
          \/ phase' = "writing" /\ line < entries /\ line' = line + 1 /\ Len(out') = Len(out) + 1
        BY <1>2, <1>12 DEF EndRow, BeginRow
    <2>3. line \in 1..entries /\ Len(out) = line
        BY <1>1, <2>1 DEF Stages
    <2>4. phase' \in {"writing", "written"} => line' \in 1..entries /\ Len(out') = line'
        BY <1>2, <2>2, <2>3
    <2>5. phase' # "layout" /\ phase' # "reading"
        BY <2>2
    <2>. QED
        BY <1>1, <1>3, <2>1, <2>4, <2>5 DEF Stages
<1>. QED
    BY <1>4, <1>5, <1>6, <1>7, <1>8, <1>9, <1>10, <1>11, <1>12 DEF Next

LEMMA InitWalk == TextInit => Walk
<1>. SUFFICES ASSUME TextInit
              PROVE  Walk
    OBVIOUS
<1>1. IInv /\ Init
    BY InitIInv DEF TextInit
<1>2. pos = 1 /\ Nodes \subseteq Nat /\ \A n \in Nodes : n >= 1
    BY <1>1, NodeParts DEF Init, IInv
<1>3. Laid
    BY <1>2 DEF Laid, Finished
<1>4. TextTypes
    <2>1. <<>> \in Seq(BodyNodes \X Nat) /\ <<>> \in Seq(Seq(Nat)) /\ 0 \in Nat
        OBVIOUS
    <2>2. mem \in [0..(MaxWords - 1) -> Nat]
        BY DEF TextInit
    <2>. QED
        BY <2>1, <2>2 DEF TextInit, TextTypes
<1>5. Stages
    <2>1. /\ phase = "layout" /\ loaded = "not yet" /\ line = 0 /\ out = <<>> /\ seed = <<>> /\ data = 0
          /\ entries = 0
        BY DEF TextInit
    <2>2. entries <= MaxLines
        <3>1. MaxLines \in Nat
            BY TextConstants
        <3>2. entries = 0
            BY <2>1
        <3>. QED
            BY ONLY <3>1, <3>2
    <2>. QED
        BY <2>1, <2>2 DEF Stages
<1>. QED
    BY <1>1, <1>3, <1>4, <1>5 DEF Walk

LEMMA WalkStep ==
    ASSUME Walk, [Next]_vars
    PROVE  Walk'
<1>1. IInv /\ Laid /\ Types /\ Chain
    BY DEF Walk, IInv
<1>2. LayoutNext \/ UNCHANGED layout
    BY <1>1, StepLayout
<1>3. IInv'
    BY <1>1, <1>2, StepIInv
<1>4. Laid'
    BY <1>1, <1>2, LaidStep, LayoutStays
<1>. QED
    BY <1>3, <1>4, TextTypesStep, StagesStep DEF Walk

-----------------------------------------------------------------------------
(* The order of the walk over a row without unions and flags.              *)

Straight == NoUnions(Body) /\ tab.flags = {}

(* m is still to come, at or below a call of s.                            *)
Coming(s, m) == \E i \in DOMAIN s : m = s[i][1] \/ Below(m, s[i][1])

InOrder(s) ==
    /\ \A i, j \in DOMAIN s : i < j => s[i][1] < s[j][1] /\ ~Below(s[j][1], s[i][1])
    /\ s # <<>> => \A m \in BodyNodes : m >= s[1][1] => Coming(s, m)

(* An element below another is at or below one of its children.            *)
LEMMA ChildAbove ==
    ASSUME Types, NEW n \in Nodes, NEW m \in Nodes, Below(m, n)
    PROVE  \E c \in Children(n) : m = c \/ Below(m, c)
<1>. DEFINE T == {k \in Nodes : n < k /\ (m = k \/ Below(m, k))}
<1>1. n < m /\ Nodes \subseteq Nat
    BY BelowDepth, NodeParts
<1>2. PICK c \in T : \A k \in T : c <= k
    <2>1. T \in SUBSET Nat /\ m \in T
        BY <1>1
    <2>. HIDE DEF T
    <2>. QED
        BY <2>1, Least
<1>3. c \in Nodes /\ n < c /\ (m = c \/ Below(m, c)) /\ c \in Nat /\ n \in Nat
    BY <1>1, <1>2
<1>4. Below(c, n)
    <2>1. m = c \/ c < m
        BY <1>3, BelowDepth
    <2>. QED
        BY <1>3, <2>1, Between2
<1>5. ASSUME NEW k \in Nodes, n < k, Below(c, k)
      PROVE  FALSE
    <2>1. Below(m, k)
        BY <1>3, <1>5, BelowBelow
    <2>2. c <= k
        BY <1>2, <1>5, <2>1
    <2>3. k < c /\ k \in Nat
        BY <1>3, <1>5, BelowDepth, NodeParts
    <2>. QED
        BY <1>3, <2>2, <2>3
<1>6. c \in Children(n)
    BY <1>3, <1>4, <1>5, NearestIsParent
<1>. QED
    BY <1>3, <1>6

(* The calls for the children of an element are in order, and what is to   *)
(* come with them is what is below it.                                     *)
LEMMA OrderBelow ==
    ASSUME Types, NEW n \in Nodes, n = Body \/ n \in BodyNodes
    PROVE  /\ \A i, j \in DOMAIN CallsBelow(n) : i < j =>
                  CallsBelow(n)[i][1] < CallsBelow(n)[j][1] /\ ~Below(CallsBelow(n)[j][1], CallsBelow(n)[i][1])
           /\ \A i \in DOMAIN CallsBelow(n) : CallsBelow(n)[i][1] \in Children(n)
           /\ \A m \in Nodes : Coming(CallsBelow(n), m) <=> Below(m, n)
<1>. DEFINE s == CallsBelow(n)
            c == ChildSeq(n)
<1>1. DOMAIN s = DOMAIN c /\ \A i \in DOMAIN c : s[i][1] = c[i]
    BY CallsBelowIs
<1>2. /\ \A i \in DOMAIN c : c[i] \in Children(n)
      /\ \A i, j \in DOMAIN c : i < j => c[i] < c[j]
      /\ \A m \in Children(n) : \E i \in DOMAIN c : c[i] = m
    BY ChildSeqIs
<1>. HIDE DEF s, c
<1>3. \A x \in Children(n) : x \in Nodes /\ Below(x, n) /\ tab.depth[x] = tab.depth[n] + 1 /\ tab.depth[x] \in Nat
    BY NodeParts DEF Children
<1>4. \A x, y \in Children(n) : ~Below(x, y)
    BY <1>3, BelowDepth
<1>5. \A m \in Nodes : Coming(s, m) => Below(m, n)
    BY <1>1, <1>2, <1>3, BelowBelow DEF Coming
<1>6. ASSUME NEW m \in Nodes, Below(m, n)
      PROVE  Coming(s, m)
    <2>1. PICK x \in Children(n) : m = x \/ Below(m, x)
        BY <1>6, ChildAbove
    <2>. QED
        BY <1>1, <1>2, <2>1 DEF Coming
<1>. QED
    BY <1>1, <1>2, <1>4, <1>5, <1>6 DEF s

(* The walk goes on from the first call to those for its children.         *)
LEMMA OrderOn ==
    ASSUME Types, NEW s \in Seq(BodyNodes \X Nat), s # <<>>, InOrder(s)
    PROVE  /\ InOrder(CallsBelow(s[1][1]) \o Tail(s))
           /\ \A m \in Nodes : Coming(CallsBelow(s[1][1]) \o Tail(s), m) <=> Coming(s, m) /\ m # s[1][1]
<1>. DEFINE n == s[1][1]
            c == CallsBelow(n)
            r == Tail(s)
            t == c \o r
            K == Len(c)
            L == Len(s)
<1>1. /\ DOMAIN s = 1..L /\ L \in Nat \ {0} /\ r \in Seq(BodyNodes \X Nat) /\ Len(r) = L - 1
      /\ \A i \in 1..(L - 1) : r[i] = s[i + 1]
      /\ \A i \in 1..L : s[i][1] \in BodyNodes
    <2>1. \A i \in DOMAIN s : s[i] \in BodyNodes \X Nat
        OBVIOUS
    <2>. QED
        BY <2>1, HeadAndTail
<1>2. n \in BodyNodes /\ n \in Nodes
    BY <1>1, BodyParts
<1>3. c \in Seq(BodyNodes \X Nat) /\ DOMAIN c = 1..K /\ K \in Nat
    BY <1>2, CallsBelowIs
<1>4. /\ DOMAIN t = 1..(K + (L - 1))
      /\ \A i \in 1..K : t[i] = c[i]
      /\ \A i \in 1..(L - 1) : t[K + i] = s[i + 1]
    BY <1>1, <1>3, ConcatIs
<1>5. /\ \A i, j \in 1..K : i < j => c[i][1] < c[j][1] /\ ~Below(c[j][1], c[i][1])
      /\ \A i \in 1..K : c[i][1] \in Nodes /\ Below(c[i][1], n)
      /\ \A m \in Nodes : Coming(c, m) <=> Below(m, n)
    BY <1>2, <1>3, OrderBelow DEF Children
<1>. HIDE DEF n, c, r, t, K, L
<1>6. \A i, j \in 1..L : i < j => s[i][1] < s[j][1] /\ ~Below(s[j][1], s[i][1])
    BY <1>1 DEF InOrder
<1>7. \A i \in 1..L : s[i][1] \in Nodes /\ s[i][1] \in Nat
    BY <1>1, BodyParts, NodeParts
<1>8. ASSUME NEW j \in 1..(L - 1)
      PROVE  j + 1 \in 1..L /\ n < s[j + 1][1] /\ ~Below(s[j + 1][1], n)
    <2>1. 1 \in 1..L /\ j + 1 \in 1..L /\ 1 < j + 1
        BY <1>1
    <2>. QED
        BY <1>6, <2>1 DEF n
<1>9. ASSUME NEW x \in Nodes, Below(x, n), NEW j \in 1..(L - 1)
      PROVE  x < s[j + 1][1] /\ ~Below(s[j + 1][1], x)
    <2>. DEFINE y == s[j + 1][1]
    <2>1. y \in Nodes /\ y \in Nat /\ n < y /\ ~Below(y, n) /\ x \in Nat
        BY <1>7, <1>8, NodeParts
    <2>. HIDE DEF y
    <2>2. ~Below(y, x)
        BY <1>2, <1>9, <2>1, BelowBelow
    <2>3. ASSUME y < x
          PROVE  FALSE
        BY <1>2, <1>9, <2>1, <2>3, Between2
    <2>. QED
        BY <1>9, <2>1, <2>2, <2>3 DEF y
<1>15. ASSUME NEW i \in DOMAIN t
       PROVE  /\ i \in Int /\ K \in Nat
              /\ i <= K => i \in 1..K
              /\ i > K => i - K \in 1..(L - 1) /\ K + (i - K) = i /\ (i - K) + 1 \in 1..L
    <2>1. i \in 1..(K + (L - 1)) /\ K \in Nat /\ L \in Nat \ {0}
        BY <1>1, <1>3, <1>4
    <2>. QED
        BY ONLY <2>1
<1>10. ASSUME NEW i \in DOMAIN t, NEW j \in DOMAIN t, i < j
       PROVE  t[i][1] < t[j][1] /\ ~Below(t[j][1], t[i][1])
    <2>1. CASE j <= K
        <3>1. i \in 1..K /\ j \in 1..K
            BY <1>15, <1>10, <2>1
        <3>. QED
            BY <1>4, <1>5, <1>10, <3>1
    <2>2. CASE i <= K /\ j > K
        <3>1. i \in 1..K /\ j - K \in 1..(L - 1) /\ K + (j - K) = j
            BY <1>15, <2>2
        <3>2. t[i] = c[i] /\ t[j] = s[(j - K) + 1]
            BY <1>4, <3>1
        <3>. QED
            BY <1>5, <1>9, <3>1, <3>2
    <2>3. CASE i > K
        <3>1. /\ i - K \in 1..(L - 1) /\ K + (i - K) = i /\ j - K \in 1..(L - 1) /\ K + (j - K) = j
              /\ (i - K) + 1 \in 1..L /\ (j - K) + 1 \in 1..L /\ (i - K) + 1 < (j - K) + 1
            <4>1. i > K /\ j > K /\ i \in Int /\ j \in Int /\ K \in Int
                BY <1>15, <1>10, <2>3
            <4>. QED
                BY <1>15, <1>10, <4>1
        <3>2. t[i] = s[(i - K) + 1] /\ t[j] = s[(j - K) + 1]
            BY <1>4, <3>1
        <3>. QED
            BY <1>6, <3>1, <3>2
    <2>. QED
        BY <1>15, <2>1, <2>2, <2>3
<1>11. ASSUME NEW m \in Nodes, Coming(t, m)
       PROVE  Coming(s, m) /\ m # n
    <2>1. PICK i \in DOMAIN t : m = t[i][1] \/ Below(m, t[i][1])
        BY <1>11 DEF Coming
    <2>2. CASE i <= K
        <3>1. i \in 1..K /\ t[i] = c[i]
            BY <1>15, <1>4, <2>2
        <3>2. Below(m, n)
            BY <1>2, <1>5, <2>1, <3>1, BelowBelow
        <3>3. n < m /\ n \in Nat /\ m \in Nat /\ 1 \in 1..L
            BY <1>1, <1>2, <3>2, BelowDepth, NodeParts
        <3>4. m # n
            BY <3>3
        <3>5. Coming(s, m)
            BY <1>1, <3>2, <3>3 DEF Coming, n
        <3>. QED
            BY <3>4, <3>5
    <2>3. CASE i > K
        <3>1. i - K \in 1..(L - 1) /\ K + (i - K) = i /\ (i - K) + 1 \in 1..L
            BY <1>15, <2>3
        <3>2. t[i] = s[(i - K) + 1]
            BY <1>4, <3>1
        <3>3. n < s[(i - K) + 1][1]
            BY <1>8, <3>1
        <3>4. m # n
            BY <1>2, <1>7, <2>1, <3>1, <3>2, <3>3, BelowDepth, NodeParts
        <3>. QED
            BY <1>1, <2>1, <3>1, <3>2, <3>4 DEF Coming
    <2>. QED
        BY <1>15, <2>2, <2>3
<1>12. ASSUME NEW m \in Nodes, Coming(s, m), m # n
       PROVE  Coming(t, m)
    <2>1. PICK i \in 1..L : m = s[i][1] \/ Below(m, s[i][1])
        BY <1>1, <1>12 DEF Coming
    <2>2. CASE i = 1
        <3>1. Coming(c, m)
            BY <1>5, <1>12, <2>1, <2>2 DEF n
        <3>2. PICK j \in 1..K : m = c[j][1] \/ Below(m, c[j][1])
            BY <1>3, <3>1 DEF Coming
        <3>3. j \in DOMAIN t /\ t[j] = c[j]
            BY <1>1, <1>3, <1>4, <3>2
        <3>. QED
            BY <3>2, <3>3 DEF Coming
    <2>3. CASE i # 1
        <3>1. i - 1 \in 1..(L - 1) /\ (i - 1) + 1 = i /\ K + (i - 1) \in 1..(K + (L - 1))
            BY <1>1, <1>3, <2>3
        <3>2. t[K + (i - 1)] = s[i]
            BY <1>4, <3>1
        <3>. QED
            BY <1>4, <2>1, <3>1, <3>2 DEF Coming
    <2>. QED
        BY <2>2, <2>3
<1>13. ASSUME t # <<>>, NEW m \in BodyNodes, m >= t[1][1]
       PROVE  Coming(t, m)
    <2>1. t \in Seq(BodyNodes \X Nat)
        BY <1>1, <1>3, ConcatIs DEF t
    <2>2. 1 \in DOMAIN t /\ t[1][1] \in BodyNodes
        <3>1. t[1] \in BodyNodes \X Nat /\ 1 \in DOMAIN t
            BY <1>13, <2>1, HeadAndTail
        <3>. QED
            BY <3>1
    <2>3. n < t[1][1]
        <3>1. CASE 1 <= K
            <4>1. 1 \in 1..K
                BY <1>3, <3>1
            <4>. QED
                BY <1>2, <1>4, <1>5, <4>1, BelowDepth
        <3>2. CASE K = 0
            <4>1. 1 \in 1..(L - 1) /\ K + 1 = 1
                BY <1>1, <1>3, <1>4, <2>2, <3>2
            <4>. QED
                BY <1>4, <1>8, <4>1
        <3>. QED
            BY <1>3, <3>1, <3>2
    <2>4. m >= n /\ m # n /\ m \in Nodes
        <3>1. m \in Nodes /\ m \in Nat /\ n \in Nat /\ t[1][1] \in Nat
            BY <1>2, <2>2, BodyParts, NodeParts
        <3>. QED
            BY <1>13, <2>3, <3>1
    <2>5. Coming(s, m)
        BY <1>13, <2>4 DEF InOrder, n
    <2>. QED
        BY <1>12, <2>4, <2>5
<1>14. InOrder(t)
    BY <1>10, <1>13 DEF InOrder
<1>. QED
    BY <1>11, <1>12, <1>14 DEF t, c, r, n
-----------------------------------------------------------------------------
(* The columns of a body that was left.                                    *)

Columns == {n \in BodyNodes : Kind(n) \in DOMAIN Length}

LEMMA BodyFinished ==
    ASSUME IInv, Finished(Body), NEW n \in BodyNodes
    PROVE  Finished(n)
<1>1. Types /\ Passed /\ OpenAbove
    BY DEF IInv
<1>2. n \in Nodes /\ Below(n, Body) /\ Body \in Nodes
    BY <1>1, BodyParts, TableAndBody
<1>. QED
    BY <1>1, <1>2 DEF Passed, OpenAbove, Finished

(* Such a column has its place and its length, and with no unions about    *)
(* it shares no memory with another and ends within the row.               *)
LEMMA ColumnIs ==
    ASSUME IInv, Laid, FitsStack, Finished(Body), NEW n \in Columns
    PROVE  /\ IsColumn(n) /\ at[n] \in Nat /\ len[n] = Length[Kind(n)] /\ len[n] \in Nat
           /\ n \in BodyNodes /\ n \in Nodes /\ Kind(n) \in DOMAIN Length
<1>1. Types /\ Totals
    BY DEF IInv
<1>2. n \in BodyNodes /\ n \in Nodes /\ Kind(n) \in DOMAIN Length
    BY <1>1, BodyParts DEF Columns
<1>3. at[n] # Unset /\ at[n] \in Nat
    BY <1>1, <1>2, BodyFinished DEF Laid, Types
<1>4. len[n] = Size[n]
    BY <1>1, <1>2, <1>3 DEF Totals, Measured
<1>5. Size[n] = Length[Kind(n)]
    <2>1. Size[n] = SizeWith(Size, n)
        BY <1>1, <1>2, SizeIs
    <2>. QED
        BY <1>2, <2>1 DEF SizeWith
<1>6. Length[Kind(n)] \in Nat
    BY <1>2, TextConstants
<1>. QED
    BY <1>2, <1>3, <1>4, <1>5, <1>6 DEF IsColumn

LEMMA ColumnsApart ==
    ASSUME IInv, Laid, FitsStack, Finished(Body), NoUnions(Body), NEW n \in Columns
    PROVE  /\ at[n] + len[n] <= RowSize
           /\ \A m \in Columns : n < m => at[n] + len[n] <= at[m]
<1>1. Types /\ Disjoint
    BY DEF IInv
<1>2. Body \in Nodes /\ Kind(Body) = "body" /\ at[Body] # Unset /\ RowSize = at[Body]
    BY <1>1, TableAndBody, RowSizeIs
<1>3. \A m \in Columns : m \in Nodes /\ IsColumn(m) /\ Below(m, Body)
    BY <1>1, ColumnIs, BodyParts
<1>. QED
    BY <1>1, <1>2, <1>3 DEF Disjoint

-----------------------------------------------------------------------------
(* The order of the walk, in every state.                                  *)

Ordered == Straight => InOrder(todo)

(* The walk begins with all of the body.                                   *)
LEMMA OrderBegins ==
    ASSUME Types
    PROVE  /\ InOrder(CallsBelow(Body))
           /\ \A m \in Nodes : Coming(CallsBelow(Body), m) <=> m \in BodyNodes
<1>1. Body \in Nodes
    BY TableAndBody
<1>2. /\ \A i, j \in DOMAIN CallsBelow(Body) : i < j =>
             CallsBelow(Body)[i][1] < CallsBelow(Body)[j][1]
             /\ ~Below(CallsBelow(Body)[j][1], CallsBelow(Body)[i][1])
      /\ \A m \in Nodes : Coming(CallsBelow(Body), m) <=> Below(m, Body)
    BY <1>1, OrderBelow
<1>3. \A m \in Nodes : Below(m, Body) <=> m \in BodyNodes
    BY DEF BodyNodes, InBody
<1>4. BodyNodes \subseteq Nodes
    BY DEF BodyNodes
<1>. QED
    BY <1>2, <1>3, <1>4 DEF InOrder

(* What is still to come is at or behind the first call.                   *)
LEMMA ComingBehind ==
    ASSUME Types, NEW s \in Seq(BodyNodes \X Nat), s # <<>>, InOrder(s), NEW m \in BodyNodes
    PROVE  Coming(s, m) <=> m >= s[1][1]
<1>1. DOMAIN s = 1..Len(s) /\ Len(s) \in Nat \ {0} /\ \A i \in DOMAIN s : s[i] \in BodyNodes \X Nat
    BY HeadAndTail
<1>2. \A i \in DOMAIN s : s[i][1] \in Nodes /\ s[i][1] \in Nat
    <2>1. \A i \in DOMAIN s : s[i][1] \in BodyNodes
        BY <1>1
    <2>. QED
        BY <2>1, BodyParts, NodeParts
<1>3. m \in Nodes /\ m \in Nat
    BY BodyParts, NodeParts
<1>4. ASSUME NEW i \in DOMAIN s
      PROVE  s[1][1] <= s[i][1]
    <2>1. 1 \in DOMAIN s /\ (i = 1 \/ 1 < i)
        BY <1>1
    <2>. QED
        BY <1>2, <2>1 DEF InOrder
<1>5. ASSUME Coming(s, m)
      PROVE  m >= s[1][1]
    <2>1. PICK i \in DOMAIN s : m = s[i][1] \/ Below(m, s[i][1])
        BY <1>5 DEF Coming
    <2>2. s[i][1] <= m
        BY <1>2, <1>3, <2>1, BelowDepth
    <2>3. s[1][1] <= s[i][1] /\ 1 \in DOMAIN s
        BY <1>1, <1>4
    <2>. QED
        BY <1>2, <1>3, <2>2, <2>3
<1>. QED
    BY <1>5 DEF InOrder

LEMMA FirstComes ==
    ASSUME TextTypes, todo # <<>>
    PROVE  Coming(todo, todo[1][1])
<1>1. DOMAIN todo = 1..Len(todo) /\ Len(todo) \in Nat \ {0}
    BY HeadAndTail DEF TextTypes
<1>2. 1 \in DOMAIN todo
    BY <1>1
<1>. QED
    BY <1>2 DEF Coming

LEMMA NothingComing == \A m : ~Coming(<<>>, m)
BY DEF Coming

(* The step of the walk from the first call to those for its children,     *)
(* and from a column to what is behind it.                                 *)
OnFrom(n) ==
    /\ InOrder(todo)'
    /\ \A m \in Nodes : Coming(todo, m)' <=> Coming(todo, m) /\ m # n

LEMMA WalkOn ==
    ASSUME Types, TextTypes, Straight, InOrder(todo), tab' = tab, todo # <<>>,
           \/ Kind(todo[1][1]) \notin ColumnKinds /\ \E k : todo' = Calls(todo[1][1], k) \o Tail(todo)
           \/ Kind(todo[1][1]) \in ColumnKinds /\ \E v : todo' = CallsBehind(todo[1][1], v) \o Tail(todo)
    PROVE  OnFrom(todo[1][1])
<1>. DEFINE n == todo[1][1]
<1>1. n \in BodyNodes /\ n \in Nodes /\ Kind(n) \notin Containers /\ Below(n, Body)
    BY TodoHead, BodyParts
<1>2. Kind(n) # "union"
    BY <1>1, TableAndBody DEF Straight, NoUnions
<1>3. ASSUME Kind(n) \notin {"struct", "union"}
      PROVE  CallsBelow(n) = <<>>
    <2>1. Kind(n) \in DOMAIN Length \union Ignored
        <3>1. Kind(n) \in Kinds
            BY <1>1, TemplateParts DEF Types, Nodes, Kind
        <3>. QED
            BY <1>1, <1>3, <3>1 DEF Kinds, Nested
    <2>2. Children(n) = {}
        BY <1>1, <2>1, LeafHasNone DEF Children
    <2>3. Len(CallsBelow(n)) = 0 /\ CallsBelow(n) \in Seq(BodyNodes \X Nat)
        BY <1>1, <2>2, CallsBelowIs, FS_EmptySet
    <2>. QED
        BY <2>3
<1>4. ASSUME Kind(n) \in ColumnKinds
      PROVE  Kind(n) \notin {"struct", "union"}
    BY <1>4, LayoutAssumption DEF ColumnKinds, Nested
<1>5. \A v : CallsBehind(n, v) = <<>>
    BY DEF CallsBehind, Straight
<1>6. \A k : Calls(n, k) = CallsBelow(n)
    BY <1>2, <1>3 DEF Calls
<1>7. todo' = CallsBelow(n) \o Tail(todo)
    BY <1>3, <1>4, <1>5, <1>6
<1>8. todo \in Seq(BodyNodes \X Nat)
    BY DEF TextTypes
<1>. DEFINE t == CallsBelow(n) \o Tail(todo)
<1>9. InOrder(t) /\ \A m \in Nodes : Coming(t, m) <=> Coming(todo, m) /\ m # n
    BY <1>8, OrderOn
<1>10. todo' = t
    BY <1>7
<1>. HIDE DEF t, n
<1>11. (\A m, k : Below(m, k)' <=> Below(m, k)) /\ BodyNodes' = BodyNodes
    BY SameBody
<1>12. InOrder(todo)' /\ \A m \in Nodes : Coming(todo, m)' <=> Coming(t, m)
    BY <1>9, <1>10, <1>11 DEF InOrder, Coming
<1>. QED
    BY <1>9, <1>12 DEF OnFrom, n
LEMMA StraightStays ==
    ASSUME Types, tab' = tab
    PROVE  Straight' <=> Straight
<1>1. Body' = Body /\ Nodes' = Nodes /\ (\A n : Kind(n)' = Kind(n)) /\ \A m, n : Below(m, n)' <=> Below(m, n)
    BY SameBody
<1>. QED
    BY <1>1 DEF Straight, NoUnions

LEMMA InOrderStays ==
    ASSUME tab' = tab, NEW s
    PROVE  (InOrder(s)' <=> InOrder(s)) /\ \A m : Coming(s, m)' <=> Coming(s, m)
BY SameBody DEF InOrder, Coming

(* The steps of the text, by what they do to the calls to come.            *)
LEMMA WalkForms ==
    ASSUME TextTypes, [Next]_vars
    PROVE  \/ todo' = todo
           \/ todo' = CallsBelow(Body)
           \/ todo' = <<>>
           \/ todo # <<>> /\ Kind(todo[1][1]) \notin ColumnKinds
              /\ \E k : todo' = Calls(todo[1][1], k) \o Tail(todo)
           \/ todo # <<>> /\ Kind(todo[1][1]) \in ColumnKinds
              /\ \E v : todo' = CallsBehind(todo[1][1], v) \o Tail(todo)
<1>1. CASE Layout \/ UNCHANGED vars \/ NoSuchMember \/ LineTooShort \/ DiesOfOverrun
    BY <1>1 DEF Layout, vars, text, NoSuchMember, LineTooShort, DiesOfOverrun
<1>2. CASE OpenSeed \/ NextLine \/ WriteHeader \/ EndRow
    BY <1>2 DEF OpenSeed, NextLine, WriteHeader, EndRow, BeginLine, BeginRow
<1>3. CASE EndSeed
    BY <1>3 DEF EndSeed
<1>4. CASE Descend
    BY <1>4 DEF Descend
<1>5. CASE EntryColumn
    BY <1>5, EntryIs DEF Entry, AtColumn
<1>6. CASE WriteColumn
    BY <1>6 DEF WriteColumn, AtColumn
<1>. QED
    BY <1>1, <1>2, <1>3, <1>4, <1>5, <1>6 DEF Next

LEMMA OrderedStep ==
    ASSUME Walk, Ordered, [Next]_vars
    PROVE  Ordered'
<1>1. Types /\ TextTypes
    BY DEF Walk, IInv
<1>2. tab' = tab /\ BodyNodes' = BodyNodes
    BY <1>1, StepLayout
<1>. SUFFICES ASSUME Straight
              PROVE  InOrder(todo)'
    BY <1>1, <1>2, StraightStays DEF Ordered
<1>3. InOrder(todo)
    BY DEF Ordered
<1>4. CASE todo' = todo
    BY <1>2, <1>3, <1>4, InOrderStays DEF InOrder
<1>5. CASE todo' = CallsBelow(Body)
    <2>. DEFINE s == CallsBelow(Body)
    <2>1. InOrder(s) /\ todo' = s
        BY <1>1, <1>5, OrderBegins
    <2>. HIDE DEF s
    <2>. QED
        BY <1>2, <2>1, SameBody DEF InOrder, Coming
<1>6. CASE todo' = <<>>
    BY <1>6 DEF InOrder
<1>7. CASE \/ todo # <<>> /\ Kind(todo[1][1]) \notin ColumnKinds
              /\ \E k : todo' = Calls(todo[1][1], k) \o Tail(todo)
           \/ todo # <<>> /\ Kind(todo[1][1]) \in ColumnKinds
              /\ \E v : todo' = CallsBehind(todo[1][1], v) \o Tail(todo)
    BY <1>1, <1>2, <1>3, <1>7, WalkOn DEF OnFrom
<1>. QED
    BY <1>1, <1>4, <1>5, <1>6, <1>7, WalkForms

-----------------------------------------------------------------------------
(* The pointer that reads the seed.                                        *)

(* It is not behind the place of any column that is to come.               *)
Pointer ==
    Straight /\ FitsStack /\ phase = "reading" =>
        /\ data <= line * RowSize
        /\ \A m \in Columns : Coming(todo, m) => data <= (line - 1) * RowSize + at[m]

LEMMA Rows ==
    ASSUME NEW l \in Nat, l >= 1, NEW r \in Nat
    PROVE  /\ (l - 1) * r \in Nat /\ l * r \in Nat
           /\ l * r = (l - 1) * r + r
OBVIOUS

LEMMA ColumnsStay ==
    ASSUME UNCHANGED layout
    PROVE  /\ Columns' = Columns /\ RowSize' = RowSize /\ at' = at /\ len' = len
           /\ (FitsStack' <=> FitsStack)
<1>1. /\ tab' = tab /\ RowSize' = RowSize /\ at' = at /\ len' = len /\ BodyNodes' = BodyNodes
    BY LayoutStays
<1>2. Nodes' = Nodes /\ (\A n : Kind(n)' = Kind(n)) /\ \A m, n : Below(m, n)' <=> Below(m, n)
    BY <1>1, SameBody
<1>3. Columns' = Columns
    BY <1>1, <1>2 DEF Columns
<1>4. FitsStack' <=> FitsStack
    BY <1>2 DEF FitsStack
<1>. QED
    BY <1>1, <1>3, <1>4

(* A column that is entered is at or before its place.                     *)
LEMMA PointerEntered ==
    ASSUME Walk, Ordered, Pointer, Straight, FitsStack, EntryColumn
    PROVE  Pointer'
<1>1. Types /\ TextTypes /\ IInv /\ Laid /\ Stages /\ InOrder(todo) /\ UNCHANGED layout /\ tab' = tab
    BY DEF Walk, IInv, Ordered, EntryColumn, layout
<1>2. PICK n \in Nodes :
          /\ phase = "reading" /\ AtColumn(n) /\ data' = data + WidthInText(n) /\ line' = line
          /\ \E v : todo' = CallsBehind(n, v) \o Tail(todo)
    BY EntryIs DEF Entry
<1>3. n = todo[1][1] /\ todo # <<>> /\ Kind(n) \in ColumnKinds /\ n \in BodyNodes
    BY <1>1, <1>2, TodoHead DEF AtColumn
<1>4. \A m \in Nodes : Coming(todo, m)' <=> Coming(todo, m) /\ m # n
    BY <1>1, <1>2, <1>3, WalkOn DEF OnFrom
<1>5. Finished(Body) /\ line \in Nat /\ line >= 1 /\ data \in Nat
    <2>1. line \in Nat /\ data \in Nat /\ line \in 1..entries /\ entries \in Nat /\ Finished(Body)
        BY <1>1, <1>2 DEF TextTypes, Stages
    <2>. QED
        BY <2>1
<1>6. RowSize \in Nat
    BY <1>1, <1>5, RowSizeIs
<1>. DEFINE before == (line - 1) * RowSize
<1>7. before \in Nat /\ line * RowSize = before + RowSize
    BY <1>5, <1>6, Rows
<1>8. data <= before + RowSize /\ \A m \in Columns : Coming(todo, m) => data <= before + at[m]
    BY <1>2, <1>7 DEF Pointer
<1>9. \A m \in Columns : Coming(todo, m) => n <= m
    <2>1. \A m \in Columns : m \in BodyNodes
        BY DEF Columns
    <2>2. \A m \in BodyNodes : Coming(todo, m) => m >= n
        BY <1>1, <1>3, ComingBehind DEF TextTypes
    <2>. QED
        BY <2>1, <2>2
<1>10. ASSUME n \in Columns
       PROVE  data' <= before + RowSize /\ \A m \in Columns : Coming(todo, m) /\ m # n => data' <= before + at[m]
    <2>1. at[n] \in Nat /\ len[n] \in Nat /\ len[n] = Length[Kind(n)]
        BY <1>1, <1>5, <1>10, ColumnIs
    <2>2. WidthInText(n) <= len[n] /\ WidthInText(n) \in Nat
        BY <2>1 DEF WidthInText
    <2>3. Coming(todo, n)
        BY <1>1, <1>3, FirstComes
    <2>4. data <= before + at[n]
        BY <1>8, <1>10, <2>3
    <2>5. data' <= before + (at[n] + len[n])
        <3>1. data' = data + WidthInText(n)
            BY <1>2
        <3>. HIDE DEF before
        <3>. QED
            BY <1>5, <1>7, <2>1, <2>2, <2>4, <3>1
    <2>6. at[n] + len[n] <= RowSize
        BY <1>1, <1>5, <1>10, ColumnsApart DEF Straight
    <2>7. data' \in Nat
        BY <1>2, <1>5, <2>2
    <2>8. data' <= before + RowSize
        <3>. HIDE DEF before
        <3>. QED
            BY <1>6, <1>7, <2>1, <2>5, <2>6, <2>7
    <2>9. ASSUME NEW m \in Columns, Coming(todo, m), m # n
          PROVE  data' <= before + at[m]
        <3>1. at[m] \in Nat /\ m \in Nodes
            BY <1>1, <1>5, ColumnIs
        <3>2. n < m
            <4>1. n <= m /\ n \in Nat /\ m \in Nat
                BY <1>1, <1>9, <2>9, <3>1, NodeParts
            <4>. QED
                BY <2>9, <4>1
        <3>3. at[n] + len[n] <= at[m]
            BY <1>1, <1>5, <1>10, <3>2, ColumnsApart DEF Straight
        <3>. HIDE DEF before
        <3>. QED
            BY <1>7, <2>1, <2>5, <2>7, <3>1, <3>3
    <2>. QED
        BY <2>8, <2>9
<1>11. ASSUME n \notin Columns
       PROVE  data' = data
    <2>1. Kind(n) \notin DOMAIN Length
        BY <1>3, <1>11 DEF Columns
    <2>2. WidthInText(n) = 0
        BY <2>1, TextConstants DEF WidthInText
    <2>. QED
        BY <1>2, <1>5, <2>2
<1>12. data' <= before + RowSize /\ \A m \in Columns : Coming(todo, m) /\ m # n => data' <= before + at[m]
    BY <1>8, <1>10, <1>11
<1>13. \A m \in Columns : m \in Nodes
    BY <1>1, BodyParts DEF Columns
<1>14. /\ data' <= line * RowSize
       /\ \A m \in Columns : Coming(todo, m)' => data' <= (line - 1) * RowSize + at[m]
    BY <1>4, <1>7, <1>12, <1>13
<1>15. Columns' = Columns /\ RowSize' = RowSize /\ at' = at
    BY <1>1, ColumnsStay
<1>. QED
    BY <1>2, <1>14, <1>15 DEF Pointer

(* A line begins at the end of the one before it.                          *)
LEMMA PointerBegins ==
    ASSUME IInv, Laid, Finished(Body), FitsStack, NEW d \in Nat, NEW l \in Nat, l >= 1,
           d <= (l - 1) * RowSize
    PROVE  d <= l * RowSize /\ \A m \in Columns : d <= (l - 1) * RowSize + at[m]
<1>1. RowSize \in Nat
    BY RowSizeIs DEF IInv
<1>. DEFINE before == (l - 1) * RowSize
<1>2. before \in Nat /\ l * RowSize = before + RowSize
    BY <1>1, Rows
<1>3. \A m \in Columns : at[m] \in Nat
    BY ColumnIs
<1>4. d <= before
    OBVIOUS
<1>5. d <= before + RowSize /\ \A m \in Columns : d <= before + at[m]
    <2>. HIDE DEF before
    <2>. QED
        BY <1>1, <1>2, <1>3, <1>4
<1>. QED
    BY <1>2, <1>5

LEMMA PointerStep ==
    ASSUME Walk, Ordered, Pointer, [Next]_vars
    PROVE  Pointer'
<1>1. Types /\ TextTypes /\ IInv /\ Laid /\ Stages
    BY DEF Walk, IInv
<1>2. tab' = tab
    BY <1>1, StepLayout
<1>3. Straight' <=> Straight
    BY <1>1, <1>2, StraightStays
<1>4. CASE phase' # "reading"
    BY <1>4 DEF Pointer
<1>5. CASE UNCHANGED vars \/ Layout
    <2>1. CASE Layout
        BY <1>4, <2>1 DEF Layout, text, Pointer
    <2>2. CASE UNCHANGED vars
        <3>1. UNCHANGED layout /\ UNCHANGED <<phase, todo, data, line>>
            BY <2>2 DEF vars, text
        <3>2. Columns' = Columns /\ RowSize' = RowSize /\ at' = at /\ (FitsStack' <=> FitsStack)
            BY <3>1, ColumnsStay
        <3>3. \A m : Coming(todo, m)' <=> Coming(todo, m)
            BY <1>2, <3>1, SameBody DEF Coming
        <3>. QED
            BY <1>3, <3>1, <3>2, <3>3 DEF Pointer
    <2>. QED
        BY <1>5, <2>1, <2>2
<1>6. CASE OpenSeed
    <2>1. /\ phase' = "reading" /\ line' = line + 1 /\ data' = data /\ phase = "layout" /\ at' = at
          /\ LayoutNext
        BY <1>6 DEF OpenSeed, BeginLine, CloseTable, LayoutNext
    <2>2. loaded = "not yet" /\ Finished(Body)
        BY <1>1, <1>6, BodyIsLeft DEF OpenSeed, LeavesTable, Stages, IInv
    <2>3. line = 0 /\ data = 0
        BY <1>1, <2>1, <2>2 DEF Stages
    <2>4. line' = 1 /\ data' = 0
        BY <2>1, <2>3
    <2>5. BodyNodes' = BodyNodes /\ Body' = Body /\ Nodes' = Nodes /\ \A n : Kind(n)' = Kind(n)
        BY <1>2, SameBody
    <2>6. RowSize' = RowSize /\ Columns' = Columns /\ (FitsStack' <=> FitsStack)
        BY <2>1, <2>5, SameTemplate DEF RowSize, Columns, FitsStack
    <2>. SUFFICES ASSUME FitsStack
                  PROVE  data' <= line' * RowSize /\ \A m \in Columns : data' <= (line' - 1) * RowSize + at[m]
        BY <2>1, <2>6 DEF Pointer
    <2>7. RowSize \in Nat /\ \A m \in Columns : at[m] \in Nat
        BY <1>1, <2>2, RowSizeIs, ColumnIs
    <2>8. \A r \in Nat : 0 <= 1 * r /\ \A a \in Nat : 0 <= (1 - 1) * r + a
        OBVIOUS
    <2>. QED
        BY <2>4, <2>7, <2>8
<1>7. CASE (NextLine \/ Descend) /\ phase = "reading"
    <2>1. UNCHANGED layout /\ phase = "reading" /\ data' = data
        BY <1>7 DEF NextLine, Descend
    <2>2. Columns' = Columns /\ RowSize' = RowSize /\ at' = at /\ (FitsStack' <=> FitsStack)
        BY <2>1, ColumnsStay
    <2>. SUFFICES ASSUME Straight, FitsStack
                  PROVE  /\ data' <= line' * RowSize
                         /\ \A m \in Columns : Coming(todo, m)' => data' <= (line' - 1) * RowSize + at[m]
        BY <1>3, <2>2 DEF Pointer
    <2>3. /\ data <= line * RowSize
          /\ \A m \in Columns : Coming(todo, m) => data <= (line - 1) * RowSize + at[m]
        BY <2>1 DEF Pointer
    <2>4. CASE NextLine
        <3>1. line' = line + 1 /\ Finished(Body) /\ line \in Nat /\ data \in Nat
            BY <1>1, <2>1, <2>4 DEF NextLine, BeginLine, Stages, TextTypes
        <3>2. line' \in Nat /\ line' >= 1 /\ line' - 1 = line
            BY <3>1
        <3>. QED
            BY <1>1, <2>1, <2>3, <3>1, <3>2, PointerBegins
    <2>5. CASE Descend
        <3>1. line' = line /\ todo # <<>> /\ Kind(todo[1][1]) \notin ColumnKinds
              /\ \E k : todo' = Calls(todo[1][1], k) \o Tail(todo)
            BY <2>5 DEF Descend
        <3>2. InOrder(todo)
            BY DEF Ordered
        <3>3. OnFrom(todo[1][1])
            BY <1>1, <1>2, <3>1, <3>2, WalkOn
        <3>4. \A m \in Columns : m \in Nodes
            BY <1>1, BodyParts DEF Columns
        <3>. QED
            BY <2>1, <2>3, <3>1, <3>3, <3>4 DEF OnFrom
    <2>. QED
        BY <1>7, <2>4, <2>5
<1>10. CASE (NextLine \/ Descend) /\ phase # "reading"
    BY <1>4, <1>10 DEF NextLine, Descend
<1>8. CASE EntryColumn
    <2>1. phase' = phase /\ (FitsStack' <=> FitsStack)
        BY <1>8, ColumnsStay DEF EntryColumn
    <2>2. CASE Straight /\ FitsStack
        BY <1>8, <2>2, PointerEntered
    <2>. QED
        BY <1>3, <2>1, <2>2 DEF Pointer
<1>9. CASE NoSuchMember \/ LineTooShort \/ DiesOfOverrun \/ EndSeed \/ WriteHeader \/ WriteColumn \/ EndRow
    <2>1. phase' # "reading"
        BY <1>1, <1>9 DEF NoSuchMember, LineTooShort, DiesOfOverrun, EndSeed, WriteHeader, WriteColumn, EndRow, Stages
    <2>. QED
        BY <1>4, <2>1
<1>. QED
    BY <1>5, <1>6, <1>7, <1>8, <1>9, <1>10 DEF Next

(* The furthest word that was written is behind the pointer by no more     *)
(* than the longest text was too long.                                     *)
Reached ==
    /\ reach \in Nat /\ excess \in Nat
    /\ reach <= data + excess

LEMMA ReachedStep ==
    ASSUME Walk, Reached, [Next]_vars
    PROVE  Reached'
<1>1. TextTypes /\ Stages
    BY DEF Walk
<1>2. CASE EntryColumn
    <2>1. PICK n, v, w : Entry(n, v, w)
        BY <1>2, EntryIs
    <2>2. /\ w \in Nat /\ WidthInText(n) \in Nat /\ data \in Nat
          /\ w - Length["text"] \in Int
          /\ w <= WidthInText(n) \/ w - WidthInText(n) = w - Length["text"]
        BY <1>1, <2>1, EntryTypes
    <2>3. /\ reach' = Larger(reach, data + w) /\ excess' = Larger(excess, w - Length["text"])
          /\ data' = data + WidthInText(n)
        BY <2>1 DEF Entry
    <2>. DEFINE x == w - Length["text"]
    <2>4. x \in Int /\ (w <= WidthInText(n) \/ w - WidthInText(n) = x) /\ excess' = Larger(excess, x)
        BY <2>2, <2>3
    <2>. HIDE DEF x
    <2>. QED
        BY <2>2, <2>3, <2>4 DEF Reached, Larger
<1>3. CASE ~EntryColumn
    <2>1. UNCHANGED <<data, reach, excess>>
        BY <1>3 DEF Next, vars, text, Layout, OpenSeed, Descend, NoSuchMember, LineTooShort, DiesOfOverrun,
               NextLine, EndSeed, WriteHeader, WriteColumn, EndRow
    <2>. QED
        BY <2>1 DEF Reached
<1>. QED
    BY <1>2, <1>3

(* A number that is less than what it is cut to is not cut.                *)
LEMMA NotCut ==
    ASSUME NEW a \in Nat, NEW n \in Nat \ {0}, a < n
    PROVE  a % n = a
OBVIOUS

(* What the lines of the seed are read into (CExampledata::ReadData) stays *)
(* within what malloc was asked for, whatever columns have no type or one  *)
(* that the format passes over: if the product of the lines and the size   *)
(* of a row is a number of 32 bits, and but for what a text is longer than *)
(* its place.                                                              *)
THEOREM SeedHoldsLines == Spec => []StaysInSeed
<1>1. TextInit => Walk /\ Ordered /\ Pointer /\ Reached
    <2>1. TextInit => todo = <<>> /\ phase = "layout" /\ data = 0 /\ reach = 0 /\ excess = 0
        BY DEF TextInit
    <2>. QED
        BY <2>1, InitWalk DEF Ordered, InOrder, Pointer, Reached
<1>2. Walk /\ Ordered /\ Pointer /\ Reached /\ [Next]_vars => (Walk /\ Ordered /\ Pointer /\ Reached)'
    BY WalkStep, OrderedStep, PointerStep, ReachedStep
<1>3. Walk /\ Pointer /\ Reached => StaysInSeed
    <2>. SUFFICES ASSUME Walk, Pointer, Reached, phase = "reading", NoUnions(Body), FitsStack, tab.flags = {},
                         entries * RowSize < Narrow
                  PROVE  reach <= Allocated + excess
        BY DEF StaysInSeed
    <2>1. data <= line * RowSize
        BY DEF Pointer, Straight
    <2>2. /\ data \in Nat /\ line \in Nat /\ entries \in Nat /\ line <= entries /\ RowSize \in Nat
          /\ reach \in Nat /\ excess \in Nat /\ reach <= data + excess
        <3>1. TextTypes /\ Stages /\ Types /\ Laid
            BY DEF Walk, IInv
        <3>2. data \in Nat /\ line \in Nat /\ entries \in Nat /\ line \in 1..entries /\ Finished(Body)
            BY <3>1 DEF TextTypes, Stages
        <3>. QED
            BY <3>1, <3>2, RowSizeIs DEF Reached
    <2>3. line * RowSize <= entries * RowSize /\ line * RowSize \in Nat /\ entries * RowSize \in Nat
        <3>1. \A a, b, c \in Nat : a <= b => a * c <= b * c /\ a * c \in Nat /\ b * c \in Nat
            OBVIOUS
        <3>. QED
            BY <2>2, <3>1
    <2>4. Allocated = entries * RowSize
        BY <2>3, NotCut, TextConstants DEF Allocated
    <2>. QED
        BY <2>1, <2>2, <2>3, <2>4
<1>. QED
    BY <1>1, <1>2, <1>3, PTL DEF Spec

-----------------------------------------------------------------------------
(* A row that is as long as its columns.                                   *)

(* What RoundTrip asks of the template and its layout.                     *)
Exact ==
    /\ \A n \in Nodes : InBody(n) => Kind(n) \in Stored \union {"struct"}
    /\ tab.flags = {} /\ FitsStack /\ RowIsExact

LEMMA ExactIs ==
    ASSUME Types, Exact
    PROVE  /\ Straight /\ FitsStack
           /\ \A n \in BodyNodes : Kind(n) \in ColumnKinds => n \in Columns
           /\ \A n \in Columns : Kind(n) \in Stored /\ Length[Kind(n)] >= 1
<1>1. Stored \subseteq DOMAIN Length /\ \A n \in BodyNodes : Kind(n) \in Stored \union {"struct"}
    BY TextConstants DEF Exact, BodyNodes
<1>2. "struct" \notin DOMAIN Length /\ "union" \notin DOMAIN Length /\ "untyped" \notin DOMAIN Length
    BY LayoutAssumption DEF Nested, Ignored
<1>3. Straight /\ FitsStack
    BY <1>1, <1>2 DEF Straight, NoUnions, Exact, BodyNodes, InBody
<1>4. \A n \in BodyNodes : Kind(n) \in ColumnKinds => n \in Columns
    BY <1>1, <1>2 DEF ColumnKinds, Columns
<1>5. \A n \in Columns : Kind(n) \in Stored
    BY <1>1, <1>2 DEF Columns
<1>6. \A k \in Stored : Length[k] >= 1
    BY TextConstants DEF Stored
<1>. QED
    BY <1>3, <1>4, <1>5, <1>6

LenSum(T) == SumOf([n \in T |-> len[n]])

LEMMA LenSums ==
    ASSUME Types, NEW T \in SUBSET Nodes
    PROVE  /\ LenSum(T) \in Int /\ LenSum({}) = 0
           /\ \A x \in T : LenSum(T) = len[x] + LenSum(T \ {x})
<1>1. IsFiniteSet(Nodes) /\ len \in [Nodes -> Int]
    BY ChildrenFinite DEF Types
<1>a. PICK sum : IsSum(sum, Nodes, len)
    BY <1>1, SumsAre
<1>2. /\ sum \in [SUBSET Nodes -> Int] /\ sum[{}] = 0
      /\ \A U \in SUBSET Nodes : \A x \in U : sum[U] = len[x] + sum[U \ {x}]
      /\ \A U \in SUBSET Nodes : SumOf([e \in U |-> len[e]]) = sum[U]
    BY <1>a DEF IsSum
<1>3. \A U \in SUBSET Nodes : LenSum(U) = sum[U]
    BY <1>2 DEF LenSum
<1>4. {} \in SUBSET Nodes /\ \A x \in T : T \ {x} \in SUBSET Nodes
    OBVIOUS
<1>. QED
    BY <1>2, <1>3, <1>4

(* Columns that are apart are together no longer than the place they are   *)
(* in.                                                                     *)
LEMMA SumFits ==
    ASSUME IInv, Laid, FitsStack, Finished(Body), NoUnions(Body),
           NEW T \in SUBSET Columns, NEW low \in Nat, NEW high \in Nat, low <= high,
           \A m \in T : low <= at[m] /\ at[m] + len[m] <= high
    PROVE  LenSum(T) <= high - low
<1>1. Types
    BY DEF IInv
<1>2. \A U \in SUBSET Columns : U \in SUBSET Nodes /\ IsFiniteSet(U) /\ Cardinality(U) \in Nat
    <2>1. Columns \subseteq Nodes
        BY <1>1, BodyParts DEF Columns
    <2>. QED
        BY <1>1, <2>1, ChildrenFinite
<1>3. \A m \in Columns : at[m] \in Nat /\ len[m] \in Nat /\ m \in Nat
    BY <1>1, ColumnIs, NodeParts
<1>. DEFINE wide(U, h) == (\A m \in U : low <= at[m] /\ at[m] + len[m] <= h) /\ low <= h
            bad == {c \in Nat : \E U \in SUBSET Columns, h \in Nat :
                        Cardinality(U) = c /\ wide(U, h) /\ ~(LenSum(U) <= h - low)}
<1>. SUFFICES ASSUME bad # {} PROVE FALSE
    BY <1>2
<1>4. PICK c \in bad : c \in Nat /\ (c # 0 => c - 1 \in Nat /\ c - 1 \notin bad)
    <2>1. bad \in SUBSET Nat
        OBVIOUS
    <2>. HIDE DEF bad
    <2>. QED
        BY <2>1, Smallest
<1>5. PICK U \in SUBSET Columns, h \in Nat : Cardinality(U) = c /\ wide(U, h) /\ ~(LenSum(U) <= h - low)
    BY <1>4
<1>6. U # {}
    BY <1>1, <1>2, <1>5, LenSums
<1>7. PICK g \in U : \A k \in U : g >= k
    <2>1. U \in SUBSET (1..Len(tab.kind)) /\ Len(tab.kind) \in Nat
        BY <1>1, <1>2, NodeParts
    <2>. QED
        BY <1>6, <2>1, Greatest
<1>8. c # 0 /\ Cardinality(U \ {g}) = c - 1 /\ U \ {g} \in SUBSET Columns
    BY <1>2, <1>4, <1>5, <1>6, FS_RemoveElement, FS_EmptySet
<1>9. wide(U \ {g}, at[g])
    <2>1. ASSUME NEW m \in U \ {g}
          PROVE  at[m] + len[m] <= at[g]
        <3>1. g \in Columns /\ m \in Columns /\ g >= m /\ m # g /\ m \in Nat /\ g \in Nat
            BY <1>3, <1>7
        <3>2. m < g
            BY <3>1
        <3>. QED
            BY <3>1, <3>2, ColumnsApart
    <2>. QED
        BY <1>5, <2>1
<1>10. LenSum(U \ {g}) <= at[g] - low
    <2>1. at[g] \in Nat
        BY <1>3
    <2>. QED
        BY <1>4, <1>8, <1>9, <2>1
<1>11. LenSum(U) = len[g] + LenSum(U \ {g}) /\ LenSum(U \ {g}) \in Int
    BY <1>1, <1>2, <1>8, LenSums
<1>12. at[g] + len[g] <= h /\ at[g] \in Nat /\ len[g] \in Nat
    BY <1>3, <1>5
<1>. QED
    BY <1>5, <1>10, <1>11, <1>12

(* A sum of natural numbers over fewer elements is no larger.              *)
LEMMA SumOfFewer ==
    ASSUME Types, NEW r \in [Nodes -> Nat], NEW S \in SUBSET Nodes, NEW T \in SUBSET Nodes, S \subseteq T
    PROVE  /\ SumOf([e \in S |-> r[e]]) <= SumOf([e \in T |-> r[e]])
           /\ SumOf([e \in S |-> r[e]]) \in Int /\ SumOf([e \in T |-> r[e]]) \in Int
<1>1. IsFiniteSet(Nodes) /\ r \in [Nodes -> Int]
    BY ChildrenFinite
<1>a. PICK sum : IsSum(sum, Nodes, r)
    BY <1>1, SumsAre
<1>2. /\ sum \in [SUBSET Nodes -> Int] /\ sum[{}] = 0
      /\ \A U \in SUBSET Nodes : \A x \in U : sum[U] = r[x] + sum[U \ {x}]
      /\ \A U \in SUBSET Nodes : SumOf([e \in U |-> r[e]]) = sum[U]
    BY <1>a DEF IsSum
<1>. DEFINE bad == {c \in Nat : \E U \in SUBSET Nodes : S \subseteq U /\ Cardinality(U) = c /\ ~(sum[S] <= sum[U])}
<1>3. bad = {}
    <2>. SUFFICES ASSUME bad # {} PROVE FALSE
        OBVIOUS
    <2>1. PICK c \in bad : c \in Nat /\ (c # 0 => c - 1 \in Nat /\ c - 1 \notin bad)
        <3>1. bad \in SUBSET Nat
            OBVIOUS
        <3>. HIDE DEF bad
        <3>. QED
            BY <3>1, Smallest
    <2>2. PICK U \in SUBSET Nodes : S \subseteq U /\ Cardinality(U) = c /\ ~(sum[S] <= sum[U])
        BY <2>1
    <2>3. PICK x \in U : x \notin S
        <3>1. U # S
            <4>1. sum[S] \in Int
                BY <1>2
            <4>. QED
                BY <2>2, <4>1
        <3>. QED
            BY <2>2, <3>1
    <2>4. IsFiniteSet(U) /\ U # {}
        BY <1>1, <2>3, FS_Subset
    <2>5. Cardinality(U \ {x}) = c - 1 /\ c # 0 /\ U \ {x} \in SUBSET Nodes /\ S \subseteq U \ {x}
        BY <2>1, <2>2, <2>3, <2>4, FS_RemoveElement, FS_EmptySet
    <2>6. sum[S] <= sum[U \ {x}]
        BY <2>1, <2>5
    <2>7. sum[U] = r[x] + sum[U \ {x}] /\ r[x] \in Nat
        BY <1>2
    <2>8. sum[S] \in Int /\ sum[U] \in Int /\ sum[U \ {x}] \in Int
        BY <1>2, <2>5
    <2>. QED
        BY <2>2, <2>6, <2>7, <2>8
<1>4. Cardinality(T) \in Nat
    BY ChildrenFinite
<1>5. sum[S] <= sum[T]
    BY <1>3, <1>4
<1>. QED
    BY <1>2, <1>5

-----------------------------------------------------------------------------
(* The words of the columns.                                               *)

Cell(i, m) == (i - 1) * RowSize + at[m]

(* The row has its columns one behind the other.                           *)
LEMMA RowIs ==
    ASSUME IInv, Laid, Finished(Body), Exact
    PROVE  RowSize = LenSum(Columns) /\ RowSize \in Nat /\ Columns \in SUBSET Nodes
<1>1. Types /\ FitsStack
    BY DEF IInv, Exact
<1>2. {m \in Nodes : InBody(m) /\ IsColumn(m)} = Columns
    <2>1. \A m \in Columns : m \in Nodes /\ InBody(m) /\ IsColumn(m)
        BY <1>1, ColumnIs DEF BodyNodes
    <2>2. \A m \in Nodes : InBody(m) /\ IsColumn(m) => m \in Columns
        BY DEF Columns, BodyNodes, IsColumn
    <2>. QED
        BY <2>1, <2>2
<1>3. RowSize = LenSum(Columns)
    BY <1>2 DEF Exact, RowIsExact, LenSum
<1>4. RowSize \in Nat
    BY <1>1, RowSizeIs
<1>. QED
    BY <1>2, <1>3, <1>4

(* The words of the lines are among those that are kept, and no two        *)
(* columns have the same.                                                  *)
LEMMA CellIs ==
    ASSUME IInv, Laid, Finished(Body), Exact, entries \in Nat, entries <= MaxLines,
           NEW i \in 1..entries, NEW m \in Columns
    PROVE  /\ Cell(i, m) \in 0..(MaxWords - 1)
           /\ \A n \in Columns : m < n => Cell(i, m) < Cell(i, n)
           /\ \A j \in 1..entries, n \in Columns : i < j => Cell(i, m) < Cell(j, n)
<1>1. Types /\ Straight /\ FitsStack /\ NoUnions(Body)
    BY ExactIs DEF IInv, Straight
<1>2. RowSize \in Nat /\ RowSize = LenSum(Columns) /\ Columns \in SUBSET Nodes
    BY RowIs
<1>3. \A n \in Columns : at[n] \in Nat /\ len[n] \in Nat /\ len[n] >= 1 /\ len[n] = Length[Kind(n)]
    BY <1>1, ColumnIs, ExactIs
<1>4. at[m] + len[m] <= RowSize /\ \A n \in Columns : m < n => at[m] + len[m] <= at[n]
    BY <1>1, ColumnsApart
<1>5. i \in Nat /\ i >= 1 /\ i <= MaxLines /\ MaxLines \in Nat /\ MaxWords \in Nat
    BY TextConstants
<1>. DEFINE before(j) == (j - 1) * RowSize
<1>6. before(i) \in Nat /\ i * RowSize = before(i) + RowSize
    BY <1>2, <1>5, Rows
<1>7. MaxLines * RowSize <= MaxWords /\ MaxLines * RowSize \in Nat
    <2>. DEFINE all == {n \in Nodes : Kind(n) \in DOMAIN Length}
                r == [n \in Nodes |-> IF Kind(n) \in DOMAIN Length THEN Length[Kind(n)] ELSE 0]
                whole == SumOf([n \in all |-> r[n]])
    <2>1. r \in [Nodes -> Nat]
        BY TextConstants
    <2>2. Columns \subseteq all /\ all \in SUBSET Nodes
        BY <1>2 DEF Columns
    <2>3. [n \in Columns |-> r[n]] = [n \in Columns |-> len[n]]
        BY <1>2, <1>3 DEF Columns
    <2>4. [n \in all |-> r[n]] = [n \in all |-> Length[Kind(n)]]
        OBVIOUS
    <2>5. MaxLines * SumOf([n \in all |-> Length[Kind(n)]]) <= MaxWords
        BY <1>1, TextAssumption DEF Types, TextAssumption, Nodes, Kind
    <2>. HIDE DEF r, all
    <2>6. RowSize <= whole /\ whole \in Int
        BY <1>1, <1>2, <2>1, <2>2, <2>3, SumOfFewer DEF LenSum
    <2>7. MaxLines * whole <= MaxWords
        BY <2>4, <2>5
    <2>. HIDE DEF whole
    <2>8. \A x, y, z \in Nat : y <= z => x * y <= x * z /\ x * y \in Nat /\ x * z \in Nat
        OBVIOUS
    <2>9. whole \in Nat
        BY <1>2, <2>6
    <2>10. MaxLines * RowSize <= MaxLines * whole /\ MaxLines * RowSize \in Nat /\ MaxLines * whole \in Nat
        BY <1>2, <1>5, <2>6, <2>8, <2>9
    <2>. QED
        BY <1>5, <2>7, <2>10
<1>8. \A x, y \in Nat : x <= y => x * RowSize <= y * RowSize /\ x * RowSize \in Nat /\ y * RowSize \in Nat
    BY <1>2
<1>9. i * RowSize <= MaxLines * RowSize
    BY <1>5, <1>8
<1>10. Cell(i, m) = before(i) + at[m]
    BY DEF Cell
<1>11. ASSUME NEW j \in 1..entries, NEW n \in Columns, i < j
       PROVE  Cell(i, m) < Cell(j, n)
    <2>1. j \in Nat /\ j - 1 \in Nat /\ i <= j - 1
        BY <1>5, <1>11
    <2>2. i * RowSize <= (j - 1) * RowSize /\ (j - 1) * RowSize \in Nat
        BY <1>5, <1>8, <2>1
    <2>3. Cell(j, n) = before(j) + at[n]
        BY DEF Cell
    <2>4. before(i) + RowSize <= before(j) /\ before(j) \in Nat
        BY <1>6, <2>2
    <2>5. at[n] \in Nat /\ at[m] \in Nat /\ len[m] \in Nat /\ len[m] >= 1
        BY <1>3
    <2>. HIDE DEF before
    <2>. QED
        BY <1>2, <1>4, <1>6, <1>10, <2>3, <2>4, <2>5
<1>12. ASSUME NEW n \in Columns, m < n
       PROVE  Cell(i, m) < Cell(i, n)
    <2>1. Cell(i, n) = before(i) + at[n]
        BY DEF Cell
    <2>2. at[n] \in Nat /\ at[m] \in Nat /\ len[m] \in Nat /\ len[m] >= 1 /\ at[m] + len[m] <= at[n]
        BY <1>3, <1>4, <1>12
    <2>. HIDE DEF before
    <2>. QED
        BY <1>6, <1>10, <2>1, <2>2
<1>13. Cell(i, m) \in 0..(MaxWords - 1)
    <2>1. at[m] \in Nat /\ len[m] \in Nat /\ len[m] >= 1
        BY <1>3
    <2>a. i * RowSize <= MaxWords
        <3>1. \A x, y, z \in Int : x <= y /\ y <= z => x <= z
            OBVIOUS
        <3>2. i * RowSize \in Int /\ MaxLines * RowSize \in Int /\ MaxWords \in Int
            BY <1>2, <1>5, <1>8
        <3>. QED
            BY <1>7, <1>9, <3>1, <3>2
    <2>2. before(i) + RowSize <= MaxWords
        BY <1>6, <2>a
    <2>. HIDE DEF before
    <2>. QED
        BY <1>2, <1>4, <1>5, <1>6, <1>10, <2>1, <2>2
<1>. QED
    BY <1>11, <1>12, <1>13

(* What a row is to be stays the same once its body is left.               *)
LEMMA ExactStays ==
    ASSUME IInv, Finished(Body), LayoutNext \/ UNCHANGED layout
    PROVE  /\ Columns' = Columns /\ RowSize' = RowSize /\ (Exact' <=> Exact)
           /\ \A m \in Columns : at'[m] = at[m]
<1>1. Types /\ Chain
    BY DEF IInv
<1>2. tab' = tab
    BY <1>1, Constant DEF layout
<1>3. /\ Body' = Body /\ BodyNodes' = BodyNodes /\ Nodes' = Nodes /\ (\A n : Kind(n)' = Kind(n))
      /\ \A m, n : Below(m, n)' <=> Below(m, n)
    BY <1>2, SameBody
<1>4. \A m \in Nodes : Finished(m) => at'[m] = at[m] /\ len'[m] = len[m]
    BY <1>1, FinishedStays, LayoutStays
<1>5. RowSize' = RowSize
    BY <1>1, <1>3, <1>4, TableAndBody DEF RowSize
<1>6. \A m \in BodyNodes : m \in Nodes /\ at'[m] = at[m] /\ len'[m] = len[m]
    BY <1>1, <1>4, BodyFinished, BodyParts
<1>7. Columns' = Columns
    BY <1>3 DEF Columns
<1>8. RowIsExact' <=> RowIsExact
    <2>. DEFINE S == {m \in Nodes : InBody(m) /\ IsColumn(m)}
    <2>1. \A m \in Nodes : (InBody(m)' <=> InBody(m)) /\ (InBody(m) => (IsColumn(m)' <=> IsColumn(m)))
        BY <1>3, <1>6 DEF InBody, IsColumn, BodyNodes, Unset
    <2>2. S' = S
        BY <1>3, <2>1
    <2>3. S \subseteq BodyNodes
        BY DEF BodyNodes
    <2>. HIDE DEF S
    <2>4. [n \in S |-> len'[n]] = [n \in S |-> len[n]]
        BY <1>6, <2>3
    <2>5. PICK c : c = S
        OBVIOUS
    <2>6. RowIsExact <=> RowSize = SumOf([n \in c |-> len[n]])
        BY <2>5 DEF RowIsExact, S
    <2>7. RowIsExact' <=> RowSize' = SumOf([n \in c |-> len'[n]])
        <3>1. RowIsExact' <=> RowSize' = SumOf([n \in S' |-> len'[n]])
            BY DEF RowIsExact, S
        <3>. QED
            BY <2>2, <2>5, <3>1
    <2>. QED
        BY <1>5, <2>4, <2>5, <2>6, <2>7
<1>9. FitsStack' <=> FitsStack
    BY <1>3 DEF FitsStack
<1>10. Exact' <=> Exact
    BY <1>2, <1>3, <1>8, <1>9 DEF Exact, InBody
<1>. QED
    BY <1>3, <1>5, <1>6, <1>7, <1>10 DEF Columns

-----------------------------------------------------------------------------
(* A line of an exact row is read from one end of the row to the other.    *)

ColumnsLeft == {m \in Columns : Coming(todo, m)}

(* What is read and what is to come make up the lines so far.              *)
OnTime == phase = "reading" /\ Exact => data + LenSum(ColumnsLeft) = line * RowSize

LEMMA LenSumStays ==
    ASSUME NEW T, len' = len
    PROVE  LenSum(T)' = LenSum(T)
BY DEF LenSum

(* A column is read at its place.                                          *)
LEMMA AtPlace ==
    ASSUME Walk, Ordered, Pointer, OnTime, Exact, phase = "reading", todo # <<>>, todo[1][1] \in Columns
    PROVE  data = Cell(line, todo[1][1])
<1>. DEFINE n == todo[1][1]
<1>1. Types /\ TextTypes /\ IInv /\ Laid /\ Stages /\ Straight /\ FitsStack /\ NoUnions(Body)
    BY ExactIs DEF Walk, IInv, Straight
<1>2. Finished(Body) /\ line \in Nat /\ line >= 1 /\ data \in Nat
    <2>1. line \in Nat /\ data \in Nat /\ line \in 1..entries /\ entries \in Nat /\ Finished(Body)
        BY <1>1 DEF TextTypes, Stages
    <2>. QED
        BY <2>1
<1>3. RowSize \in Nat /\ Columns \in SUBSET Nodes
    BY <1>1, <1>2, RowIs
<1>. DEFINE before == (line - 1) * RowSize
<1>4. before \in Nat /\ line * RowSize = before + RowSize
    BY <1>2, <1>3, Rows
<1>5. \A m \in Columns : at[m] \in Nat /\ len[m] \in Nat /\ m \in Nat /\ m \in BodyNodes
    BY <1>1, <1>2, ColumnIs, NodeParts
<1>6. ASSUME NEW m \in ColumnsLeft
      PROVE  at[n] <= at[m] /\ at[m] + len[m] <= RowSize
    <2>1. m \in Columns /\ Coming(todo, m)
        BY DEF ColumnsLeft
    <2>2. m >= n
        BY <1>1, <1>5, <2>1, ComingBehind DEF Ordered, TextTypes
    <2>3. at[m] + len[m] <= RowSize
        BY <1>1, <1>2, <2>1, ColumnsApart
    <2>4. n < m => at[n] + len[n] <= at[m]
        BY <1>1, <1>2, <2>1, ColumnsApart
    <2>5. n \in Nat /\ m \in Nat /\ at[n] \in Nat /\ len[n] \in Nat /\ at[m] \in Nat
        BY <1>5, <2>1
    <2>6. n = m \/ n < m
        BY <2>2, <2>5
    <2>. QED
        BY <2>3, <2>4, <2>5, <2>6
<1>7. at[n] \in Nat /\ len[n] \in Nat /\ at[n] + len[n] <= RowSize
    BY <1>1, <1>2, <1>5, ColumnsApart
<1>8. ColumnsLeft \in SUBSET Columns /\ ColumnsLeft \in SUBSET Nodes
    BY <1>3 DEF ColumnsLeft
<1>9. at[n] <= RowSize
    BY <1>3, <1>7
<1>10. LenSum(ColumnsLeft) <= RowSize - at[n]
    BY <1>1, <1>2, <1>3, <1>6, <1>7, <1>8, <1>9, SumFits
<1>11. LenSum(ColumnsLeft) \in Int
    BY <1>1, <1>8, LenSums
<1>12. data + LenSum(ColumnsLeft) = before + RowSize
    BY <1>4 DEF OnTime
<1>13. data <= before + at[n]
    <2>1. Coming(todo, n)
        BY <1>1, FirstComes
    <2>. QED
        BY <1>1, <2>1 DEF Pointer
<1>14. data = before + at[n]
    <2>1. \A d, s, b, r, a \in Int : d + s = b + r /\ s <= r - a /\ d <= b + a => d = b + a
        OBVIOUS
    <2>2. data \in Int /\ LenSum(ColumnsLeft) \in Int /\ before \in Int /\ RowSize \in Int /\ at[n] \in Int
        BY <1>2, <1>3, <1>4, <1>7, <1>11
    <2>. HIDE DEF before, n
    <2>. QED
        BY <1>10, <1>12, <1>13, <2>1, <2>2
<1>. QED
    BY <1>14 DEF Cell

(* The columns that are left when the walk goes on or begins.              *)
LEMMA LeftOn ==
    ASSUME Types, TextTypes, Ordered, Straight, UNCHANGED layout, todo # <<>>,
           \/ Kind(todo[1][1]) \notin ColumnKinds /\ \E k : todo' = Calls(todo[1][1], k) \o Tail(todo)
           \/ Kind(todo[1][1]) \in ColumnKinds /\ \E v : todo' = CallsBehind(todo[1][1], v) \o Tail(todo)
    PROVE  ColumnsLeft' = ColumnsLeft \ {todo[1][1]}
<1>1. tab' = tab /\ Columns' = Columns
    BY LayoutStays, ColumnsStay
<1>2. OnFrom(todo[1][1])
    BY <1>1, WalkOn DEF Ordered
<1>3. \A m \in Columns : m \in Nodes
    BY BodyParts DEF Columns
<1>. QED
    BY <1>1, <1>2, <1>3 DEF OnFrom, ColumnsLeft

LEMMA LeftBegins ==
    ASSUME Types, tab' = tab, todo' = CallsBelow(Body)
    PROVE  ColumnsLeft' = Columns /\ Columns' = Columns
<1>1. Columns' = Columns /\ \A m, n : Below(m, n)' <=> Below(m, n)
    BY SameBody DEF Columns
<1>2. \A m \in Columns : m \in Nodes /\ m \in BodyNodes
    BY BodyParts DEF Columns
<1>. DEFINE s == CallsBelow(Body)
<1>3. \A m \in Columns : Coming(s, m)
    BY <1>2, OrderBegins
<1>4. todo' = s
    OBVIOUS
<1>. HIDE DEF s
<1>5. \A m \in Columns : Coming(todo, m)'
    BY <1>1, <1>3, <1>4 DEF Coming
<1>. QED
    BY <1>1, <1>5 DEF ColumnsLeft

LEMMA OnTimeStep ==
    ASSUME Walk, Ordered, OnTime, [Next]_vars
    PROVE  OnTime'
<1>1. Types /\ TextTypes /\ IInv /\ Laid /\ Stages
    BY DEF Walk, IInv
<1>2. tab' = tab /\ (LayoutNext \/ UNCHANGED layout)
    BY <1>1, StepLayout
<1>3. CASE phase' # "reading"
    BY <1>3 DEF OnTime
<1>4. CASE OpenSeed
    <2>1. /\ phase' = "reading" /\ line' = line + 1 /\ data' = data /\ len' = len /\ todo' = CallsBelow(Body)
          /\ phase = "layout"
        BY <1>4 DEF OpenSeed, BeginLine, CloseTable
    <2>2. loaded = "not yet" /\ Finished(Body)
        BY <1>1, <1>4, BodyIsLeft DEF OpenSeed, LeavesTable, Stages, IInv
    <2>a. line = 0 /\ data = 0
        BY <1>1, <2>1, <2>2 DEF Stages
    <2>3. line' = 1 /\ data' = 0
        BY <2>1, <2>a
    <2>. SUFFICES ASSUME Exact'
                  PROVE  data' + LenSum(ColumnsLeft)' = line' * RowSize'
        BY DEF OnTime
    <2>4. Exact /\ RowSize' = RowSize
        BY <1>1, <1>2, <2>2, ExactStays
    <2>5. RowSize = LenSum(Columns) /\ RowSize \in Nat
        BY <1>1, <2>2, <2>4, RowIs
    <2>6. PICK c : c = Columns /\ c = ColumnsLeft'
        BY <1>1, <1>2, <2>1, LeftBegins
    <2>7. LenSum(ColumnsLeft)' = LenSum(c)
        BY <2>1, <2>6 DEF LenSum
    <2>8. LenSum(ColumnsLeft)' = RowSize
        BY <2>5, <2>6, <2>7
    <2>. QED
        BY <2>3, <2>4, <2>5, <2>8
<1>5. CASE UNCHANGED layout /\ phase = "reading" /\ phase' = "reading"
    <2>1. RowSize' = RowSize /\ len' = len /\ Columns' = Columns /\ Finished(Body) /\ (Exact' <=> Exact)
        BY <1>1, <1>5, ColumnsStay, ExactStays DEF Stages
    <2>. SUFFICES ASSUME Exact
                  PROVE  data' + LenSum(ColumnsLeft)' = line' * RowSize
        BY <2>1 DEF OnTime
    <2>2. data + LenSum(ColumnsLeft) = line * RowSize
        BY <1>5 DEF OnTime
    <2>3. PICK c : c = ColumnsLeft'
        OBVIOUS
    <2>4. LenSum(ColumnsLeft)' = LenSum(c)
        BY <2>1, <2>3 DEF LenSum
    <2>5. Straight /\ ColumnsLeft \in SUBSET Nodes
        BY <1>1, ExactIs, BodyParts DEF ColumnsLeft, Columns
    <2>6. line \in Nat /\ data \in Nat /\ RowSize \in Nat
        BY <1>1, <2>1, RowSizeIs DEF TextTypes
    <2>7. CASE UNCHANGED vars
        <3>1. data' = data /\ line' = line /\ todo' = todo
            BY <2>7 DEF vars, text
        <3>2. ColumnsLeft' = ColumnsLeft
            BY <1>2, <2>1, <3>1, SameBody DEF ColumnsLeft, Coming
        <3>. QED
            BY <2>2, <2>3, <2>4, <3>1, <3>2
    <2>8. CASE Descend
        <3>1. /\ data' = data /\ line' = line /\ todo # <<>> /\ Kind(todo[1][1]) \notin ColumnKinds
              /\ \E k : todo' = Calls(todo[1][1], k) \o Tail(todo)
            BY <2>8 DEF Descend
        <3>2. todo[1][1] \notin Columns
            BY <3>1 DEF Columns, ColumnKinds
        <3>3. ColumnsLeft' = ColumnsLeft
            BY <1>1, <1>5, <2>5, <3>1, <3>2, LeftOn DEF ColumnsLeft
        <3>. QED
            BY <2>2, <2>3, <2>4, <3>1, <3>3
    <2>9. CASE EntryColumn
        <3>1. PICK n \in Nodes :
                  /\ AtColumn(n) /\ data' = data + WidthInText(n) /\ line' = line
                  /\ \E v : todo' = CallsBehind(n, v) \o Tail(todo)
            BY <2>9, EntryIs DEF Entry
        <3>2. n = todo[1][1] /\ todo # <<>> /\ Kind(n) \in ColumnKinds /\ n \in BodyNodes
            BY <1>1, <3>1, TodoHead DEF AtColumn
        <3>3. n \in Columns /\ Kind(n) \in Stored
            BY <1>1, <3>2, ExactIs
        <3>4. len[n] = Length[Kind(n)] /\ len[n] \in Nat
            BY <1>1, <2>1, <3>3, ColumnIs, ExactIs
        <3>5. data' = data + len[n]
            BY <3>1, <3>3, <3>4 DEF WidthInText
        <3>6. c = ColumnsLeft \ {n}
            BY <1>1, <1>5, <2>3, <2>5, <3>1, <3>2, LeftOn
        <3>7. n \in ColumnsLeft
            BY <1>1, <3>2, <3>3, FirstComes DEF ColumnsLeft
        <3>8. LenSum(ColumnsLeft) = len[n] + LenSum(c) /\ LenSum(c) \in Int
            BY <1>1, <2>5, <3>6, <3>7, LenSums
        <3>. QED
            BY <2>2, <2>4, <2>6, <3>1, <3>4, <3>5, <3>8
    <2>10. CASE NextLine
        <3>1. data' = data /\ line' = line + 1 /\ todo = <<>> /\ todo' = CallsBelow(Body)
            BY <2>10 DEF NextLine, BeginLine
        <3>2. ColumnsLeft = {}
            BY <3>1, NothingComing DEF ColumnsLeft
        <3>3. LenSum(ColumnsLeft) = 0
            BY <1>1, <2>5, <3>2, LenSums
        <3>4. c = Columns
            BY <1>1, <1>2, <2>3, <3>1, LeftBegins
        <3>5. LenSum(c) = RowSize
            BY <1>1, <2>1, <3>4, RowIs
        <3>6. line' \in Nat /\ line' >= 1 /\ line' - 1 = line
            BY <2>6, <3>1
        <3>7. line' * RowSize = line * RowSize + RowSize
            BY <2>6, <3>6, Rows
        <3>. QED
            BY <2>2, <2>4, <2>6, <3>1, <3>3, <3>5, <3>7
    <2>. QED
        BY <1>5, <2>7, <2>8, <2>9, <2>10
           DEF Next, Layout, OpenSeed, NoSuchMember, LineTooShort, DiesOfOverrun, EndSeed, WriteHeader, WriteColumn, EndRow
<1>6. \/ phase' # "reading" \/ OpenSeed \/ (UNCHANGED layout /\ phase = "reading" /\ phase' = "reading")
    BY DEF Next, vars, text, Layout, Descend, NoSuchMember, EntryColumn, LineTooShort, DiesOfOverrun, NextLine, EndSeed,
           WriteHeader, WriteColumn, EndRow
<1>. QED
    BY <1>3, <1>4, <1>5, <1>6

-----------------------------------------------------------------------------
(* The fields of the lines that were read are in memory where the columns  *)
(* have them, and the lines written are those.                             *)

Read(i) == IF phase = "reading" /\ i = line THEN Columns \ ColumnsLeft ELSE Columns
Written(i) == IF phase = "writing" /\ i = line THEN Columns \ ColumnsLeft ELSE Columns
Place(m) == Rank(Columns, m) + 1

SeedHeld ==
    Exact /\ (phase = "reading" \/ loaded = "yes") =>
        \A i \in 1..Len(seed) :
            /\ Len(seed[i]) = Cardinality(Read(i))
            /\ \A m \in Read(i) : seed[i][Place(m)] = mem[Cell(i, m)]

RowsHeld ==
    Exact /\ phase \in {"writing", "written"} =>
        \A i \in 1..Len(out) :
            /\ Len(out[i]) = Cardinality(Written(i))
            /\ \A m \in Written(i) : out[i][Place(m)] = seed[i][Place(m)]

(* What was read, or written, of a line before a column and with it.       *)
LEMMA LineSoFar ==
    ASSUME Types, TextTypes, Ordered, Straight, todo # <<>>, todo[1][1] \in Columns
    PROVE  LET n == todo[1][1]
           IN  /\ Rank(Columns, n) \in Nat
               /\ Cardinality(Columns \ ColumnsLeft) = Rank(Columns, n)
               /\ Cardinality(Columns \ (ColumnsLeft \ {n})) = Rank(Columns, n) + 1
               /\ Columns \ (ColumnsLeft \ {n}) = (Columns \ ColumnsLeft) \union {n}
               /\ \A m \in Columns \ ColumnsLeft : m \in Columns /\ m < n /\ Place(m) \in 1..Rank(Columns, n)
<1>. DEFINE n == todo[1][1]
            B == Columns \ ColumnsLeft
<1>1. Columns \in SUBSET Nodes /\ Columns \in SUBSET Nat /\ IsFiniteSet(Columns) /\ Cardinality(Columns) \in Nat
    <2>1. Columns \in SUBSET Nodes
        BY BodyParts DEF Columns
    <2>. QED
        BY <2>1, ChildrenFinite
<1>2. n \in Nat /\ n \in ColumnsLeft /\ \A m \in Columns : m \in Nat /\ m \in BodyNodes
    BY <1>1, FirstComes DEF ColumnsLeft, Columns
<1>3. \A m \in Columns : m \in ColumnsLeft <=> m >= n
    BY <1>2, ComingBehind DEF ColumnsLeft, Ordered, TextTypes
<1>4. B = {m \in Columns : m < n}
    BY <1>2, <1>3
<1>5. Cardinality(B) = Rank(Columns, n)
    BY <1>4 DEF Rank
<1>6. IsFiniteSet(B) /\ n \notin B
    BY <1>1, <1>2, FS_Subset
<1>7. Cardinality(B \union {n}) = Cardinality(B) + 1 /\ Cardinality(B) \in Nat
    BY <1>6, FS_AddElement, FS_CardinalityType
<1>8. Columns \ (ColumnsLeft \ {n}) = B \union {n}
    BY <1>2
<1>9. ASSUME NEW m \in B
      PROVE  m \in Columns /\ m < n /\ Place(m) \in 1..Rank(Columns, n)
    <2>1. m \in Columns /\ m < n
        BY <1>4
    <2>2. Rank(Columns, m) < Rank(Columns, n) /\ Rank(Columns, m) \in 0..(Cardinality(Columns) - 1)
        BY <1>1, <2>1, Ranks
    <2>3. Rank(Columns, m) \in Nat /\ Rank(Columns, n) \in Nat
        BY <1>1, <1>5, <1>7, <2>2
    <2>4. Rank(Columns, m) + 1 \in 1..Rank(Columns, n)
        BY <2>2, <2>3
    <2>. QED
        BY <2>1, <2>4 DEF Place
<1>. QED
    BY <1>5, <1>7, <1>8, <1>9

(* A value more at the end of a sequence of sequences' line.               *)
LEMMA LineGrows ==
    ASSUME NEW s \in Seq(Seq(Nat)), NEW l \in DOMAIN s, NEW v \in Nat
    PROVE  LET t == [s EXCEPT ![l] = Append(@, v)]
           IN  /\ Len(t) = Len(s) /\ Len(s[l]) \in Nat
               /\ \A i \in DOMAIN s : i # l => t[i] = s[i]
               /\ Len(t[l]) = Len(s[l]) + 1
               /\ \A k \in 1..Len(s[l]) : t[l][k] = s[l][k]
               /\ t[l][Len(s[l]) + 1] = v
<1>1. s[l] \in Seq(Nat)
    OBVIOUS
<1>2. [s EXCEPT ![l] = Append(@, v)][l] = Append(s[l], v)
    OBVIOUS
<1>3. /\ Len(Append(s[l], v)) = Len(s[l]) + 1 /\ Len(s[l]) \in Nat
      /\ \A k \in 1..Len(s[l]) : Append(s[l], v)[k] = s[l][k]
      /\ Append(s[l], v)[Len(s[l]) + 1] = v
    BY <1>1
<1>4. Len([s EXCEPT ![l] = Append(@, v)]) = Len(s)
    OBVIOUS
<1>. QED
    BY <1>2, <1>3, <1>4

(* A line more, empty yet.                                                 *)
LEMMA LineAdded ==
    ASSUME NEW s \in Seq(Seq(Nat))
    PROVE  /\ Len(Append(s, <<>>)) = Len(s) + 1 /\ Len(s) \in Nat
           /\ \A i \in 1..Len(s) : Append(s, <<>>)[i] = s[i]
           /\ Append(s, <<>>)[Len(s) + 1] = <<>>
OBVIOUS

LEMMA SeedEntered ==
    ASSUME Walk, Ordered, Pointer, OnTime, SeedHeld, Exact, EntryColumn
    PROVE  SeedHeld'
<1>1. Types /\ TextTypes /\ IInv /\ Laid /\ Stages /\ Straight /\ UNCHANGED layout
    BY ExactIs DEF Walk, IInv, EntryColumn
<1>2. PICK n, v, words : Entry(n, v, words)
    BY EntryIs
<1>a. /\ n \in Nodes /\ phase = "reading" /\ AtColumn(n)
      /\ seed' = [seed EXCEPT ![line] = Append(@, v)]
      /\ mem' = [i \in DOMAIN mem |-> IF i \in data..(data + words - 1) THEN v ELSE mem[i]]
      /\ \E z : todo' = CallsBehind(n, z) \o Tail(todo)
      /\ UNCHANGED <<phase, loaded, entries, line>>
    BY <1>2 DEF Entry
<1>3. n = todo[1][1] /\ todo # <<>> /\ Kind(n) \in ColumnKinds /\ n \in BodyNodes
    BY <1>1, <1>a, TodoHead DEF AtColumn
<1>4. n \in Columns /\ Kind(n) \in Stored
    BY <1>1, <1>3, ExactIs
<1>5. /\ line \in 1..entries /\ entries \in Nat /\ entries <= MaxLines /\ Len(seed) = line /\ Finished(Body)
      /\ seed \in Seq(Seq(Nat)) /\ line \in Nat /\ mem \in [0..(MaxWords - 1) -> Nat] /\ MaxWords \in Nat
    BY <1>1, <1>a, TextConstants DEF Stages, TextTypes
<1>6. v \in Nat /\ words \in Nat /\ words >= 1
    BY <1>1, <1>2, <1>4, EntryTypes
<1>7. data = Cell(line, n) /\ data \in 0..(MaxWords - 1)
    BY <1>1, <1>a, <1>3, <1>4, <1>5, AtPlace, CellIs
<1>9. /\ \A m \in Columns : m < n => Cell(line, m) < data /\ Cell(line, m) \in 0..(MaxWords - 1)
      /\ \A i \in 1..entries, m \in Columns : i < line => Cell(i, m) < data /\ Cell(i, m) \in 0..(MaxWords - 1)
    BY <1>1, <1>4, <1>5, <1>7, CellIs
<1>10. mem'[data] = v /\ \A w \in 0..(MaxWords - 1) : w < data => mem'[w] = mem[w]
    <2>1. data \in data..(data + words - 1)
        BY <1>5, <1>6, <1>7
    <2>2. \A w \in 0..(MaxWords - 1) : w < data => w \notin data..(data + words - 1)
        BY <1>5, <1>6, <1>7
    <2>. QED
        BY <1>5, <1>7, <1>a, <2>1, <2>2
<1>11. /\ Columns' = Columns /\ RowSize' = RowSize /\ at' = at /\ (Exact' <=> Exact)
       /\ ColumnsLeft' = ColumnsLeft \ {n}
    <2>1. \E w : todo' = CallsBehind(todo[1][1], w) \o Tail(todo)
        BY <1>3, <1>a
    <2>. QED
        BY <1>1, <1>3, <1>5, <2>1, LeftOn, ColumnsStay, ExactStays
<1>. DEFINE K == Rank(Columns, n)
<1>12. /\ K \in Nat /\ Cardinality(Columns \ ColumnsLeft) = K
       /\ Cardinality(Columns \ (ColumnsLeft \ {n})) = K + 1
       /\ Columns \ (ColumnsLeft \ {n}) = (Columns \ ColumnsLeft) \union {n}
       /\ \A m \in Columns \ ColumnsLeft : m \in Columns /\ m < n /\ Place(m) \in 1..K
    BY <1>1, <1>3, <1>4, LineSoFar
<1>13. line \in DOMAIN seed /\ 1..Len(seed) = 1..line /\ DOMAIN seed = 1..line
    BY <1>5
<1>14. \A i \in 1..line :
           /\ Len(seed[i]) = Cardinality(Read(i))
           /\ \A m \in Read(i) : seed[i][Place(m)] = mem[Cell(i, m)]
    BY <1>a, <1>13 DEF SeedHeld
<1>15. /\ Len(seed') = line /\ (\A i \in 1..line : i # line => seed'[i] = seed[i])
       /\ Len(seed'[line]) = Len(seed[line]) + 1
       /\ (\A k \in 1..Len(seed[line]) : seed'[line][k] = seed[line][k])
       /\ seed'[line][Len(seed[line]) + 1] = v
    BY <1>5, <1>6, <1>a, <1>13, LineGrows
<1>16. Read(line) = Columns \ ColumnsLeft /\ \A i \in 1..line : i # line => Read(i) = Columns
    BY <1>a DEF Read
<1>17. Len(seed[line]) = K
    BY <1>12, <1>13, <1>14, <1>16, <1>5
<1>. HIDE DEF K
<1>18. ASSUME NEW i \in 1..line, i # line
       PROVE  /\ Len(seed'[i]) = Cardinality(Columns)
              /\ \A m \in Columns : seed'[i][Place(m)] = mem'[Cell(i, m)]
    <2>1. i < line /\ i \in 1..entries
        BY <1>5, <1>18
    <2>. QED
        BY <1>9, <1>10, <1>14, <1>15, <1>16, <1>18, <2>1
<1>19. Len(seed'[line]) = Cardinality(Columns \ (ColumnsLeft \ {n}))
    BY <1>12, <1>15, <1>17
<1>20. ASSUME NEW m \in Columns \ (ColumnsLeft \ {n})
       PROVE  seed'[line][Place(m)] = mem'[Cell(line, m)]
    <2>1. CASE m = n
        BY <1>7, <1>10, <1>15, <1>17, <2>1 DEF Place, K
    <2>2. CASE m # n
        <3>1. m \in Columns \ ColumnsLeft /\ m \in Columns /\ m < n /\ Place(m) \in 1..K
            BY <1>12, <1>20, <2>2
        <3>2. seed'[line][Place(m)] = seed[line][Place(m)]
            BY <1>15, <1>17, <3>1
        <3>3. mem'[Cell(line, m)] = mem[Cell(line, m)]
            BY <1>9, <1>10, <3>1
        <3>4. line \in 1..line
            BY <1>5
        <3>. QED
            BY <1>14, <1>16, <3>1, <3>2, <3>3, <3>4
    <2>. QED
        BY <2>1, <2>2
<1>21. /\ \A i : Cell(i, n)' = Cell(i, n)
       /\ \A i, m : Cell(i, m)' = Cell(i, m)
       /\ \A m : Place(m)' = Place(m)
    BY <1>11 DEF Cell, Place, Rank
<1>22. \A i \in 1..line : Read(i)' = IF i = line THEN Columns \ (ColumnsLeft \ {n}) ELSE Columns
    BY <1>a, <1>11 DEF Read
<1>23. \A i \in 1..line :
           /\ Len(seed'[i]) = Cardinality(Read(i)')
           /\ \A m \in Read(i)' : seed'[i][Place(m)'] = mem'[Cell(i, m)']
    BY <1>18, <1>19, <1>20, <1>21, <1>22
<1>. QED
    BY <1>15, <1>23 DEF SeedHeld

(* The seed is not touched.                                                *)
LEMMA SeedKept ==
    ASSUME IInv, Finished(Body), LayoutNext \/ UNCHANGED layout, UNCHANGED <<seed, mem>>,
           SeedHeld, Exact => (phase = "reading" \/ loaded = "yes"),
           Exact => \A i \in 1..Len(seed) : Read(i)' = Read(i)
    PROVE  SeedHeld'
<1>1. Columns' = Columns /\ RowSize' = RowSize /\ (Exact' <=> Exact) /\ \A m \in Columns : at'[m] = at[m]
    BY ExactStays
<1>2. (\A i : \A m \in Columns : Cell(i, m)' = Cell(i, m)) /\ \A m : Place(m)' = Place(m)
    BY <1>1 DEF Cell, Place, Rank
<1>3. \A i : \A m \in Read(i) : m \in Columns
    BY DEF Read
<1>. SUFFICES ASSUME Exact', NEW i \in 1..Len(seed')
              PROVE  /\ Len(seed'[i]) = Cardinality(Read(i)')
                     /\ \A m \in Read(i)' : seed'[i][Place(m)'] = mem'[Cell(i, m)']
    BY DEF SeedHeld
<1>4. Read(i)' = Read(i) /\ seed' = seed /\ mem' = mem /\ i \in 1..Len(seed) /\ Exact
    BY <1>1
<1>5. /\ Len(seed[i]) = Cardinality(Read(i))
      /\ \A m \in Read(i) : seed[i][Place(m)] = mem[Cell(i, m)]
    BY <1>4 DEF SeedHeld
<1>. QED
    BY <1>2, <1>3, <1>4, <1>5

LEMMA NothingLeft ==
    ASSUME todo = <<>>
    PROVE  ColumnsLeft = {} /\ Columns \ ColumnsLeft = Columns
BY NothingComing DEF ColumnsLeft

LEMMA SeedHeldStep ==
    ASSUME Walk, Ordered, Pointer, OnTime, SeedHeld, [Next]_vars
    PROVE  SeedHeld'
<1>1. Types /\ TextTypes /\ IInv /\ Laid /\ Stages
    BY DEF Walk, IInv
<1>2. tab' = tab /\ (LayoutNext \/ UNCHANGED layout)
    BY <1>1, StepLayout
<1>3. \A i : Columns \ ColumnsLeft \subseteq Columns
    OBVIOUS
<1>4. CASE phase' # "reading" /\ loaded' # "yes"
    BY <1>4 DEF SeedHeld
<1>5. CASE UNCHANGED vars
    <2>1. UNCHANGED <<phase, loaded, seed, mem, line, todo>> /\ UNCHANGED layout
        BY <1>5 DEF vars, text
    <2>2. CASE phase = "reading" \/ loaded = "yes"
        <3>1. Finished(Body)
            BY <1>1, <2>2 DEF Stages
        <3>2. Columns' = Columns /\ ColumnsLeft' = ColumnsLeft
            BY <1>2, <2>1, ColumnsStay, SameBody DEF ColumnsLeft, Coming
        <3>3. \A i : Read(i)' = Read(i)
            BY <2>1, <3>2 DEF Read
        <3>. QED
            BY <1>1, <2>1, <2>2, <3>1, <3>3, SeedKept
    <2>. QED
        BY <1>4, <2>1, <2>2
<1>6. CASE Layout \/ NoSuchMember \/ LineTooShort \/ DiesOfOverrun \/ WriteHeader \/ WriteColumn \/ EndRow
    <2>1. /\ UNCHANGED <<loaded, seed, mem>> /\ phase' # "reading"
        BY <1>6 DEF Layout, NoSuchMember, LineTooShort, DiesOfOverrun, WriteHeader, WriteColumn, EndRow, text
    <2>2. CASE loaded = "yes"
        <3>1. Finished(Body) /\ phase # "reading"
            BY <1>1, <2>2 DEF Stages
        <3>2. Columns' = Columns
            BY <1>2, SameBody DEF Columns
        <3>3. \A i : Read(i)' = Read(i)
            BY <2>1, <3>1, <3>2 DEF Read
        <3>. QED
            BY <1>1, <1>2, <2>1, <2>2, <3>1, <3>3, SeedKept
    <2>. QED
        BY <1>4, <2>1, <2>2
<1>7. CASE Descend
    <2>1. /\ UNCHANGED <<phase, loaded, seed, mem, line>> /\ UNCHANGED layout /\ todo # <<>>
          /\ Kind(todo[1][1]) \notin ColumnKinds /\ \E k : todo' = Calls(todo[1][1], k) \o Tail(todo)
        BY <1>7 DEF Descend
    <2>2. CASE phase = "reading" \/ loaded = "yes"
        <3>1. Finished(Body)
            BY <1>1, <2>2 DEF Stages
        <3>2. Columns' = Columns /\ todo[1][1] \notin Columns
            BY <2>1, ColumnsStay DEF Columns, ColumnKinds
        <3>3. ASSUME Exact
              PROVE  \A i : Read(i)' = Read(i)
            <4>1. ColumnsLeft' = ColumnsLeft
                BY <1>1, <2>1, <3>2, <3>3, ExactIs, LeftOn DEF ColumnsLeft
            <4>. QED
                BY <2>1, <3>2, <4>1 DEF Read
        <3>. QED
            BY <1>1, <2>1, <2>2, <3>1, <3>3, SeedKept
    <2>. QED
        BY <1>4, <2>1, <2>2
<1>8. CASE EndSeed
    <2>1. /\ phase = "reading" /\ phase' = "layout" /\ UNCHANGED <<seed, mem>> /\ UNCHANGED layout
          /\ (loaded' = "yes" => todo = <<>>)
        BY <1>8 DEF EndSeed
    <2>2. CASE loaded' = "yes"
        <3>1. Finished(Body) /\ Columns' = Columns
            BY <1>1, <2>1, ColumnsStay DEF Stages
        <3>2. \A i : Read(i)' = Read(i)
            BY <2>1, <2>2, <3>1, NothingLeft DEF Read
        <3>. QED
            BY <1>1, <2>1, <3>1, <3>2, SeedKept
    <2>. QED
        BY <1>4, <2>1, <2>2
<1>9. CASE OpenSeed
    <2>1. /\ phase' = "reading" /\ line' = line + 1 /\ todo' = CallsBelow(Body) /\ seed' = Append(seed, <<>>)
          /\ phase = "layout"
        BY <1>9 DEF OpenSeed, BeginLine
    <2>2. loaded = "not yet"
        BY <1>1, <1>9, BodyIsLeft DEF OpenSeed, LeavesTable, Stages, IInv
    <2>3. line = 0 /\ seed = <<>>
        BY <1>1, <2>1, <2>2 DEF Stages
    <2>4. line' = 1 /\ seed' = <<<<>>>>
        BY <2>1, <2>3
    <2>5. ColumnsLeft' = Columns /\ Columns' = Columns
        BY <1>1, <1>2, <2>1, LeftBegins
    <2>6. Read(1)' = {}
        BY <2>1, <2>4, <2>5 DEF Read
    <2>7. Len(seed') = 1 /\ Len(seed'[1]) = 0 /\ Cardinality({}) = 0 /\ \A i \in 1..Len(seed') : i = 1
        BY <2>4, FS_EmptySet
    <2>. QED
        BY <2>6, <2>7 DEF SeedHeld
<1>10. CASE EntryColumn
    <2>1. phase = "reading" /\ UNCHANGED layout
        BY <1>10 DEF EntryColumn
    <2>2. Finished(Body)
        BY <1>1, <2>1 DEF Stages
    <2>3. Exact' <=> Exact
        BY <1>1, <2>1, <2>2, ExactStays
    <2>4. CASE Exact
        BY <1>10, <2>4, SeedEntered
    <2>. QED
        BY <2>3, <2>4 DEF SeedHeld
<1>11. CASE NextLine
    <2>1. /\ phase = "reading" /\ phase' = "reading" /\ line' = line + 1 /\ todo = <<>>
          /\ todo' = CallsBelow(Body) /\ seed' = Append(seed, <<>>) /\ mem' = mem /\ UNCHANGED layout
        BY <1>11 DEF NextLine, BeginLine
    <2>2. Finished(Body) /\ Len(seed) = line /\ line \in Nat /\ seed \in Seq(Seq(Nat))
        BY <1>1, <2>1 DEF Stages, TextTypes
    <2>3. /\ Columns' = Columns /\ ColumnsLeft' = Columns /\ RowSize' = RowSize /\ at' = at /\ (Exact' <=> Exact)
        BY <1>1, <1>2, <2>1, <2>2, LeftBegins, ColumnsStay, ExactStays
    <2>. SUFFICES ASSUME Exact
                  PROVE  \A i \in 1..Len(seed') :
                            /\ Len(seed'[i]) = Cardinality(Read(i)')
                            /\ \A m \in Read(i)' : seed'[i][Place(m)'] = mem'[Cell(i, m)']
        BY <2>3 DEF SeedHeld
    <2>a. PICK l \in Nat : l = line + 1
        BY <2>2
    <2>4. /\ Len(seed') = l /\ seed'[l] = <<>>
          /\ \A i \in 1..line : seed'[i] = seed[i]
        BY <2>1, <2>2, <2>a, LineAdded
    <2>5. \A i \in 1..line : Read(i) = Columns
        BY <2>1, NothingLeft DEF Read
    <2>6. Read(l)' = {} /\ \A i \in 1..line : i # l /\ Read(i)' = Columns
        <3>1. \A i \in 1..line : i # l
            BY <2>2, <2>a
        <3>2. line' = l
            BY <2>1, <2>a
        <3>. QED
            BY <2>1, <2>3, <3>1, <3>2 DEF Read
    <2>7. (\A i, m : Cell(i, m)' = Cell(i, m)) /\ \A m : Place(m)' = Place(m)
        BY <2>3 DEF Cell, Place, Rank
    <2>8. \A i \in 1..Len(seed') : i \in 1..line \/ i = l
        BY <2>2, <2>4, <2>a
    <2>9. Len(<<>>) = 0 /\ Cardinality({}) = 0
        BY FS_EmptySet
    <2>10. \A i \in 1..line :
              /\ Len(seed[i]) = Cardinality(Columns)
              /\ \A m \in Columns : seed[i][Place(m)] = mem[Cell(i, m)]
        BY <2>1, <2>2, <2>5 DEF SeedHeld
    <2>11. ASSUME NEW i \in 1..line
           PROVE  /\ Len(seed'[i]) = Cardinality(Read(i)')
                  /\ \A m \in Read(i)' : seed'[i][Place(m)'] = mem'[Cell(i, m)']
        BY <2>1, <2>4, <2>6, <2>7, <2>10
    <2>12. /\ Len(seed'[l]) = Cardinality(Read(l)')
           /\ \A m \in Read(l)' : seed'[l][Place(m)'] = mem'[Cell(l, m)']
        BY <2>4, <2>6, <2>9
    <2>. QED
        BY <2>8, <2>11, <2>12
<1>. QED
    BY <1>5, <1>6, <1>7, <1>8, <1>9, <1>10, <1>11 DEF Next

(* What is written of a line is what was read of it.                       *)
LEMMA RowWritten ==
    ASSUME Walk, Ordered, SeedHeld, RowsHeld, Exact, WriteColumn
    PROVE  RowsHeld'
<1>1. Types /\ TextTypes /\ IInv /\ Laid /\ Stages /\ Straight /\ FitsStack /\ UNCHANGED layout
    BY ExactIs DEF Walk, IInv, WriteColumn
<1>2. PICK n \in Nodes :
          /\ phase = "writing" /\ AtColumn(n)
          /\ out' = IF Kind(n) \in Stored THEN [out EXCEPT ![line] = Append(@, Word(n))] ELSE out
          /\ todo' = CallsBehind(n, Word(n)) \o Tail(todo)
          /\ UNCHANGED <<phase, loaded, entries, line, seed>>
    BY DEF WriteColumn
<1>3. n = todo[1][1] /\ todo # <<>> /\ Kind(n) \in ColumnKinds /\ n \in BodyNodes
    BY <1>1, <1>2, TodoHead DEF AtColumn
<1>4. n \in Columns /\ Kind(n) \in Stored
    BY <1>1, <1>3, ExactIs
<1>5. /\ line \in 1..entries /\ entries \in Nat /\ entries <= MaxLines /\ Len(seed) = entries /\ Len(out) = line
      /\ Finished(Body) /\ out \in Seq(Seq(Nat)) /\ line \in Nat /\ MaxWords \in Nat /\ loaded = "yes"
    BY <1>1, <1>2, TextConstants DEF Stages, TextTypes
<1>. DEFINE v == Word(n)
<1>6. v = seed[line][Place(n)] /\ v \in Nat
    <2>1. IsColumn(n) /\ at[n] # Unset
        BY <1>1, <1>4, <1>5, ColumnIs DEF IsColumn
    <2>2. Cell(line, n) \in 0..(MaxWords - 1)
        BY <1>1, <1>4, <1>5, CellIs
    <2>3. v = mem[Cell(line, n)]
        <3>1. Cell(line, n) < MaxWords
            BY <1>5, <2>2
        <3>. QED
            BY <2>1, <3>1 DEF Word, Cell
    <2>4. n \in Read(line) /\ line \in 1..Len(seed)
        BY <1>2, <1>4, <1>5 DEF Read
    <2>5. seed[line][Place(n)] = mem[Cell(line, n)]
        BY <1>5, <2>4 DEF SeedHeld
    <2>6. line >= 1
        BY <1>5
    <2>7. v \in Nat
        BY <1>1, <1>2, <1>5, <2>6, WordIs
    <2>. QED
        BY <2>3, <2>5, <2>7
<1>7. out' = [out EXCEPT ![line] = Append(@, v)] /\ todo' = CallsBehind(todo[1][1], v) \o Tail(todo)
    BY <1>2, <1>3, <1>4
<1>. HIDE DEF v
<1>8. /\ Columns' = Columns /\ (Exact' <=> Exact) /\ ColumnsLeft' = ColumnsLeft \ {n}
    BY <1>1, <1>3, <1>5, <1>7, LeftOn, ColumnsStay, ExactStays
<1>. DEFINE K == Rank(Columns, n)
<1>9. /\ K \in Nat /\ Cardinality(Columns \ ColumnsLeft) = K
      /\ Cardinality(Columns \ (ColumnsLeft \ {n})) = K + 1
      /\ Columns \ (ColumnsLeft \ {n}) = (Columns \ ColumnsLeft) \union {n}
      /\ \A m \in Columns \ ColumnsLeft : m \in Columns /\ m < n /\ Place(m) \in 1..K
    BY <1>1, <1>3, <1>4, LineSoFar
<1>10. line \in DOMAIN out /\ 1..Len(out) = 1..line /\ DOMAIN out = 1..line /\ line \in 1..line
    BY <1>5
<1>11. \A i \in 1..line :
           /\ Len(out[i]) = Cardinality(Written(i))
           /\ \A m \in Written(i) : out[i][Place(m)] = seed[i][Place(m)]
    BY <1>2, <1>10 DEF RowsHeld
<1>12. /\ Len(out') = line /\ (\A i \in 1..line : i # line => out'[i] = out[i])
       /\ Len(out'[line]) = Len(out[line]) + 1
       /\ (\A k \in 1..Len(out[line]) : out'[line][k] = out[line][k])
       /\ out'[line][Len(out[line]) + 1] = v
    BY <1>5, <1>6, <1>7, <1>10, LineGrows
<1>13. Written(line) = Columns \ ColumnsLeft /\ \A i \in 1..line : i # line => Written(i) = Columns
    BY <1>2 DEF Written
<1>14. Len(out[line]) = K
    BY <1>9, <1>10, <1>11, <1>13
<1>. HIDE DEF K
<1>15. ASSUME NEW m \in Columns \ (ColumnsLeft \ {n})
       PROVE  out'[line][Place(m)] = seed[line][Place(m)]
    <2>1. CASE m = n
        BY <1>6, <1>12, <1>14, <2>1 DEF Place, K
    <2>2. CASE m # n
        <3>1. m \in Columns \ ColumnsLeft /\ Place(m) \in 1..K
            BY <1>9, <1>15, <2>2
        <3>. QED
            BY <1>10, <1>11, <1>12, <1>13, <1>14, <3>1
    <2>. QED
        BY <2>1, <2>2
<1>16. \A m : Place(m)' = Place(m)
    BY <1>8 DEF Place, Rank
<1>17. \A i \in 1..line : Written(i)' = IF i = line THEN Columns \ (ColumnsLeft \ {n}) ELSE Columns
    BY <1>2, <1>8 DEF Written
<1>18. Len(out'[line]) = Cardinality(Columns \ (ColumnsLeft \ {n}))
    BY <1>9, <1>12, <1>14 DEF K
<1>19. ASSUME NEW i \in 1..line, i # line
       PROVE  /\ Len(out'[i]) = Cardinality(Columns)
              /\ \A m \in Columns : out'[i][Place(m)] = seed[i][Place(m)]
    BY <1>11, <1>12, <1>13, <1>19
<1>20. seed' = seed
    BY <1>2
<1>21. \A i \in 1..line :
           /\ Len(out'[i]) = Cardinality(Written(i)')
           /\ \A m \in Written(i)' : out'[i][Place(m)'] = seed'[i][Place(m)']
    BY <1>15, <1>16, <1>17, <1>18, <1>19, <1>20
<1>. QED
    BY <1>12, <1>21 DEF RowsHeld

(* A line more is begun.                                                   *)
LEMMA RowBegins ==
    ASSUME Walk, RowsHeld, BeginRow, UNCHANGED seed, UNCHANGED layout, phase' = "writing", Len(out) = line,
           Finished(Body), \/ line = 0
                           \/ phase = "writing" /\ todo = <<>>
    PROVE  RowsHeld'
<1>1. Types /\ TextTypes /\ IInv /\ tab' = tab
    BY LayoutStays DEF Walk, IInv
<1>2. /\ line' = line + 1 /\ todo' = CallsBelow(Body) /\ out' = Append(out, <<>>)
      /\ line \in Nat /\ out \in Seq(Seq(Nat))
    BY <1>1 DEF BeginRow, TextTypes
<1>3. /\ Columns' = Columns /\ ColumnsLeft' = Columns /\ (Exact' <=> Exact)
    BY <1>1, <1>2, LeftBegins, ExactStays
<1>. SUFFICES ASSUME Exact
              PROVE  \A i \in 1..Len(out') :
                        /\ Len(out'[i]) = Cardinality(Written(i)')
                        /\ \A m \in Written(i)' : out'[i][Place(m)'] = seed'[i][Place(m)']
    BY <1>3 DEF RowsHeld
<1>4. PICK l \in Nat : l = line + 1
    BY <1>2
<1>5. Len(out') = l /\ out'[l] = <<>> /\ \A i \in 1..line : out'[i] = out[i]
    BY <1>2, <1>4, LineAdded
<1>6. Written(l)' = {} /\ \A i \in 1..line : i # l /\ Written(i)' = Columns
    <2>1. line' = l /\ \A i \in 1..line : i # l
        BY <1>2, <1>4
    <2>. QED
        BY <1>3, <2>1 DEF Written
<1>7. \A i \in 1..line : Written(i) = Columns /\ phase = "writing"
    <2>1. CASE line = 0
        BY <2>1
    <2>2. CASE phase = "writing" /\ todo = <<>>
        BY <2>2, NothingLeft DEF Written
    <2>. QED
        BY <2>1, <2>2
<1>8. \A m : Place(m)' = Place(m)
    BY <1>3 DEF Place, Rank
<1>9. \A i \in 1..Len(out') : i \in 1..line \/ i = l
    BY <1>2, <1>4, <1>5
<1>10. Len(<<>>) = 0 /\ Cardinality({}) = 0
    BY FS_EmptySet
<1>11. \A i \in 1..line :
           /\ Len(out[i]) = Cardinality(Columns)
           /\ \A m \in Columns : out[i][Place(m)] = seed[i][Place(m)]
    BY <1>7 DEF RowsHeld
<1>12. ASSUME NEW i \in 1..line
       PROVE  /\ Len(out'[i]) = Cardinality(Written(i)')
              /\ \A m \in Written(i)' : out'[i][Place(m)'] = seed'[i][Place(m)']
    BY <1>5, <1>6, <1>8, <1>11
<1>13. /\ Len(out'[l]) = Cardinality(Written(l)')
       /\ \A m \in Written(l)' : out'[l][Place(m)'] = seed'[l][Place(m)']
    BY <1>5, <1>6, <1>10
<1>. QED
    BY <1>9, <1>12, <1>13

LEMMA RowsHeldStep ==
    ASSUME Walk, Ordered, SeedHeld, RowsHeld, [Next]_vars
    PROVE  RowsHeld'
<1>1. Types /\ TextTypes /\ IInv /\ Laid /\ Stages
    BY DEF Walk, IInv
<1>2. tab' = tab /\ (LayoutNext \/ UNCHANGED layout)
    BY <1>1, StepLayout
<1>3. CASE phase' \notin {"writing", "written"}
    BY <1>3 DEF RowsHeld
<1>4. CASE WriteHeader
    <2>1. /\ phase = "layout" /\ loaded = "yes" /\ UNCHANGED seed /\ UNCHANGED layout
          /\ ((phase' = "writing" /\ BeginRow) \/ phase' = "dead")
        BY <1>4 DEF WriteHeader
    <2>2. line = 0 /\ Len(out) = 0 /\ Finished(Body)
        BY <1>1, <2>1 DEF Stages
    <2>. QED
        BY <1>3, <2>1, <2>2, RowBegins
<1>5. CASE WriteColumn
    <2>1. phase = "writing" /\ UNCHANGED layout
        BY <1>5 DEF WriteColumn
    <2>2. Finished(Body)
        BY <1>1, <2>1 DEF Stages
    <2>3. Exact' <=> Exact
        BY <1>1, <2>1, <2>2, ExactStays
    <2>4. CASE Exact
        BY <1>5, <2>4, RowWritten
    <2>. QED
        BY <2>3, <2>4 DEF RowsHeld
<1>6. CASE EndRow /\ phase' = "writing"
    <2>1. phase = "writing" /\ todo = <<>> /\ BeginRow /\ UNCHANGED seed /\ UNCHANGED layout
        BY <1>6 DEF EndRow
    <2>2. Len(out) = line /\ Finished(Body)
        BY <1>1, <2>1 DEF Stages
    <2>. QED
        BY <1>6, <2>1, <2>2, RowBegins
<1>7. CASE /\ UNCHANGED <<seed, out>> /\ UNCHANGED layout /\ phase \in {"writing", "written"}
           /\ \A i : Exact => Written(i)' = Written(i)
    <2>1. Finished(Body)
        BY <1>1, <1>7 DEF Stages
    <2>2. Columns' = Columns /\ (Exact' <=> Exact)
        BY <1>1, <1>7, <2>1, ExactStays
    <2>3. \A m : Place(m)' = Place(m)
        BY <2>2 DEF Place, Rank
    <2>. QED
        BY <1>7, <2>2, <2>3 DEF RowsHeld
<1>8. CASE EndRow /\ phase' = "written"
    <2>1. phase = "writing" /\ todo = <<>> /\ UNCHANGED <<seed, out>> /\ UNCHANGED layout
        BY <1>8 DEF EndRow
    <2>2. Columns' = Columns
        BY <1>2, SameBody DEF Columns
    <2>3. \A i : Written(i)' = Written(i)
        BY <1>8, <2>1, <2>2, NothingLeft DEF Written
    <2>. QED
        BY <1>7, <2>1, <2>3
<1>9. CASE Descend /\ phase = "writing"
    <2>1. /\ UNCHANGED <<phase, out, seed, line>> /\ UNCHANGED layout /\ todo # <<>>
          /\ Kind(todo[1][1]) \notin ColumnKinds /\ \E k : todo' = Calls(todo[1][1], k) \o Tail(todo)
        BY <1>9 DEF Descend
    <2>2. Columns' = Columns /\ todo[1][1] \notin Columns
        BY <2>1, ColumnsStay DEF Columns, ColumnKinds
    <2>3. ASSUME Exact
          PROVE  \A i : Written(i)' = Written(i)
        <3>1. ColumnsLeft' = ColumnsLeft
            BY <1>1, <2>1, <2>2, <2>3, ExactIs, LeftOn DEF ColumnsLeft
        <3>. QED
            BY <2>1, <2>2, <3>1 DEF Written
    <2>. QED
        BY <1>7, <1>9, <2>1, <2>3
<1>10. CASE UNCHANGED vars
    <2>1. UNCHANGED <<phase, out, seed, line, todo>> /\ UNCHANGED layout
        BY <1>10 DEF vars, text
    <2>2. Columns' = Columns /\ ColumnsLeft' = ColumnsLeft
        BY <1>2, <2>1, ColumnsStay, SameBody DEF ColumnsLeft, Coming
    <2>3. \A i : Written(i)' = Written(i)
        BY <2>1, <2>2 DEF Written
    <2>. QED
        BY <1>3, <1>7, <2>1, <2>3
<1>11. Layout \/ OpenSeed \/ EndSeed => phase' \notin {"writing", "written"}
    <2>1. Layout => phase' = "layout"
        BY DEF Layout, text
    <2>2. OpenSeed => phase' = "reading"
        BY DEF OpenSeed
    <2>3. EndSeed => phase' = "layout"
        BY DEF EndSeed
    <2>. QED
        BY <2>1, <2>2, <2>3
<1>12. EntryColumn \/ NextLine \/ NoSuchMember \/ LineTooShort \/ DiesOfOverrun => phase' \notin {"writing", "written"}
    <2>1. EntryColumn => phase' = "reading"
        BY DEF EntryColumn
    <2>2. NextLine => phase' = "reading"
        BY DEF NextLine
    <2>3. NoSuchMember \/ LineTooShort \/ DiesOfOverrun => phase' = "dead"
        BY DEF NoSuchMember, LineTooShort, DiesOfOverrun
    <2>. QED
        BY <2>1, <2>2, <2>3
<1>13. Descend => phase = "writing" \/ phase' \notin {"writing", "written"}
    BY DEF Descend
<1>14. EndRow => phase' \in {"dead", "writing", "written"}
    BY DEF EndRow
<1>15. Next \/ UNCHANGED vars
    OBVIOUS
<1>. QED
    BY <1>3, <1>4, <1>5, <1>6, <1>8, <1>9, <1>10, <1>11, <1>12, <1>13, <1>14, <1>15 DEF Next

(* No line is left when the writing ends.                                  *)
AllWritten == phase = "written" => line = entries

LEMMA AllWrittenStep ==
    ASSUME Walk, AllWritten, [Next]_vars
    PROVE  AllWritten'
<1>1. phase = "writing" => line \in 1..entries /\ entries \in Nat
    BY DEF Walk, Stages, TextTypes
<1>2. CASE EndRow
    BY <1>1, <1>2 DEF EndRow, BeginRow, AllWritten
<1>3. CASE Layout \/ OpenSeed \/ EndSeed
    BY <1>3 DEF Layout, OpenSeed, EndSeed, text, AllWritten
<1>4. CASE EntryColumn \/ LineTooShort \/ DiesOfOverrun \/ NextLine \/ Descend \/ NoSuchMember
    BY <1>4 DEF EntryColumn, LineTooShort, DiesOfOverrun, NextLine, Descend, NoSuchMember, AllWritten
<1>5. CASE WriteHeader \/ WriteColumn
    BY <1>5 DEF WriteHeader, WriteColumn, BeginRow, AllWritten
<1>6. CASE UNCHANGED vars
    BY <1>6 DEF vars, text, AllWritten
<1>. QED
    BY <1>2, <1>3, <1>4, <1>5, <1>6 DEF Next

(* When all lines are written they are those of the seed.                  *)
LEMMA AllHeld ==
    ASSUME Walk, SeedHeld, RowsHeld, AllWritten, Exact, phase = "written"
    PROVE  out = seed
<1>1. Types /\ TextTypes /\ Stages
    BY DEF Walk, IInv
<1>2. /\ out \in Seq(Seq(Nat)) /\ seed \in Seq(Seq(Nat))
      /\ Len(out) = Len(seed) /\ loaded = "yes"
    BY <1>1 DEF TextTypes, Stages, AllWritten
<1>3. \A i : Read(i) = Columns /\ Written(i) = Columns
    BY DEF Read, Written
<1>4. ASSUME NEW i \in 1..Len(out)
      PROVE  out[i] = seed[i]
    <2>1. /\ Len(out[i]) = Cardinality(Columns) /\ Len(seed[i]) = Cardinality(Columns)
          /\ \A m \in Columns : out[i][Place(m)] = seed[i][Place(m)]
        BY <1>2, <1>3, <1>4 DEF SeedHeld, RowsHeld
    <2>2. out[i] \in Seq(Nat) /\ seed[i] \in Seq(Nat)
        BY <1>2, <1>4
    <2>3. Columns \in SUBSET Nodes /\ Columns \in SUBSET Nat /\ IsFiniteSet(Columns)
        <3>1. Columns \in SUBSET Nodes
            BY <1>1, BodyParts DEF Columns
        <3>. QED
            BY <1>1, <3>1, ChildrenFinite
    <2>4. Cardinality(Columns) \in Nat
        BY <2>3, FS_CardinalityType
    <2>5. ASSUME NEW k \in 1..Cardinality(Columns)
          PROVE  out[i][k] = seed[i][k]
        <3>1. k - 1 \in 0..(Cardinality(Columns) - 1) /\ k = (k - 1) + 1
            BY <2>4
        <3>2. PICK m \in Columns : Rank(Columns, m) = k - 1
            BY <2>3, <3>1, RankTaken
        <3>. QED
            BY <2>1, <3>1, <3>2 DEF Place
    <2>6. Len(out[i]) = Len(seed[i]) /\ \A k \in 1..Len(out[i]) : out[i][k] = seed[i][k]
        BY <2>1, <2>5
    <2>. QED
        BY <2>2, <2>6, SeqEqual, Zenon
<1>. QED
    BY <1>2, <1>4, SeqEqual

(* A seed of numbers and texts that fills its rows comes out as it went in *)
(* (CExampledata::ReadData and WriteTableData): it is read by a pointer    *)
(* that runs on and written by the offsets of the layout.                  *)
THEOREM SeedComesOut == Spec => []RoundTrip
<1>. DEFINE Inv == Walk /\ Ordered /\ Pointer /\ OnTime /\ SeedHeld /\ RowsHeld /\ AllWritten
<1>1. TextInit => Inv
    <2>1. TextInit => todo = <<>> /\ phase = "layout" /\ loaded = "not yet"
        BY DEF TextInit
    <2>2. TextInit => Ordered
        <3>1. DOMAIN <<>> = {}
            OBVIOUS
        <3>. QED
            BY <2>1, <3>1 DEF Ordered, InOrder
    <2>3. TextInit => Pointer /\ OnTime /\ SeedHeld /\ RowsHeld /\ AllWritten
        BY <2>1 DEF Pointer, OnTime, SeedHeld, RowsHeld, AllWritten
    <2>. QED
        BY <2>2, <2>3, InitWalk
<1>2. Inv /\ [Next]_vars => Inv'
    BY WalkStep, OrderedStep, PointerStep, OnTimeStep, SeedHeldStep, RowsHeldStep, AllWrittenStep
<1>3. Inv => RoundTrip
    BY AllHeld DEF RoundTrip, Exact
<1>. HIDE DEF Inv
<1>. QED
    BY <1>1, <1>2, <1>3, PTL DEF Spec

-----------------------------------------------------------------------------
(* The names of the header.                                                *)

(* All of a finite set is reached by adding its elements to the empty one. *)
LEMMA AllParts ==
    ASSUME NEW S, IsFiniteSet(S), NEW G \in SUBSET (SUBSET S), {} \in G,
           \A T \in G : \A x \in S \ T : T \union {x} \in G
    PROVE  S \in G
<1>. DEFINE bad == {n \in Nat : \E T \in SUBSET S : Cardinality(T) = n /\ T \notin G}
<1>1. \A T \in SUBSET S : IsFiniteSet(T) /\ Cardinality(T) \in Nat
    BY FS_Subset, FS_CardinalityType
<1>. SUFFICES ASSUME bad # {} PROVE FALSE
    BY <1>1
<1>2. PICK m \in bad : m \in Nat /\ (m # 0 => m - 1 \in Nat /\ m - 1 \notin bad)
    <2>1. bad \in SUBSET Nat
        OBVIOUS
    <2>. HIDE DEF bad
    <2>. QED
        BY <2>1, Smallest
<1>3. PICK T \in SUBSET S : Cardinality(T) = m /\ T \notin G
    BY <1>2
<1>4. PICK x \in T : TRUE
    BY <1>3
<1>5. /\ Cardinality(T \ {x}) = Cardinality(T) - 1 /\ Cardinality(T \ {x}) \in Nat
      /\ T \ {x} \in SUBSET S /\ x \in S \ (T \ {x}) /\ T = (T \ {x}) \union {x}
    BY <1>1, FS_RemoveElement
<1>6. m # 0
    BY <1>2, <1>3, <1>5
<1>7. T \ {x} \in G
    BY <1>2, <1>3, <1>5, <1>6
<1>. QED
    BY <1>3, <1>5, <1>7

(* The sum of the values of r over T.                                      *)
SumIn(T, r) == SumOf([e \in T |-> r[e]])

(* The sum over two sets.                                                  *)
LEMMA SumOfTwo ==
    ASSUME NEW T, NEW U, IsFiniteSet(T), IsFiniteSet(U), T \intersect U = {}, NEW r \in [T \union U -> Int]
    PROVE  SumIn(T, r) \in Int /\ SumIn(U, r) \in Int /\ SumIn(T \union U, r) = SumIn(T, r) + SumIn(U, r)
<1>. DEFINE S == T \union U
<1>1. IsFiniteSet(S)
    BY FS_Union
<1>2. T \in SUBSET S /\ U \in SUBSET S /\ S \in SUBSET S /\ r \in [S -> Int] /\ S = T \union U
    OBVIOUS
<1>. HIDE DEF S
<1>3. PICK sum : IsSum(sum, S, r)
    BY <1>1, <1>2, SumsAre
<1>4. /\ sum \in [SUBSET S -> Int] /\ sum[{}] = 0
      /\ \A W \in SUBSET S : \A x \in W : sum[W] = r[x] + sum[W \ {x}]
      /\ SumIn(S, r) = sum[S] /\ SumIn(T, r) = sum[T] /\ SumIn(U, r) = sum[U]
    BY <1>2, <1>3 DEF IsSum, SumIn
<1>. DEFINE G == {W \in SUBSET U : sum[T \union W] = sum[T] + sum[W]}
<1>5. {} \in G
    <2>1. T \union {} = T /\ sum[T] \in Int
        BY <1>2, <1>4
    <2>. QED
        BY <1>4, <2>1
<1>6. ASSUME NEW W \in G, NEW x \in U \ W
      PROVE  W \union {x} \in G
    <2>1. x \in S /\ x \notin T /\ W \in SUBSET S /\ T \union W \in SUBSET S /\ r[x] \in Int
        BY <1>2
    <2>2. /\ T \union (W \union {x}) \in SUBSET S /\ W \union {x} \in SUBSET S
          /\ (T \union (W \union {x})) \ {x} = T \union W
          /\ (W \union {x}) \ {x} = W
        BY <2>1
    <2>a. x \in T \union (W \union {x}) /\ x \in W \union {x}
        OBVIOUS
    <2>b. \A W1 \in SUBSET S : \A y \in W1 : sum[W1] = r[y] + sum[W1 \ {y}]
        BY <1>4
    <2>c. sum[T \union (W \union {x})] = r[x] + sum[(T \union (W \union {x})) \ {x}]
        BY ONLY <2>2, <2>a, <2>b
    <2>d. sum[W \union {x}] = r[x] + sum[(W \union {x}) \ {x}]
        BY ONLY <2>2, <2>a, <2>b
    <2>3. /\ sum[T \union (W \union {x})] = r[x] + sum[T \union W]
          /\ sum[W \union {x}] = r[x] + sum[W]
        BY ONLY <2>2, <2>c, <2>d
    <2>4. sum[T] \in Int /\ sum[W] \in Int /\ sum[T \union W] = sum[T] + sum[W]
        BY <1>2, <1>4, <2>1
    <2>5. sum[T \union (W \union {x})] = sum[T] + sum[W \union {x}]
        BY <2>1, <2>3, <2>4
    <2>. QED
        BY <2>5
<1>7. U \in G
    <2>1. G \in SUBSET (SUBSET U)
        OBVIOUS
    <2>. HIDE DEF G
    <2>. QED
        BY <1>5, <1>6, <2>1, AllParts
<1>8. sum[S] = sum[T] + sum[U] /\ sum[T] \in Int /\ sum[U] \in Int
    BY <1>2, <1>4, <1>7
<1>. QED
    BY <1>2, <1>4, <1>8

(* The sum over a set with other names for its elements.                   *)
LEMMA SumRenamed ==
    ASSUME NEW S, NEW T, IsFiniteSet(S), IsFiniteSet(T), NEW g \in [T -> S], NEW r \in [S -> Int],
           \A t, u \in T : t # u => g[t] # g[u], \A e \in S : \E t \in T : g[t] = e,
           NEW q \in [T -> Int], \A t \in T : q[t] = r[g[t]]
    PROVE  SumIn(T, q) = SumIn(S, r)
<1>. DEFINE Image(W) == {g[t] : t \in W}
<1>1. T \in SUBSET T /\ Image(T) = S
    OBVIOUS
<1>2. \A W \in SUBSET T : Image(W) \in SUBSET S
    OBVIOUS
<1>3. PICK a : IsSum(a, T, q)
    BY <1>1, SumsAre
<1>4. PICK b : IsSum(b, S, r)
    BY SumsAre
<1>5. /\ a[{}] = 0 /\ b[{}] = 0
      /\ \A W \in SUBSET T : \A x \in W : a[W] = q[x] + a[W \ {x}]
      /\ \A W \in SUBSET S : \A x \in W : b[W] = r[x] + b[W \ {x}]
      /\ SumIn(T, q) = a[T] /\ SumIn(S, r) = b[S]
    BY <1>3, <1>4 DEF IsSum, SumIn
<1>. DEFINE G == {W \in SUBSET T : a[W] = b[Image(W)]}
<1>6. {} \in G
    <2>1. Image({}) = {}
        OBVIOUS
    <2>. HIDE DEF Image
    <2>. QED
        BY <1>5, <2>1
<1>7. ASSUME NEW W \in G, NEW x \in T \ W
      PROVE  W \union {x} \in G
    <2>1. /\ Image(W \union {x}) \in SUBSET S /\ g[x] \in Image(W \union {x})
          /\ Image(W \union {x}) \ {g[x]} = Image(W)
        <3>1. \A t \in W : t \in T /\ t # x
            OBVIOUS
        <3>2. \A t \in W : g[t] # g[x]
            BY <3>1
        <3>3. Image(W \union {x}) = Image(W) \union {g[x]} /\ g[x] \notin Image(W)
            BY <3>2
        <3>. QED
            BY <1>2, <3>3
    <2>2. W \union {x} \in SUBSET T /\ x \in W \union {x} /\ (W \union {x}) \ {x} = W /\ a[W] = b[Image(W)]
        OBVIOUS
    <2>. HIDE DEF Image
    <2>a. a[W \union {x}] = q[x] + a[W]
        <3>1. \A V \in SUBSET T : \A y \in V : a[V] = q[y] + a[V \ {y}]
            BY <1>5
        <3>2. a[W \union {x}] = q[x] + a[(W \union {x}) \ {x}]
            BY ONLY <2>2, <3>1
        <3>. QED
            BY ONLY <2>2, <3>2
    <2>b. b[Image(W \union {x})] = r[g[x]] + b[Image(W)]
        <3>1. \A V \in SUBSET S : \A y \in V : b[V] = r[y] + b[V \ {y}]
            BY <1>5
        <3>2. b[Image(W \union {x})] = r[g[x]] + b[Image(W \union {x}) \ {g[x]}]
            BY ONLY <2>1, <3>1
        <3>. QED
            BY ONLY <2>1, <3>2
    <2>3. a[W \union {x}] = q[x] + a[W] /\ b[Image(W \union {x})] = r[g[x]] + b[Image(W)]
        BY <2>a, <2>b
    <2>4. a[W \union {x}] = b[Image(W \union {x})]
        BY <1>1, <2>2, <2>3
    <2>. QED
        BY <2>2, <2>4
<1>8. T \in G
    <2>1. G \in SUBSET (SUBSET T)
        OBVIOUS
    <2>. HIDE DEF G
    <2>. QED
        BY <1>6, <1>7, <2>1, AllParts
<1>. QED
    BY <1>1, <1>5, <1>8

(* The names that an element has when those of the elements behind it are  *)
(* those of f.                                                             *)
NamesWith(f, n) ==
    IF Kind(n) \in ColumnKinds THEN 1 + (IF n \in tab.flags THEN f[NextOf(n)] ELSE 0)
    ELSE IF Kind(n) = "struct" THEN SumOf([m \in Children(n) |-> f[m]])
    ELSE IF Kind(n) = "union" THEN f[ChildSeq(n)[1]]
    ELSE 0

(* A union has a member.                                                   *)
LEMMA FirstMember ==
    ASSUME Types, NEW n \in Nodes, Kind(n) = "union"
    PROVE  ChildSeq(n)[1] \in Children(n)
<1>1. 0 < Cardinality({m \in DOMAIN tab.kind : IsBelow(tab, m, n) /\ tab.depth[m] = tab.depth[n] + 1})
    <2>1. tab \in Templates /\ n \in DOMAIN tab.kind /\ tab.kind[n] = "union"
        BY DEF Types, Nodes, Kind
    <2>. QED
        BY <2>1, TextAssumption DEF TextAssumption
<1>2. 0 < Cardinality(Children(n))
    BY <1>1 DEF Children, Nodes, Below
<1>3. 1 \in DOMAIN ChildSeq(n) /\ ChildSeq(n) \in Seq(Children(n))
    BY <1>2, ChildSeqIs
<1>. QED
    BY <1>3

LEMMA NamesIs ==
    ASSUME Types
    PROVE  \A n \in Nodes : NameCount[n] = NamesWith(NameCount, n)
<1>. DEFINE N == Len(tab.kind)
            Latter(j) == {n \in Nodes : n > N - j}
            to(g, j) == g = [n \in Latter(j) |-> NamesWith(g, n)]
<1>1. \A j \in Nat : \E g : to(g, j)
    <2>. DEFINE bad == {j \in Nat : ~\E g : to(g, j)}
    <2>. SUFFICES ASSUME bad # {} PROVE FALSE
        OBVIOUS
    <2>1. PICK j \in bad : j \in Nat /\ (j # 0 => j - 1 \in Nat /\ j - 1 \notin bad)
        <3>1. bad \in SUBSET Nat
            OBVIOUS
        <3>. HIDE DEF bad
        <3>. QED
            BY <3>1, Smallest
    <2>2. j # 0
        <3>1. Latter(0) = {}
            BY NodeParts
        <3>2. to([n \in {} |-> 0], 0)
            BY <3>1
        <3>3. \E g : to(g, 0)
            BY <3>2
        <3>. HIDE DEF to
        <3>. QED
            BY <2>1, <3>3
    <2>3. j - 1 \in Nat /\ j - 1 \notin bad
        BY <2>1, <2>2
    <2>4. PICK g : to(g, j - 1)
        BY <2>3
    <2>. DEFINE h == [n \in Latter(j) |-> NamesWith(g, n)]
    <2>5. ASSUME NEW n \in Latter(j), NEW m \in Children(n)
          PROVE  m \in Latter(j - 1) /\ m \in Latter(j)
        BY <2>1, NodeParts, BelowDepth DEF Children
    <2>6. ASSUME NEW n \in Latter(j), n \in tab.flags
          PROVE  NextOf(n) \in Latter(j - 1)
        BY <2>1, <2>6, FlagParts, NodeParts
    <2>7. \A n \in Latter(j - 1) : n \in Latter(j)
        BY <2>1, NodeParts
    <2>8. \A n \in Latter(j - 1) : h[n] = g[n]
        BY <2>4, <2>7
    <2>9. ASSUME NEW n \in Latter(j)
          PROVE  NamesWith(g, n) = NamesWith(h, n)
        <3>1. \A m \in Children(n) : g[m] = h[m]
            BY <2>5, <2>8
        <3>2. [m \in Children(n) |-> g[m]] = [m \in Children(n) |-> h[m]]
            BY <3>1
        <3>3. n \in tab.flags => g[NextOf(n)] = h[NextOf(n)]
            BY <2>6, <2>8
        <3>4. Kind(n) = "union" => g[ChildSeq(n)[1]] = h[ChildSeq(n)[1]]
            BY <3>1, FirstMember
        <3>. QED
            BY <3>2, <3>3, <3>4 DEF NamesWith
    <2>10. h = [n \in Latter(j) |-> NamesWith(h, n)]
        BY <2>9
    <2>11. \E f : to(f, j)
        BY <2>10
    <2>. HIDE DEF to
    <2>. QED
        BY <2>1, <2>11
<1>2. N \in Nat /\ Latter(N) = Nodes
    BY NodeParts
<1>3. PICK g : to(g, N)
    BY <1>1, <1>2
<1>4. g = [n \in Nodes |-> NamesWith(g, n)]
    BY <1>2, <1>3
<1>5. NameCount = CHOOSE f : f = [n \in Nodes |-> NamesWith(f, n)]
    BY DEF NameCount, NamesWith
<1>6. NameCount = [n \in Nodes |-> NamesWith(NameCount, n)]
    BY <1>4, <1>5
<1>. QED
    BY <1>6

LEMMA NamesKept ==
    ASSUME tab' = tab
    PROVE  NameCount' = NameCount /\ \A n : Children(n)' = Children(n)
BY DEF NameCount, Nodes, Kind, Children, Below, ColumnKinds, NextOf, ChildSeq, Min

(* The sum of the names of some elements is a number, when theirs are.     *)
LEMMA NamesOfSome ==
    ASSUME Types, NEW T \in SUBSET Nodes, \A m \in T : NameCount[m] \in Int
    PROVE  SumOf([m \in T |-> NameCount[m]]) \in Int
<1>. DEFINE r == [m \in T |-> NameCount[m]]
<1>1. IsFiniteSet(T) /\ r \in [T -> Int] /\ T \in SUBSET T
    BY ChildrenFinite
<1>2. [m \in T |-> r[m]] = r
    OBVIOUS
<1>. HIDE DEF r
<1>3. PICK sum : IsSum(sum, T, r)
    BY <1>1, SumsAre
<1>4. SumOf([m \in T |-> r[m]]) \in Int
    BY <1>1, <1>3 DEF IsSum
<1>5. SumOf(r) \in Int
    BY <1>2, <1>4
<1>. QED
    BY <1>5 DEF r

LEMMA NamesAreNumbers ==
    ASSUME Types
    PROVE  \A n \in Nodes : NameCount[n] \in Int
<1>. DEFINE N == Len(tab.kind)
            bad == {j \in Nat : \E n \in Nodes : n > N - j /\ NameCount[n] \notin Int}
<1>1. N \in Nat /\ Nodes \subseteq Nat /\ \A n \in Nodes : n > N - N
    BY NodeParts
<1>. SUFFICES ASSUME bad # {} PROVE FALSE
    BY <1>1
<1>2. PICK j \in bad : j \in Nat /\ (j # 0 => j - 1 \in Nat /\ j - 1 \notin bad)
    <2>1. bad \in SUBSET Nat
        OBVIOUS
    <2>. HIDE DEF bad
    <2>. QED
        BY <2>1, Smallest
<1>3. PICK n \in Nodes : n > N - j /\ NameCount[n] \notin Int
    BY <1>2
<1>4. j # 0
    BY <1>1, <1>2, <1>3, NodeParts
<1>5. \A m \in Nodes : m > n => NameCount[m] \in Int
    <2>1. \A m \in Nodes : m > n => m > N - (j - 1)
        BY <1>1, <1>2, <1>3
    <2>. QED
        BY <1>2, <1>4, <2>1
<1>6. \A m \in Children(n) : m \in Nodes /\ NameCount[m] \in Int
    BY <1>1, <1>5, BelowDepth DEF Children
<1>7. SumOf([m \in Children(n) |-> NameCount[m]]) \in Int
    BY <1>6, NamesOfSome DEF Children
<1>8. n \in tab.flags => NameCount[NextOf(n)] \in Int
    BY <1>1, <1>5, FlagParts
<1>9. Kind(n) = "union" => NameCount[ChildSeq(n)[1]] \in Int
    BY <1>6, FirstMember
<1>10. NamesWith(NameCount, n) \in Int
    BY <1>7, <1>8, <1>9 DEF NamesWith
<1>. QED
    BY <1>3, <1>10, NamesIs

(* The names of the calls to come.                                         *)
Owed(s) == SumOf([i \in DOMAIN s |-> NameCount[s[i][1]]])

LEMMA OwedNone == Owed(<<>>) = 0
<1>1. DOMAIN <<>> = {}
    OBVIOUS
<1>2. [i \in {} |-> NameCount[<<>>[i][1]]] = [e \in {} |-> 0]
    OBVIOUS
<1>. QED
    BY <1>1, <1>2, SumOfNone DEF Owed

LEMMA OwedOne ==
    ASSUME Types, NEW c \in BodyNodes \X Nat
    PROVE  Owed(<<c>>) = NameCount[c[1]]
<1>. DEFINE r == [i \in {} \union {1} |-> NameCount[c[1]]]
<1>1. c[1] \in Nodes /\ NameCount[c[1]] \in Int
    BY BodyParts, NamesAreNumbers
<1>2. r \in [{} \union {1} -> Int] /\ IsFiniteSet({}) /\ 1 \notin {} /\ r[1] = NameCount[c[1]]
    BY <1>1, FS_EmptySet
<1>3. [e \in {} |-> r[e]] = [e \in {} |-> 0]
    OBVIOUS
<1>4. [e \in {} \union {1} |-> r[e]] = [i \in DOMAIN <<c>> |-> NameCount[<<c>>[i][1]]]
    <2>1. DOMAIN <<c>> = {} \union {1} /\ <<c>>[1] = c
        OBVIOUS
    <2>. QED
        BY <2>1
<1>. HIDE DEF r
<1>5. SumOf([e \in {} \union {1} |-> r[e]]) = SumOf([e \in {} |-> r[e]]) + r[1]
    BY <1>2, SumAdds
<1>6. SumOf([e \in {} |-> r[e]]) = 0
    BY <1>3, SumOfNone
<1>. QED
    BY <1>1, <1>2, <1>4, <1>5, <1>6 DEF Owed

LEMMA OwedAdds ==
    ASSUME Types, NEW s \in Seq(BodyNodes \X Nat), NEW t \in Seq(BodyNodes \X Nat)
    PROVE  Owed(s) \in Int /\ Owed(t) \in Int /\ Owed(s \o t) = Owed(s) + Owed(t)
<1>. DEFINE k == Len(s)
            l == Len(t)
            T == 1..k
            U == (k + 1)..(k + l)
            st == s \o t
            r == [i \in 1..(k + l) |-> NameCount[st[i][1]]]
<1>1. /\ st \in Seq(BodyNodes \X Nat) /\ k \in Nat /\ l \in Nat /\ DOMAIN st = 1..(k + l)
      /\ (\A i \in 1..k : st[i] = s[i]) /\ (\A i \in 1..l : st[k + i] = t[i])
      /\ DOMAIN s = 1..k /\ DOMAIN t = 1..l
    BY ConcatIs
<1>. HIDE DEF st
<1>2. \A i \in 1..(k + l) : NameCount[st[i][1]] \in Int
    <2>1. \A i \in 1..(k + l) : st[i] \in BodyNodes \X Nat
        BY <1>1
    <2>2. \A i \in 1..(k + l) : st[i][1] \in Nodes
        BY <2>1, BodyParts
    <2>. QED
        BY <2>2, NamesAreNumbers
<1>. HIDE DEF k, l
<1>3. /\ T \union U = 1..(k + l) /\ T \intersect U = {} /\ IsFiniteSet(T) /\ IsFiniteSet(U)
      /\ (\A i \in 1..l : k + i \in U) /\ \A e \in U : e - k \in 1..l /\ e = k + (e - k)
    <2>1. IsFiniteSet(T) /\ IsFiniteSet(U)
        BY <1>1, FS_Interval
    <2>. QED
        BY <1>1, <2>1
<1>4. r \in [T \union U -> Int] /\ \A i \in T \union U : r[i] = NameCount[st[i][1]]
    BY <1>2, <1>3
<1>. HIDE DEF r, T, U
<1>5. SumIn(T, r) \in Int /\ SumIn(U, r) \in Int /\ SumIn(T \union U, r) = SumIn(T, r) + SumIn(U, r)
    BY <1>3, <1>4, SumOfTwo
<1>6. SumIn(T \union U, r) = Owed(st)
    <2>1. [e \in T \union U |-> r[e]] = [i \in DOMAIN st |-> NameCount[st[i][1]]]
        BY <1>1, <1>3, <1>4
    <2>. QED
        BY <2>1 DEF Owed, SumIn
<1>7. SumIn(T, r) = Owed(s)
    <2>1. [e \in T |-> r[e]] = [i \in DOMAIN s |-> NameCount[s[i][1]]]
        BY <1>1, <1>4 DEF T
    <2>. QED
        BY <2>1 DEF Owed, SumIn
<1>8. SumIn(U, r) = Owed(t)
    <2>. DEFINE L == 1..l
                g == [i \in L |-> k + i]
                p == [e \in U |-> r[e]]
                q == [i \in L |-> NameCount[t[i][1]]]
    <2>1. IsFiniteSet(L)
        BY <1>1, FS_Interval
    <2>2. /\ g \in [L -> U] /\ (\A i \in L : g[i] = k + i) /\ p \in [U -> Int]
          /\ \A e \in U : p[e] = r[e]
        BY <1>3, <1>4
    <2>3. (\A i, j \in L : i # j => g[i] # g[j]) /\ \A e \in U : \E i \in L : g[i] = e
        <3>1. \A i, j \in L : i # j => g[i] # g[j]
            BY <1>1, <2>2
        <3>2. \A e \in U : e - k \in L /\ g[e - k] = e
            BY <1>3, <2>2
        <3>. QED
            BY <3>1, <3>2
    <2>4. \A i \in L : p[g[i]] = NameCount[t[i][1]] /\ p[g[i]] \in Int
        BY <1>1, <1>3, <1>4, <2>2
    <2>5. q \in [L -> Int] /\ \A i \in L : q[i] = p[g[i]]
        BY <2>4
    <2>6. [i \in L |-> q[i]] = [i \in DOMAIN t |-> NameCount[t[i][1]]]
        BY <1>1
    <2>7. [e \in U |-> p[e]] = [e \in U |-> r[e]]
        BY <2>2
    <2>. HIDE DEF L, g, p, q
    <2>8. SumIn(L, q) = SumIn(U, p)
        <3>1. \A i, j \in L : i # j => g[i] # g[j]
            BY <2>3
        <3>2. /\ IsFiniteSet(U) /\ IsFiniteSet(L) /\ g \in [L -> U] /\ p \in [U -> Int] /\ q \in [L -> Int]
              /\ (\A e \in U : \E i \in L : g[i] = e) /\ \A i \in L : q[i] = p[g[i]]
            BY <1>3, <2>1, <2>2, <2>3, <2>5
        <3>. QED
            BY ONLY <3>1, <3>2, SumRenamed, SMTT(60)
    <2>. QED
        BY <2>6, <2>7, <2>8 DEF Owed, SumIn
<1>. QED
    BY <1>5, <1>6, <1>7, <1>8 DEF st

LEMMA OwedBelow ==
    ASSUME Types, NEW n \in Nodes, n = Body \/ n \in BodyNodes
    PROVE  Owed(CallsBelow(n)) = SumOf([m \in Children(n) |-> NameCount[m]])
<1>. DEFINE S == Children(n)
            T == 1..Cardinality(S)
            g == ChildSeq(n)
            r == [m \in S |-> NameCount[m]]
<1>1. /\ g \in Seq(S) /\ DOMAIN g = T /\ Cardinality(S) \in Nat
      /\ (\A i, j \in T : i < j => g[i] < g[j])
      /\ \A m \in S : \E i \in T : g[i] = m
    BY ChildSeqIs
<1>2. IsFiniteSet(S) /\ S \in SUBSET Nat /\ S \in SUBSET Nodes
    BY ChildrenFinite DEF Children
<1>3. IsFiniteSet(T)
    BY <1>1, FS_Interval
<1>4. DOMAIN CallsBelow(n) = T /\ \A i \in T : CallsBelow(n)[i][1] = g[i]
    BY <1>1, CallsBelowIs
<1>5. r \in [S -> Int] /\ \A m \in S : r[m] = NameCount[m]
    BY <1>2, NamesAreNumbers
<1>6. [m \in S |-> r[m]] = r
    OBVIOUS
<1>. HIDE DEF S, r
<1>7. \A i \in T : g[i] \in S
    BY <1>1
<1>. HIDE DEF g
<1>8. g \in [T -> S]
    <2>1. g = [i \in T |-> g[i]]
        BY <1>1
    <2>. QED
        BY <1>7, <2>1
<1>9. \A i, j \in T : i # j => g[i] # g[j]
    <2>1. \A i, j \in T : i # j => i < j \/ j < i
        BY <1>1
    <2>2. \A i \in T : g[i] \in Nat
        BY <1>2, <1>7
    <2>. QED
        BY <1>1, <2>1, <2>2
<1>. DEFINE q == [i \in T |-> r[g[i]]]
<1>10. q \in [T -> Int] /\ \A i \in T : q[i] = r[g[i]]
    BY <1>5, <1>7
<1>11. [i \in T |-> q[i]] = [i \in DOMAIN CallsBelow(n) |-> NameCount[CallsBelow(n)[i][1]]]
    BY <1>4, <1>5, <1>7
<1>. HIDE DEF T, q
<1>12. SumIn(T, q) = SumIn(S, r)
    <2>1. /\ IsFiniteSet(S) /\ IsFiniteSet(T) /\ g \in [T -> S] /\ r \in [S -> Int] /\ q \in [T -> Int]
          /\ (\A e \in S : \E i \in T : g[i] = e) /\ \A i \in T : q[i] = r[g[i]]
        BY <1>1, <1>2, <1>3, <1>5, <1>8, <1>10
    <2>. QED
        BY ONLY <1>9, <2>1, SumRenamed
<1>. QED
    BY <1>6, <1>11, <1>12 DEF Owed, SumIn, r, S

(* The next call and the rest.                                             *)
LEMMA OwedNext ==
    ASSUME Types, TextTypes, todo # <<>>
    PROVE  /\ Owed(todo) = NameCount[todo[1][1]] + Owed(Tail(todo))
           /\ NameCount[todo[1][1]] \in Int /\ Owed(Tail(todo)) \in Int
<1>1. todo \in Seq(BodyNodes \X Nat) /\ todo[1] \in BodyNodes \X Nat /\ Tail(todo) \in Seq(BodyNodes \X Nat)
    BY HeadAndTail DEF TextTypes
<1>2. <<todo[1]>> \in Seq(BodyNodes \X Nat)
    BY <1>1
<1>3. todo = <<todo[1]>> \o Tail(todo)
    BY <1>1
<1>4. /\ Owed(<<todo[1]>>) \in Int /\ Owed(Tail(todo)) \in Int
      /\ Owed(<<todo[1]>> \o Tail(todo)) = Owed(<<todo[1]>>) + Owed(Tail(todo))
    BY <1>1, <1>2, OwedAdds
<1>5. Owed(<<todo[1]>>) = NameCount[todo[1][1]]
    BY <1>1, OwedOne
<1>. QED
    BY <1>3, <1>4, <1>5

(* What HeaderFits asks of the template.                                   *)
Plain ==
    /\ \A n \in Nodes : InBody(n) => Kind(n) \in Stored \union Nested
    /\ \A u \in Nodes : Kind(u) = "union" => \A m \in Children(u) :
          Kind(m) \in Stored /\ m \notin tab.flags

HeaderNames == SumOf([m \in Children(Body) |-> NameCount[m]])

(* The values of the line and the names of what is to come are the names   *)
(* of the header.                                                          *)
Balanced ==
    Plain /\ medium = "file" /\ phase \in {"writing", "written"} =>
        /\ names = HeaderNames
        /\ \A i \in 1..line : i # line => Len(out[i]) = names
        /\ Len(out[line]) + Owed(todo) = names
        /\ phase = "written" => todo = <<>>

LEMMA NamesStay ==
    ASSUME Types, tab' = tab
    PROVE  (Plain' <=> Plain) /\ HeaderNames' = HeaderNames /\ \A t : todo' = t => Owed(todo)' = Owed(t)
<1>1. /\ Nodes' = Nodes /\ Body' = Body /\ (\A n : Kind(n)' = Kind(n)) /\ (\A m, n : Below(m, n)' <=> Below(m, n))
      /\ NameCount' = NameCount /\ \A n : Children(n)' = Children(n)
    BY SameBody, NamesKept
<1>2. Plain' <=> Plain
    BY <1>1 DEF Plain, InBody
<1>3. HeaderNames' = HeaderNames
    BY <1>1 DEF HeaderNames
<1>4. \A t : todo' = t => Owed(todo)' = Owed(t)
    BY <1>1 DEF Owed
<1>. QED
    BY <1>2, <1>3, <1>4

(* An element that is not a column has the names of what it calls.         *)
LEMMA OwedCalls ==
    ASSUME Types, Plain, NEW n \in BodyNodes, Kind(n) \notin ColumnKinds, NEW k \in Nat, HasMember(n, k)
    PROVE  Owed(Calls(n, k)) = NameCount[n]
<1>1. n \in Nodes /\ Kind(n) \in Stored \union Nested /\ Stored \subseteq DOMAIN Length
    BY BodyParts, TextConstants DEF Plain, BodyNodes
<1>2. NameCount[n] = NamesWith(NameCount, n)
    BY <1>1, NamesIs
<1>3. CASE Kind(n) = "struct"
    <2>1. Calls(n, k) = CallsBelow(n)
        BY <1>3 DEF Calls
    <2>2. NameCount[n] = SumOf([m \in Children(n) |-> NameCount[m]])
        BY <1>2, <1>3 DEF NamesWith
    <2>. QED
        BY <1>1, <2>1, <2>2, OwedBelow
<1>4. CASE Kind(n) = "union"
    <2>1. ASSUME NEW m \in Children(n)
          PROVE  NameCount[m] = 1 /\ m \in BodyNodes
        <3>1. m \in BodyNodes /\ m \in Nodes /\ Kind(m) \in ColumnKinds /\ m \notin tab.flags
            BY <1>1, <1>4, BodyParts DEF Plain, ColumnKinds
        <3>2. NamesWith(NameCount, m) = 1
            BY <3>1 DEF NamesWith
        <3>. QED
            BY <3>1, <3>2, NamesIs
    <2>2. NameCount[n] = NameCount[ChildSeq(n)[1]]
        BY <1>2, <1>4 DEF NamesWith
    <2>3. NameCount[n] = 1
        BY <1>1, <1>4, <2>1, <2>2, FirstMember
    <2>. DEFINE c == ChildSeq(n)[k + 1]
    <2>4. c \in Children(n)
        <3>1. k + 1 \in 1..Cardinality(Children(n))
            BY <1>1, <1>4, ChildSeqIs DEF HasMember
        <3>. QED
            BY <1>1, <3>1, ChildSeqIs
    <2>5. Calls(n, k) = <<<<c, 0>>>>
        BY <1>4 DEF Calls
    <2>. HIDE DEF c
    <2>6. <<c, 0>> \in BodyNodes \X Nat /\ <<c, 0>>[1] = c
        BY <2>1, <2>4
    <2>7. Owed(<<<<c, 0>>>>) = NameCount[<<c, 0>>[1]]
        BY <2>6, OwedOne
    <2>. QED
        BY <2>1, <2>3, <2>4, <2>5, <2>6, <2>7
<1>. QED
    BY <1>1, <1>3, <1>4 DEF ColumnKinds, Nested

(* A column has its own name and those of what it calls.                   *)
LEMMA OwedBehind ==
    ASSUME Types, NEW n \in BodyNodes, Kind(n) \in ColumnKinds, NEW v \in Nat
    PROVE  NameCount[n] = 1 + Owed(CallsBehind(n, v))
<1>1. n \in Nodes
    BY BodyParts
<1>2. NameCount[n] = 1 + (IF n \in tab.flags THEN NameCount[NextOf(n)] ELSE 0)
    BY <1>1, NamesIs DEF NamesWith
<1>3. CASE n \in tab.flags
    <2>. DEFINE c == NextOf(n)
    <2>1. c \in BodyNodes
        BY <1>3, FlagParts
    <2>2. CallsBehind(n, v) = <<<<c, v>>>> /\ NameCount[n] = 1 + NameCount[c]
        BY <1>2, <1>3 DEF CallsBehind
    <2>. HIDE DEF c
    <2>3. <<c, v>> \in BodyNodes \X Nat /\ <<c, v>>[1] = c
        BY <2>1
    <2>4. Owed(<<<<c, v>>>>) = NameCount[<<c, v>>[1]]
        BY <2>3, OwedOne
    <2>. QED
        BY <2>2, <2>3, <2>4
<1>4. CASE n \notin tab.flags
    BY <1>2, <1>4, OwedNone DEF CallsBehind
<1>. QED
    BY <1>3, <1>4

(* The next element is visited: what is written of it and what it calls    *)
(* are its names.                                                          *)
LEMMA OwedAfter ==
    ASSUME Types, TextTypes, todo # <<>>, NEW calls \in Seq(BodyNodes \X Nat), NEW written \in Nat,
           NameCount[todo[1][1]] = written + Owed(calls)
    PROVE  Owed(todo) = written + Owed(calls \o Tail(todo)) /\ Owed(calls \o Tail(todo)) \in Int
<1>1. Tail(todo) \in Seq(BodyNodes \X Nat)
    BY TodoHead
<1>2. /\ Owed(calls) \in Int /\ Owed(Tail(todo)) \in Int
      /\ Owed(calls \o Tail(todo)) = Owed(calls) + Owed(Tail(todo))
    BY <1>1, OwedAdds
<1>3. Owed(todo) = NameCount[todo[1][1]] + Owed(Tail(todo))
    BY OwedNext
<1>. QED
    BY <1>2, <1>3

LEMMA DescendBalanced ==
    ASSUME Walk, Balanced, Descend
    PROVE  Balanced'
<1>1. Types /\ TextTypes
    BY DEF Walk, IInv
<1>2. /\ phase' = phase /\ medium' = medium /\ names' = names /\ line' = line /\ out' = out /\ tab' = tab
      /\ todo # <<>> /\ Kind(todo[1][1]) \notin ColumnKinds /\ HasMember(todo[1][1], todo[1][2])
      /\ todo' = Calls(todo[1][1], todo[1][2]) \o Tail(todo)
    BY LayoutStays DEF Descend
<1>3. todo[1][1] \in BodyNodes /\ todo[1][2] \in Nat
    BY <1>1, <1>2, TodoHead
<1>. DEFINE calls == Calls(todo[1][1], todo[1][2])
            t == calls \o Tail(todo)
<1>4. calls \in Seq(BodyNodes \X Nat) /\ Owed(calls) \in Int
    <2>1. calls \in Seq(BodyNodes \X Nat)
        BY <1>1, <1>2, <1>3, CallsIs
    <2>. HIDE DEF calls
    <2>. QED
        BY <1>1, <2>1, OwedAdds
<1>5. Plain => Owed(calls) = NameCount[todo[1][1]]
    BY <1>1, <1>2, <1>3, OwedCalls
<1>6. todo' = t
    BY <1>2
<1>. HIDE DEF calls
<1>7. Plain => Owed(todo) = 0 + Owed(t) /\ Owed(t) \in Int
    <2>1. Plain => NameCount[todo[1][1]] = 0 + Owed(calls)
        BY <1>4, <1>5
    <2>. QED
        BY <1>1, <1>2, <1>4, <2>1, OwedAfter
<1>. HIDE DEF t
<1>8. (Plain' <=> Plain) /\ HeaderNames' = HeaderNames /\ Owed(todo)' = Owed(t)
    BY <1>1, <1>2, <1>6, NamesStay
<1>9. Plain => Owed(todo)' = Owed(todo)
    BY <1>7, <1>8
<1>. QED
    BY <1>2, <1>8, <1>9 DEF Balanced

LEMMA WriteBalanced ==
    ASSUME Walk, Balanced, WriteColumn
    PROVE  Balanced'
<1>1. Types /\ TextTypes /\ Laid /\ Stages
    BY DEF Walk, IInv
<1>2. PICK n \in Nodes :
          /\ phase = "writing" /\ AtColumn(n)
          /\ out' = IF Kind(n) \in Stored THEN [out EXCEPT ![line] = Append(@, Word(n))] ELSE out
          /\ todo' = CallsBehind(n, Word(n)) \o Tail(todo)
          /\ UNCHANGED <<phase, line, medium, names>> /\ UNCHANGED layout
    BY DEF WriteColumn
<1>. SUFFICES ASSUME Plain
              PROVE  Balanced'
    BY <1>1, <1>2, LayoutStays, NamesStay DEF Balanced
<1>3. n = todo[1][1] /\ todo # <<>> /\ Kind(n) \in ColumnKinds /\ n \in BodyNodes
    BY <1>1, <1>2, TodoHead DEF AtColumn
<1>4. Kind(n) \in Stored
    <2>1. Kind(n) \in Stored \union Nested
        BY <1>3 DEF Plain, BodyNodes
    <2>2. \A c \in ColumnKinds : c \notin Nested
        BY LayoutAssumption DEF ColumnKinds, Nested, Ignored
    <2>. QED
        BY <1>3, <2>1, <2>2
<1>5. /\ line \in 1..entries /\ Len(out) = line /\ line \in Nat /\ line >= 1 /\ out \in Seq(Seq(Nat))
      /\ Finished(Body)
    <2>1. line \in 1..entries /\ Len(out) = line /\ Finished(Body)
        BY <1>1, <1>2 DEF Stages
    <2>2. line \in Nat /\ entries \in Nat /\ out \in Seq(Seq(Nat))
        BY <1>1 DEF TextTypes
    <2>. QED
        BY <2>1, <2>2
<1>. DEFINE v == Word(n)
<1>6. v \in Nat
    BY <1>1, <1>2, <1>5, WordIs
<1>7. out' = [out EXCEPT ![line] = Append(@, v)] /\ todo' = CallsBehind(n, v) \o Tail(todo)
    BY <1>2, <1>4
<1>. HIDE DEF v
<1>8. line \in DOMAIN out /\ DOMAIN out = 1..line
    BY <1>5
<1>9. /\ \A i \in 1..line : i # line => out'[i] = out[i]
      /\ Len(out'[line]) = Len(out[line]) + 1 /\ Len(out[line]) \in Nat
    BY <1>5, <1>6, <1>7, <1>8, LineGrows
<1>. DEFINE calls == CallsBehind(n, v)
            t == calls \o Tail(todo)
<1>10. calls \in Seq(BodyNodes \X Nat) /\ NameCount[n] = 1 + Owed(calls)
    BY <1>1, <1>3, <1>6, CallsBehindIs, OwedBehind
<1>11. todo' = t
    BY <1>7
<1>. HIDE DEF calls
<1>12. Owed(todo) = 1 + Owed(t) /\ Owed(t) \in Int
    BY <1>1, <1>3, <1>10, OwedAfter
<1>. HIDE DEF t
<1>13. (Plain' <=> Plain) /\ HeaderNames' = HeaderNames /\ Owed(todo)' = Owed(t)
    BY <1>1, <1>2, <1>11, LayoutStays, NamesStay
<1>14. Len(out'[line]) + Owed(t) = Len(out[line]) + Owed(todo)
    BY <1>9, <1>12
<1>15. /\ phase' = "writing" /\ phase = "writing" /\ line' = line /\ medium' = medium /\ names' = names
    BY <1>2
<1>. QED
    BY <1>9, <1>13, <1>14, <1>15 DEF Balanced

(* A line is begun: all of its names are owed.                             *)
LEMMA BeginBalanced ==
    ASSUME Types, TextTypes, BeginRow, tab' = tab, Len(out) = line, phase' = "writing",
           Plain /\ medium' = "file" =>
               names' = HeaderNames /\ \A i \in 1..line : Len(out[i]) = names'
    PROVE  Balanced'
<1>1. /\ line' = line + 1 /\ todo' = CallsBelow(Body) /\ out' = Append(out, <<>>)
      /\ line \in Nat /\ out \in Seq(Seq(Nat))
    BY DEF BeginRow, TextTypes
<1>2. PICK l \in Nat : l = line + 1
    BY <1>1
<1>3. Len(out') = l /\ out'[l] = <<>> /\ \A i \in 1..line : out'[i] = out[i]
    BY <1>1, <1>2, LineAdded
<1>4. (Plain' <=> Plain) /\ HeaderNames' = HeaderNames /\ Owed(todo)' = Owed(CallsBelow(Body))
    BY <1>1, NamesStay
<1>5. Owed(CallsBelow(Body)) = HeaderNames
    BY TableAndBody, OwedBelow DEF HeaderNames
<1>6. HeaderNames \in Int
    BY NamesOfSome, NamesAreNumbers DEF HeaderNames, Children
<1>7. Len(<<>>) + HeaderNames = HeaderNames
    BY <1>6
<1>8. (\A i \in 1..l : i # l => i \in 1..line) /\ line' = l
    BY <1>1, <1>2
<1>. QED
    BY <1>3, <1>4, <1>5, <1>7, <1>8 DEF Balanced

LEMMA BalancedStep ==
    ASSUME Walk, Balanced, [Next]_vars
    PROVE  Balanced'
<1>1. Types /\ TextTypes /\ IInv /\ Stages
    BY DEF Walk, IInv
<1>2. tab' = tab
    BY <1>1, StepLayout
<1>3. CASE phase' \notin {"writing", "written"}
    BY <1>3 DEF Balanced
<1>4. CASE WriteHeader /\ phase' = "writing"
    <2>1. /\ phase = "layout" /\ BeginRow
          /\ medium' = "file" => names' = HeaderNames
        BY <1>4 DEF WriteHeader, HeaderNames
    <2>2. line = 0 /\ out = <<>>
        BY <1>1, <2>1 DEF Stages
    <2>3. Len(out) = line /\ \A i \in 1..line : FALSE
        BY <2>2
    <2>. QED
        BY <1>1, <1>2, <1>4, <2>1, <2>3, BeginBalanced
<1>5. CASE EndRow /\ phase' = "writing"
    <2>1. /\ phase = "writing" /\ todo = <<>> /\ BeginRow /\ medium' = medium /\ names' = names
        BY <1>5 DEF EndRow
    <2>2. Len(out) = line /\ line \in 1..entries /\ out \in Seq(Seq(Nat))
        BY <1>1, <2>1 DEF Stages, TextTypes
    <2>3. Plain /\ medium = "file" => names = HeaderNames /\ \A i \in 1..line : Len(out[i]) = names
        <3>1. Len(out[line]) \in Nat
            BY <2>2
        <3>2. Len(out[line]) + Owed(todo) = Len(out[line])
            BY <2>1, <3>1, OwedNone
        <3>. QED
            BY <2>1, <3>2 DEF Balanced
    <2>. QED
        BY <1>1, <1>2, <1>5, <2>1, <2>2, <2>3, BeginBalanced
<1>6. CASE /\ UNCHANGED <<todo, out, line, medium, names>> /\ phase \in {"writing", "written"}
           /\ phase' = "written" => todo = <<>> \/ phase = "written"
    <2>1. (Plain' <=> Plain) /\ HeaderNames' = HeaderNames /\ Owed(todo)' = Owed(todo)
        BY <1>1, <1>2, <1>6, NamesStay
    <2>. QED
        BY <1>6, <2>1 DEF Balanced
<1>7. CASE EndRow /\ phase' = "written"
    <2>1. UNCHANGED <<todo, out, line, medium, names>> /\ phase = "writing" /\ todo = <<>>
        BY <1>7 DEF EndRow
    <2>. QED
        BY <1>6, <2>1
<1>8. CASE UNCHANGED vars
    <2>1. UNCHANGED <<todo, out, line, medium, names, phase>>
        BY <1>8 DEF vars, text
    <2>. QED
        BY <1>3, <1>6, <2>1
<1>9. CASE Descend \/ WriteColumn
    BY <1>9, DescendBalanced, WriteBalanced
<1>10. Layout \/ OpenSeed \/ EndSeed => phase' \in {"layout", "reading"}
    BY DEF Layout, OpenSeed, EndSeed, text
<1>11. EntryColumn \/ NextLine \/ NoSuchMember \/ LineTooShort \/ DiesOfOverrun => phase' \in {"reading", "dead"}
    BY DEF EntryColumn, NextLine, NoSuchMember, LineTooShort, DiesOfOverrun
<1>12. (EndRow => phase' \in {"dead", "writing", "written"}) /\ (WriteHeader => phase' \in {"dead", "writing"})
    BY DEF EndRow, WriteHeader
<1>. QED
    BY <1>3, <1>4, <1>5, <1>7, <1>8, <1>9, <1>10, <1>11, <1>12 DEF Next

(* Every line of a file has as many values as its header has names         *)
(* (CExampledata::WriteColumnName and WriteColumn), also when flags choose *)
(* between the members of unions.                                          *)
THEOREM LinesFitHeader == Spec => []HeaderFits
<1>1. TextInit => Walk /\ Balanced
    <2>1. TextInit => phase = "layout"
        BY DEF TextInit
    <2>. QED
        BY <2>1, InitWalk DEF Balanced
<1>2. Walk /\ Balanced /\ [Next]_vars => (Walk /\ Balanced)'
    BY WalkStep, BalancedStep
<1>3. Walk /\ Balanced => HeaderFits
    <2>. SUFFICES ASSUME Walk, Balanced, phase = "written", medium = "file", Plain, NEW i \in DOMAIN out
                  PROVE  Len(out[i]) = names
        BY DEF HeaderFits, Plain
    <2>1. Len(out) = line /\ line \in 1..entries /\ out \in Seq(Seq(Nat))
        BY DEF Walk, Stages, TextTypes
    <2>2. todo = <<>> /\ Len(out[line]) + Owed(todo) = names /\ \A j \in 1..line : j # line => Len(out[j]) = names
        BY DEF Balanced
    <2>3. Len(out[line]) \in Nat
        BY <2>1
    <2>4. Len(out[line]) = names
        BY <2>2, <2>3, OwedNone
    <2>5. i \in 1..line
        BY <2>1
    <2>. QED
        BY <2>2, <2>4, <2>5
<1>. QED
    BY <1>1, <1>2, <1>3, PTL DEF Spec
=============================================================================
