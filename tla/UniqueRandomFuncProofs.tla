----------------------- MODULE UniqueRandomFuncProofs -----------------------
(***************************************************************************)
(* Proofs about UniqueRandomFunc, for every set of columns and number of   *)
(* files: the state has its types, no row gets a number that is not one of *)
(* the column's when the batch comes out even, the pools keep no more than *)
(* each file leaves, the numbers of a file are unique at 100 percent, and  *)
(* whole batches have the share of different numbers they are to have.     *)
(*                                                                         *)
(* The first reason is a count.  A batch puts as many numbers into the     *)
(* pools as it has rows, and each of its rows takes one: while it lasts,   *)
(* the pools have one for each row that is left, whatever earlier files    *)
(* left there.  The others say of each number of the batch whether it is   *)
(* in a pool, on a row, or on one row and in the other pool.               *)
(***************************************************************************)
EXTENDS UniqueRandomFunc, SequenceTheorems, FiniteSetTheorems, TLAPS

Types ==
    /\ col \in Column
    /\ row \in 0..col.rows /\ file \in Nat /\ dead \in BOOLEAN
    /\ last \in Numerals /\ rowIdx \in Nat
    /\ uniq \in Seq(Numerals) /\ dup \in Seq(Numerals) \X Seq(Numerals)
    /\ numbers \in Seq(Numerals \union {Blank, 0})

(* The rows of the batch that are to come find a number each.              *)
Stocked ==
    Survives /\ EvenShare /\ rowIdx % col.rowsInBatch # 0 =>
        Len(uniq) + Len(dup[1]) + Len(dup[2]) >= col.rowsInBatch - (rowIdx % col.rowsInBatch)

IInv == Types /\ Stocked /\ InRange

-----------------------------------------------------------------------------
(* Arithmetic.                                                             *)

LEMMA DivMod ==
    ASSUME NEW a \in Nat, NEW m \in Nat \ {0}
    PROVE  /\ a % m \in 0..(m - 1) /\ a \div m \in Nat
           /\ a = m * (a \div m) + (a % m)
<1>1. a % m \in 0..(m - 1)
    BY SMT
<1>2. a = m * (a \div m) + (a % m)
    BY SMT
<1>3. a \div m \in Int
    BY SMT
<1>4. a \div m >= 0
    BY SMT
<1> QED
    BY <1>1, <1>2, <1>3, <1>4

LEMMA Product ==
    ASSUME NEW m \in Nat, NEW d \in Nat \ {0}
    PROVE  m * d >= m
BY SMTT(30)

LEMMA ModUnique ==
    ASSUME NEW m \in Nat \ {0}, NEW q \in Nat, NEW s \in 0..(m - 1)
    PROVE  (m * q + s) % m = s
<1> DEFINE a == m * q + s
           p == a \div m
           r == a % m
<1>1. a \in Nat
    BY SMTT(30)
<1>2. r \in 0..(m - 1) /\ p \in Nat /\ m * q + s = m * p + r
    BY <1>1, DivMod
<1> HIDE DEF p, r
<1>3. CASE p > q
    <2>1. m * (p - q) >= m
        BY <1>3, <1>2, Product
    <2>2. m * (p - q) = m * p - m * q
        BY <1>2, SMTT(30)
    <2> QED
        BY <2>1, <2>2, <1>2
<1>4. CASE q > p
    <2>1. m * (q - p) >= m
        BY <1>4, <1>2, Product
    <2>2. m * (q - p) = m * q - m * p
        BY <1>2, SMTT(30)
    <2> QED
        BY <2>1, <2>2, <1>2
<1> QED
    BY <1>2, <1>3, <1>4 DEF r

LEMMA ModSucc ==
    ASSUME NEW a \in Nat, NEW m \in Nat \ {0}
    PROVE  (a + 1) % m = IF a % m = m - 1 THEN 0 ELSE (a % m) + 1
<1> DEFINE q == a \div m
           r == a % m
<1>1. r \in 0..(m - 1) /\ q \in Nat /\ a = m * q + r
    BY DivMod
<1> HIDE DEF q, r
<1>2. CASE r = m - 1
    <2>1. a + 1 = m * (q + 1) + 0
        BY <1>1, <1>2, SMTT(30)
    <2>2. (m * (q + 1) + 0) % m = 0
        BY <1>1, ModUnique
    <2> QED
        BY <2>1, <2>2, <1>2 DEF r
<1>3. CASE r # m - 1
    <2>1. a + 1 = m * q + (r + 1) /\ r + 1 \in 0..(m - 1)
        BY <1>1, <1>3, SMTT(30)
    <2> QED
        BY <2>1, <1>1, <1>3, ModUnique DEF r
<1> QED
    BY <1>2, <1>3

LEMMA ShareRange ==
    ASSUME NEW b \in Nat \ {0}, NEW p \in 50..100
    PROVE  (b * (2 * p - 100)) \div 100 \in 0..b
BY SMTT(30)

-----------------------------------------------------------------------------
(* Batches.                                                                *)

(* The rows of a batch that have numbers of their own, and pairs of rows.  *)
LEMMA RowsOfBatch ==
    ASSUME Types, Survives
    PROVE  /\ UniqRows \in Nat /\ DupRows \in Nat /\ col.rowsInBatch \in Nat \ {0}
           /\ EvenShare => UniqRows + DupRows + DupRows = col.rowsInBatch
<1>1. col.rowsInBatch \in Nat \ {0} /\ col.percentInBatch \in 50..100
    <2>1. col.rowsInBatch \in Nat /\ col.percentInBatch \in 0..100
        BY DEF Types, Column
    <2> QED
        BY <2>1 DEF Survives
<1>2. UniqRows \in 0..col.rowsInBatch
    BY <1>1, ShareRange DEF UniqRows
<1> QED
    BY <1>1, <1>2, SMTT(30) DEF DupRows, EvenShare

LEMMA AfterIsNumeral ==
    ASSUME Types, NEW v \in Numerals, NEW k \in Nat
    PROVE  After(v, k) \in Numerals
<1>1. col.low \in Nat /\ col.high \in Nat
    BY DEF Types, Column
<1>2. CASE col.low <= col.high
    <2>1. v - col.low + k \in Nat /\ col.high - col.low + 1 \in Nat \ {0}
        BY <1>1, <1>2 DEF Numerals
    <2>2. (v - col.low + k) % (col.high - col.low + 1) \in 0..(col.high - col.low)
        BY <2>1, <1>1, DivMod
    <2> QED
        BY <2>2, <1>1, <1>2 DEF After, Numerals
<1> QED
    BY <1>1, <1>2 DEF After, Numerals

LEMMA FreshAreNumerals ==
    ASSUME Types, NEW v \in Numerals, NEW n \in Nat
    PROVE  Fresh(v, n) \in Seq(Numerals) /\ Len(Fresh(v, n)) = n
<1>1. \A i \in 1..n : After(v, i - 1) \in Numerals
    BY AfterIsNumeral
<1> QED
    BY <1>1 DEF Fresh

(* The pools from which the row draws.                                     *)
LEMMA PoolsAt ==
    ASSUME Types, Draws
    PROVE  /\ LastAt \in Numerals /\ FreshAt \in Numerals /\ RowIdxAt \in Nat
           /\ UniqAt \in Seq(Numerals) /\ DupAt(1) \in Seq(Numerals) /\ DupAt(2) \in Seq(Numerals)
           /\ Len(UniqAt) = Len(uniq) + (IF BatchBegins THEN UniqRows ELSE 0)
           /\ Len(DupAt(1)) = Len(dup[1]) + (IF BatchBegins THEN DupRows ELSE 0)
           /\ Len(DupAt(2)) = Len(dup[2]) + (IF BatchBegins THEN DupRows ELSE 0)
<1>1. UniqRows \in Nat /\ DupRows \in Nat
    BY RowsOfBatch DEF Draws
<1>2. LastAt \in Numerals
    BY DEF Types, LastAt, Numerals, Column
<1>3. After(LastAt, UniqRows) \in Numerals /\ After(LastAt, UniqRows + DupRows) \in Numerals
    BY <1>1, <1>2, AfterIsNumeral
<1>4. /\ Fresh(LastAt, UniqRows) \in Seq(Numerals) /\ Len(Fresh(LastAt, UniqRows)) = UniqRows
      /\ DupNumbers(LastAt, UniqRows, DupRows) \in Seq(Numerals)
      /\ Len(DupNumbers(LastAt, UniqRows, DupRows)) = DupRows
    BY <1>1, <1>2, <1>3, FreshAreNumerals DEF DupNumbers
<1>5. uniq \in Seq(Numerals) /\ dup[1] \in Seq(Numerals) /\ dup[2] \in Seq(Numerals) /\ RowIdxAt \in Nat
    BY DEF Types, RowIdxAt
<1>6. FreshAt \in Numerals
    BY <1>2, <1>3 DEF FreshAt
<1>7. UniqAt \in Seq(Numerals) /\ Len(UniqAt) = Len(uniq) + (IF BatchBegins THEN UniqRows ELSE 0)
    BY <1>1, <1>4, <1>5 DEF UniqAt
<1>8. DupAt(1) \in Seq(Numerals) /\ Len(DupAt(1)) = Len(dup[1]) + (IF BatchBegins THEN DupRows ELSE 0)
    <2> DEFINE pool == dup[1]
               fresh == DupNumbers(LastAt, UniqRows, DupRows)
    <2>1. DupAt(1) = IF BatchBegins THEN pool \o fresh ELSE pool
        BY DEF DupAt
    <2>2. pool \in Seq(Numerals) /\ fresh \in Seq(Numerals) /\ Len(fresh) = DupRows
        BY <1>4, <1>5
    <2> HIDE DEF pool, fresh
    <2>3. /\ DupAt(1) \in Seq(Numerals)
          /\ Len(DupAt(1)) = Len(pool) + (IF BatchBegins THEN DupRows ELSE 0)
        <3>1. CASE BatchBegins
            <4>1. pool \o fresh \in Seq(Numerals) /\ Len(pool \o fresh) = Len(pool) + Len(fresh)
                BY <2>2, ConcatProperties
            <4> QED
                BY <2>1, <2>2, <3>1, <4>1
        <3>2. CASE ~BatchBegins
            <4>1. Len(pool) \in Nat
                BY <2>2, LenProperties
            <4> QED
                BY <2>1, <2>2, <3>2, <4>1
        <3> QED
            BY <3>1, <3>2
    <2> QED
        BY <2>3 DEF pool
<1>9. DupAt(2) \in Seq(Numerals) /\ Len(DupAt(2)) = Len(dup[2]) + (IF BatchBegins THEN DupRows ELSE 0)
    <2> DEFINE pool == dup[2]
               fresh == DupNumbers(LastAt, UniqRows, DupRows)
    <2>1. DupAt(2) = IF BatchBegins THEN pool \o fresh ELSE pool
        BY DEF DupAt
    <2>2. pool \in Seq(Numerals) /\ fresh \in Seq(Numerals) /\ Len(fresh) = DupRows
        BY <1>4, <1>5
    <2> HIDE DEF pool, fresh
    <2>3. /\ DupAt(2) \in Seq(Numerals)
          /\ Len(DupAt(2)) = Len(pool) + (IF BatchBegins THEN DupRows ELSE 0)
        <3>1. CASE BatchBegins
            <4>1. pool \o fresh \in Seq(Numerals) /\ Len(pool \o fresh) = Len(pool) + Len(fresh)
                BY <2>2, ConcatProperties
            <4> QED
                BY <2>1, <2>2, <3>1, <4>1
        <3>2. CASE ~BatchBegins
            <4>1. Len(pool) \in Nat
                BY <2>2, LenProperties
            <4> QED
                BY <2>1, <2>2, <3>2, <4>1
        <3> QED
            BY <3>1, <3>2
    <2> QED
        BY <2>3 DEF pool
<1> QED
    BY <1>2, <1>5, <1>6, <1>7, <1>8, <1>9

(* The pools have a number for each row of the batch that is to come.      *)
LEMMA StockedAt ==
    ASSUME Types, Stocked, Draws, EvenShare
    PROVE  Len(UniqAt) + Len(DupAt(1)) + Len(DupAt(2)) >= col.rowsInBatch - (RowIdxAt % col.rowsInBatch)
<1>1. col.rowsInBatch \in Nat \ {0} /\ UniqRows + DupRows + DupRows = col.rowsInBatch /\ Survives
    BY RowsOfBatch DEF Draws
<1>2. Len(uniq) \in Nat /\ Len(dup[1]) \in Nat /\ Len(dup[2]) \in Nat
    BY DEF Types
<1>3. UniqRows \in Nat /\ DupRows \in Nat
    BY <1>1, RowsOfBatch
<1>4. CASE BatchBegins
    <2>1. /\ Len(UniqAt) = Len(uniq) + UniqRows
          /\ Len(DupAt(1)) = Len(dup[1]) + DupRows /\ Len(DupAt(2)) = Len(dup[2]) + DupRows
        BY <1>4, PoolsAt
    <2>2. RowIdxAt % col.rowsInBatch = 0
        BY <1>4 DEF BatchBegins
    <2> QED
        BY <2>1, <2>2, <1>1, <1>2, <1>3
<1>5. CASE ~BatchBegins
    <2>1. RowIdxAt = rowIdx
        <3>1. 0 % col.rowsInBatch = 0
            BY <1>1, ModUnique, (col.rowsInBatch * 0) + 0 = 0
        <3> QED
            BY <3>1, <1>5 DEF RowIdxAt, BatchBegins
    <2>2. Len(UniqAt) = Len(uniq) /\ Len(DupAt(1)) = Len(dup[1]) /\ Len(DupAt(2)) = Len(dup[2])
        <3>1. Len(UniqAt) = Len(uniq) + 0 /\ Len(DupAt(1)) = Len(dup[1]) + 0 /\ Len(DupAt(2)) = Len(dup[2]) + 0
            BY <1>5, PoolsAt
        <3> QED
            BY <3>1, <1>2
    <2> QED
        BY <2>1, <2>2, <1>1, <1>5 DEF BatchBegins, Stocked
<1> QED
    BY <1>4, <1>5
-----------------------------------------------------------------------------
(* Steps.                                                                  *)

LEMMA InitIInv == Init => IInv
<1> SUFFICES ASSUME Init PROVE IInv
    OBVIOUS
<1>1. col \in Column
    BY ColumnsAssumption DEF Init
<1>2. last \in Numerals
    BY <1>1 DEF Init, Numerals, Column
<1>3. row \in 0..col.rows
    BY <1>1 DEF Init, Column
<1>4. Types
    <2>1. uniq \in Seq(Numerals) /\ dup \in Seq(Numerals) \X Seq(Numerals)
        BY EmptySeq DEF Init
    <2>2. numbers \in Seq(Numerals \union {Blank, 0}) /\ rowIdx \in Nat /\ file \in Nat /\ dead \in BOOLEAN
        BY EmptySeq DEF Init
    <2> QED
        BY <1>1, <1>2, <1>3, <2>1, <2>2 DEF Types
<1>5. Stocked
    <2>1. ASSUME Survives PROVE rowIdx % col.rowsInBatch = 0
        <3>1. col.rowsInBatch \in Nat \ {0}
            BY <2>1, <1>4, RowsOfBatch
        <3> QED
            BY <3>1, ModUnique, (col.rowsInBatch * 0) + 0 = 0 DEF Init
    <2> QED
        BY <2>1 DEF Stocked
<1>6. InRange
    BY DEF Init, InRange, Given
<1> QED
    BY <1>4, <1>5, <1>6 DEF IInv

(* A number is given, and the pools have one less.                         *)
LEMMA GiveStep ==
    ASSUME IInv, Draws,
           NEW v \in Numerals \union {0}, EvenShare => v \in Numerals,
           Give(v),
           uniq' \in Seq(Numerals), dup' \in Seq(Numerals) \X Seq(Numerals),
           EvenShare =>
               Len(uniq') + Len(dup'[1]) + Len(dup'[2]) + 1 = Len(UniqAt) + Len(DupAt(1)) + Len(DupAt(2))
    PROVE  IInv'
<1>1. col' = col /\ dead' = dead /\ Numerals' = Numerals /\ (EvenShare' <=> EvenShare) /\ (Survives' <=> Survives)
    BY DEF Give, Numerals, EvenShare, UniqRows, Survives
<1>2. Types'
    <2>1. numbers' \in Seq(Numerals \union {Blank, 0})
        BY DEF IInv, Types, Give
    <2>2. row' \in 0..col.rows /\ col.rows \in Nat
        BY DEF IInv, Types, Give, Draws, Column
    <2>3. rowIdx' \in Nat /\ last' \in Numerals
        BY PoolsAt DEF IInv, Give
    <2> QED
        BY <1>1, <2>1, <2>2, <2>3 DEF IInv, Types, Give
<1>3. Stocked'
    <2> SUFFICES ASSUME EvenShare, Survives, rowIdx' % col.rowsInBatch # 0
                 PROVE  Len(uniq') + Len(dup'[1]) + Len(dup'[2]) >= col.rowsInBatch - (rowIdx' % col.rowsInBatch)
        BY <1>1 DEF Stocked
    <2>1. col.rowsInBatch \in Nat \ {0} /\ RowIdxAt \in Nat
        BY RowsOfBatch, PoolsAt DEF IInv
    <2>2. rowIdx' % col.rowsInBatch = (RowIdxAt % col.rowsInBatch) + 1
        BY <2>1, ModSucc DEF Give
    <2>3. RowIdxAt % col.rowsInBatch \in 0..(col.rowsInBatch - 1)
        BY <2>1, DivMod
    <2>4. Len(UniqAt) + Len(DupAt(1)) + Len(DupAt(2)) >= col.rowsInBatch - (RowIdxAt % col.rowsInBatch)
        BY StockedAt DEF IInv
    <2>5. Len(uniq') \in Nat /\ Len(dup'[1]) \in Nat /\ Len(dup'[2]) \in Nat
        OBVIOUS
    <2> QED
        BY <2>1, <2>2, <2>3, <2>4, <2>5
<1>4. InRange'
    BY <1>1 DEF IInv, Types, InRange, Given, Give
<1> QED
    BY <1>2, <1>3, <1>4 DEF IInv

(* The last number of a pool, and the rest.                                *)
LEMMA Drawn ==
    ASSUME NEW S, NEW s \in Seq(S), s # <<>>
    PROVE  Last(s) \in S /\ Front(s) \in Seq(S) /\ Len(Front(s)) + 1 = Len(s)
<1>1. Len(s) \in Nat \ {0}
    OBVIOUS
<1>2. Last(s) \in S
    BY <1>1 DEF Last
<1>3. Front(s) \in Seq(S) /\ Len(Front(s)) = Len(s) - 1
    <2>1. \A i \in 1..(Len(s) - 1) : s[i] \in S
        BY <1>1, ElementOfSeq
    <2>2. /\ SubSeq(s, 1, Len(s) - 1) \in Seq(S)
          /\ Len(SubSeq(s, 1, Len(s) - 1)) = IF 1 <= Len(s) - 1 THEN (Len(s) - 1) - 1 + 1 ELSE 0
        BY <1>1, <2>1, SubSeqProperties
    <2>3. Front(s) = SubSeq(s, 1, Len(s) - 1)
        BY DEF Front
    <2>4. (IF 1 <= Len(s) - 1 THEN (Len(s) - 1) - 1 + 1 ELSE 0) = Len(s) - 1
        <3>1. \A n \in Nat \ {0} : (IF 1 <= n - 1 THEN (n - 1) - 1 + 1 ELSE 0) = n - 1
            OBVIOUS
        <3> QED
            BY <1>1, <3>1
    <2> QED
        BY <2>2, <2>3, <2>4
<1> QED
    BY <1>1, <1>2, <1>3

LEMMA TakeUniqStep == ASSUME IInv, TakeUniq PROVE IInv'
<1>1. Draws /\ UniqAt # <<>> /\ uniq' = Front(UniqAt) /\ dup' = <<DupAt(1), DupAt(2)>>
    BY DEF TakeUniq
<1>2. UniqAt \in Seq(Numerals) /\ DupAt(1) \in Seq(Numerals) /\ DupAt(2) \in Seq(Numerals)
    BY <1>1, PoolsAt DEF IInv
<1>3. Last(UniqAt) \in Numerals /\ uniq' \in Seq(Numerals) /\ Len(uniq') + 1 = Len(UniqAt)
    BY <1>1, <1>2, Drawn
<1>4. dup' \in Seq(Numerals) \X Seq(Numerals) /\ dup'[1] = DupAt(1) /\ dup'[2] = DupAt(2)
    BY <1>1, <1>2
<1>5. Len(uniq') + Len(dup'[1]) + Len(dup'[2]) + 1 = Len(UniqAt) + Len(DupAt(1)) + Len(DupAt(2))
    <2>1. Len(uniq') \in Nat /\ Len(UniqAt) \in Nat /\ Len(DupAt(1)) \in Nat /\ Len(DupAt(2)) \in Nat
        BY <1>2, <1>3
    <2>2. Len(dup'[1]) = Len(DupAt(1)) /\ Len(dup'[2]) = Len(DupAt(2))
        BY <1>4
    <2> QED
        BY <2>1, <2>2, <1>3
<1> QED
    BY <1>1, <1>3, <1>4, <1>5, GiveStep DEF TakeUniq

LEMMA TakeDupStep == ASSUME IInv, TakeDup PROVE IInv'
<1>1. Draws /\ uniq' = UniqAt
    BY DEF TakeDup
<1>2. UniqAt \in Seq(Numerals) /\ DupAt(1) \in Seq(Numerals) /\ DupAt(2) \in Seq(Numerals)
    BY <1>1, PoolsAt DEF IInv
<1>3. CASE DupAt(1) # <<>> /\ Give(Last(DupAt(1))) /\ dup' = <<Front(DupAt(1)), DupAt(2)>>
    <2>1. Last(DupAt(1)) \in Numerals /\ dup'[1] \in Seq(Numerals) /\ Len(dup'[1]) + 1 = Len(DupAt(1))
        BY <1>2, <1>3, Drawn
    <2>2. dup' \in Seq(Numerals) \X Seq(Numerals) /\ dup'[2] = DupAt(2)
        BY <1>2, <1>3, <2>1
    <2>3. Len(uniq') + Len(dup'[1]) + Len(dup'[2]) + 1 = Len(UniqAt) + Len(DupAt(1)) + Len(DupAt(2))
        BY <1>1, <1>2, <2>1, <2>2
    <2> QED
        BY <1>1, <1>2, <1>3, <2>1, <2>2, <2>3, GiveStep
<1>4. CASE DupAt(1) = <<>> /\ DupAt(2) # <<>> /\ Give(Last(DupAt(2))) /\ dup' = << Front(DupAt(2)), <<>> >>
    <2>1. Last(DupAt(2)) \in Numerals /\ dup'[1] \in Seq(Numerals) /\ Len(dup'[1]) + 1 = Len(DupAt(2))
        BY <1>2, <1>4, Drawn
    <2>2. dup' \in Seq(Numerals) \X Seq(Numerals) /\ dup'[2] = DupAt(1)
        BY <1>2, <1>4, <2>1
    <2>3. Len(uniq') + Len(dup'[1]) + Len(dup'[2]) + 1 = Len(UniqAt) + Len(DupAt(1)) + Len(DupAt(2))
        BY <1>1, <1>2, <2>1, <2>2
    <2> QED
        BY <1>1, <1>2, <1>4, <2>1, <2>2, <2>3, GiveStep
<1> QED
    BY <1>3, <1>4 DEF TakeDup

(* All pools are empty: not within a batch that comes out even.            *)
LEMMA TakeNothingStep == ASSUME IInv, TakeNothing PROVE IInv'
<1>1. Draws /\ UniqAt = <<>> /\ DupAt(1) = <<>> /\ DupAt(2) = <<>> /\ Give(0)
      /\ uniq' = <<>> /\ dup' = << <<>>, <<>> >>
    BY DEF TakeNothing, DupsEmpty
<1>2. ~EvenShare
    <2> SUFFICES ASSUME EvenShare PROVE FALSE
        OBVIOUS
    <2>1. col.rowsInBatch \in Nat \ {0} /\ RowIdxAt \in Nat
        BY <1>1, RowsOfBatch, PoolsAt DEF IInv, Draws
    <2>2. RowIdxAt % col.rowsInBatch \in 0..(col.rowsInBatch - 1)
        BY <2>1, DivMod
    <2>3. Len(UniqAt) = 0 /\ Len(DupAt(1)) = 0 /\ Len(DupAt(2)) = 0
        BY <1>1
    <2> QED
        BY <1>1, <2>1, <2>2, <2>3, StockedAt DEF IInv
<1>3. uniq' \in Seq(Numerals) /\ dup' \in Seq(Numerals) \X Seq(Numerals)
    BY <1>1, EmptySeq
<1> QED
    BY <1>1, <1>2, <1>3, GiveStep

LEMMA SkipStep == ASSUME IInv, Skip PROVE IInv'
<1>1. col' = col /\ dead' = dead /\ Numerals' = Numerals /\ (EvenShare' <=> EvenShare) /\ (Survives' <=> Survives)
    BY DEF Skip, Numerals, EvenShare, UniqRows, Survives
<1>2. uniq' = uniq /\ dup' = dup
    BY DEF Skip, pools
<1>3. last' \in Numerals
    BY DEF IInv, Types, Skip, LastAt, Numerals, Column
<1>4. Types'
    <2>1. row' \in 0..col.rows /\ col.rows \in Nat
        BY DEF IInv, Types, Skip, Column
    <2>2. numbers' \in Seq(Numerals \union {Blank, 0})
        BY DEF IInv, Types, Skip
    <2> QED
        BY <1>1, <1>2, <1>3, <2>1, <2>2 DEF IInv, Types, Skip, RowIdxAt
<1>5. Stocked'
    <2>1. CASE row = 0
        <3> SUFFICES ASSUME Survives PROVE rowIdx' % col.rowsInBatch = 0
            BY <1>1 DEF Stocked
        <3>1. col.rowsInBatch \in Nat \ {0}
            BY RowsOfBatch DEF IInv
        <3> QED
            BY <2>1, <3>1, ModUnique, (col.rowsInBatch * 0) + 0 = 0 DEF Skip, RowIdxAt
    <2>2. CASE row # 0
        BY <2>2, <1>1, <1>2 DEF IInv, Stocked, Skip, RowIdxAt
    <2> QED
        BY <2>1, <2>2
<1>6. InRange'
    BY <1>1 DEF IInv, Types, InRange, Given, Skip
<1> QED
    BY <1>4, <1>5, <1>6 DEF IInv

LEMMA OtherStep == ASSUME IInv, Die \/ NextFile \/ UNCHANGED vars PROVE IInv'
<1>1. /\ col' = col /\ Numerals' = Numerals /\ (EvenShare' <=> EvenShare) /\ (Survives' <=> Survives)
      /\ uniq' = uniq /\ dup' = dup /\ last' = last /\ rowIdx' = rowIdx
      /\ numbers' = numbers \/ numbers' = <<>>
    BY DEF Die, NextFile, vars, pools, Numerals, EvenShare, UniqRows, Survives
<1>2. row' \in 0..col.rows /\ file' \in Nat /\ dead' \in BOOLEAN
    <2>1. col.rows \in Nat /\ row \in 0..col.rows /\ file \in Nat /\ dead \in BOOLEAN
        BY DEF IInv, Types, Column
    <2>2. row' \in {0, row} /\ file' \in {file, file + 1} /\ dead' \in {TRUE, dead}
        BY DEF Die, NextFile, vars
    <2>3. row' \in 0..col.rows
        BY <2>1, <2>2
    <2>4. file' \in Nat
        BY <2>1, <2>2
    <2>5. dead' \in BOOLEAN
        BY <2>1, <2>2
    <2> QED
        BY <2>3, <2>4, <2>5
<1>3. Types'
    <2>1. numbers' \in Seq(Numerals \union {Blank, 0})
        BY <1>1, EmptySeq DEF IInv, Types
    <2> QED
        BY <1>1, <1>2, <2>1 DEF IInv, Types
<1>4. Stocked'
    BY <1>1 DEF IInv, Stocked
<1>5. InRange'
    BY <1>1 DEF IInv, InRange, Given
<1> QED
    BY <1>3, <1>4, <1>5 DEF IInv

-----------------------------------------------------------------------------
(* The state of a column has its types and the pools their stock.          *)
THEOREM PoolsStocked == Spec => []IInv
<1>1. IInv /\ [Next]_vars => IInv'
    BY TakeUniqStep, TakeDupStep, TakeNothingStep, SkipStep, OtherStep DEF Next, Calculate
<1> QED
    BY <1>1, InitIInv, PTL DEF Spec

(* No row gets the 0 of the error branch of Calculate, nor any number that *)
(* is not the column's, if the batch comes out even: in whatever order the *)
(* pools are drawn from and whatever earlier files left in them.           *)
THEOREM NumbersInRange == Spec => []InRange
BY PoolsStocked, PTL DEF IInv

-----------------------------------------------------------------------------
(* What the pools hold.                                                    *)

Held == Len(uniq) + Len(dup[1]) + Len(dup[2])

\* The rows of the batch under way that are to come, and what a file may leave.
Due == IF row = 0 \/ rowIdx % col.rowsInBatch = 0 THEN 0 ELSE col.rowsInBatch - (rowIdx % col.rowsInBatch)
LeftByFile == IF WholeBatches \/ ~Survives THEN 0 ELSE col.rowsInBatch - 1

(* The pools hold a number for each row of the batch that is to come, and  *)
(* what the files before have left.                                        *)
HeldOK ==
    /\ file >= 1
    /\ ~Survives => Held = 0
    /\ Survives => Held <= Due + (file - 1) * LeftByFile
    /\ col.percent = 100 /\ row > 0 => rowIdx = row

LEMMA HeldTypes ==
    ASSUME Types
    PROVE  /\ Len(uniq) \in Nat /\ Len(dup[1]) \in Nat /\ Len(dup[2]) \in Nat /\ Held \in Nat
           /\ col.rowsInBatch \in Nat /\ row \in Nat /\ col.rows \in Nat \ {0} /\ rowIdx \in Nat
           /\ file \in Nat
<1>1. uniq \in Seq(Numerals) /\ dup[1] \in Seq(Numerals) /\ dup[2] \in Seq(Numerals)
    BY DEF Types
<1>2. Len(uniq) \in Nat /\ Len(dup[1]) \in Nat /\ Len(dup[2]) \in Nat
    BY <1>1, LenProperties
<1>3. col.rowsInBatch \in Nat /\ col.rows \in Nat \ {0} /\ row \in 0..col.rows
    BY DEF Types, Column
<1>. QED
    BY <1>2, <1>3 DEF Types, Held

LEMMA DueTypes ==
    ASSUME Types
    PROVE  /\ Survives => Due \in Nat /\ Due <= col.rowsInBatch - 1
           /\ LeftByFile \in Nat
           /\ file >= 1 => (file - 1) * LeftByFile \in Nat
<1>1. LeftByFile \in Nat
    BY HeldTypes DEF LeftByFile, Survives
<1>2. \A f \in Nat, l \in Nat : f >= 1 => (f - 1) * l \in Nat
    OBVIOUS
<1>3. ASSUME Survives PROVE Due \in Nat /\ Due <= col.rowsInBatch - 1
    <2>1. col.rowsInBatch \in Nat \ {0} /\ rowIdx \in Nat
        BY <1>3, HeldTypes DEF Survives
    <2>2. rowIdx % col.rowsInBatch \in 0..(col.rowsInBatch - 1)
        BY <2>1, DivMod
    <2>. QED
        BY <2>1, <2>2 DEF Due
<1>. QED
    BY <1>1, <1>2, <1>3, HeldTypes

\* A row that gets a number: its batch, if it begins one, has as many numbers as rows.
LEMMA HeldAfterDraw ==
    ASSUME IInv, HeldOK, Draws, NEW v, Give(v), Held' \in Nat,
           \/ Held' = 0
           \/ Held' + 1 = Len(UniqAt) + Len(DupAt(1)) + Len(DupAt(2))
    PROVE  HeldOK'
<1>. DEFINE B == col.rowsInBatch
            K == (file - 1) * LeftByFile
            s == RowIdxAt % B
            r == rowIdx' % B
<1>1. /\ col' = col /\ file' = file /\ row' = row + 1 /\ rowIdx' = RowIdxAt + 1
      /\ Types /\ Survives
    BY DEF Give, Draws, IInv
<1>2. (Survives' <=> Survives) /\ LeftByFile' = LeftByFile
    BY <1>1 DEF Survives, LeftByFile, WholeBatches
<1>3. B \in Nat \ {0} /\ RowIdxAt \in Nat
    BY <1>1, HeldTypes DEF Survives, RowIdxAt
<1>4. K \in Nat /\ Due \in Nat /\ Held \in Nat /\ Held <= Due + K
    BY <1>1, DueTypes, HeldTypes DEF HeldOK
<1>5. s \in 0..(B - 1) /\ r = IF s = B - 1 THEN 0 ELSE s + 1
    BY <1>1, <1>3, DivMod, ModSucc
<1>6. Due' = IF r = 0 THEN 0 ELSE B - r
    BY <1>1, HeldTypes DEF Due
<1>7. Held' <= Due' + K
    <2>1. UniqRows \in Nat /\ DupRows \in Nat /\ UniqRows + DupRows + DupRows <= B
        <3>1. UniqRows \in Nat /\ DupRows \in Nat
            BY <1>1, RowsOfBatch
        <3>2. DupRows = (B - UniqRows) \div 2
            BY DEF DupRows
        <3>. QED
            BY <1>3, <3>1, <3>2
    <2>. DEFINE at == Len(UniqAt) + Len(DupAt(1)) + Len(DupAt(2))
    <2>2. at = Held + (IF BatchBegins THEN UniqRows + DupRows + DupRows ELSE 0)
        <3>1. /\ Len(UniqAt) = Len(uniq) + (IF BatchBegins THEN UniqRows ELSE 0)
              /\ Len(DupAt(1)) = Len(dup[1]) + (IF BatchBegins THEN DupRows ELSE 0)
              /\ Len(DupAt(2)) = Len(dup[2]) + (IF BatchBegins THEN DupRows ELSE 0)
            BY <1>1, PoolsAt
        <3>2. Len(uniq) \in Nat /\ Len(dup[1]) \in Nat /\ Len(dup[2]) \in Nat
            BY <1>1, HeldTypes
        <3>3. CASE BatchBegins
            <4>1. \A a, b, c, u, d \in Nat : (a + u) + (b + d) + (c + d) = (a + b + c) + (u + d + d)
                OBVIOUS
            <4>2. at = (Len(uniq) + UniqRows) + (Len(dup[1]) + DupRows) + (Len(dup[2]) + DupRows)
                BY <3>1, <3>3, Zenon
            <4>3. at = Len(uniq) + Len(dup[1]) + Len(dup[2]) + (UniqRows + DupRows + DupRows)
                <5>. DEFINE a == Len(uniq)
                            b == Len(dup[1])
                            c == Len(dup[2])
                            u == UniqRows
                            d == DupRows
                <5>1. a \in Nat /\ b \in Nat /\ c \in Nat /\ u \in Nat /\ d \in Nat
                    BY <2>1, <3>2
                <5>2. at = (a + u) + (b + d) + (c + d)
                    BY <4>2
                <5>. HIDE DEF a, b, c, u, d
                <5>3. at = a + b + c + (u + d + d)
                    BY <5>1, <5>2
                <5>. QED
                    BY <5>3 DEF a, b, c, u, d
            <4>. QED
                BY <3>3, <4>3, Zenon DEF Held
        <3>4. CASE ~BatchBegins
            <4>1. \A a, b, c \in Nat : (a + 0) + (b + 0) + (c + 0) = (a + b + c) + 0
                OBVIOUS
            <4>2. at = (Len(uniq) + 0) + (Len(dup[1]) + 0) + (Len(dup[2]) + 0)
                BY <3>1, <3>4, Zenon
            <4>3. at = Len(uniq) + Len(dup[1]) + Len(dup[2]) + 0
                BY <3>2, <4>1, <4>2, Zenon
            <4>. QED
                BY <3>4, <4>3, Zenon DEF Held
        <3>. QED
            BY <3>3, <3>4
    <2>. HIDE DEF at, K, s, r, B
    <2>3. CASE BatchBegins
        <3>1. s = 0
            BY <2>3 DEF BatchBegins, s, B
        <3>2. Due = 0
            BY <3>1 DEF Due, RowIdxAt, s, B
        <3>3. Due' = B - 1
            BY <3>1, <1>3, <1>5, <1>6
        <3>4. Held' = 0 \/ Held' + 1 = Held + (UniqRows + DupRows + DupRows)
            BY <2>2, <2>3 DEF at
        <3>5. \A h, h1, n, k \in Nat, b \in Nat \ {0} :
                h <= 0 + k /\ n <= b /\ (h1 = 0 \/ h1 + 1 = h + n) => h1 <= b - 1 + k
            OBVIOUS
        <3>6. UniqRows + DupRows + DupRows \in Nat
            BY <2>1
        <3>. QED
            BY <3>2, <3>3, <3>4, <3>5, <3>6, <1>3, <1>4, <2>1
    <2>4. CASE ~BatchBegins
        <3>1. s # 0
            BY <2>4 DEF BatchBegins, s, B
        <3>2. row # 0 /\ RowIdxAt = rowIdx
            <4>1. 0 % B = 0
                BY <1>3, ModUnique, (B * 0) + 0 = 0
            <4>. QED
                BY <3>1, <4>1 DEF RowIdxAt, s
        <3>3. Due = B - s
            BY <3>1, <3>2 DEF Due, s, B
        <3>4. Due' = B - s - 1
            BY <3>1, <1>3, <1>5, <1>6
        <3>5. Held' = 0 \/ Held' + 1 = Held + 0
            BY <2>2, <2>4 DEF at
        <3>6. \A h, h1, k \in Nat, b \in Nat \ {0} : \A i \in 0..(b - 1) :
                h <= b - i + k /\ (h1 = 0 \/ h1 + 1 = h + 0) => h1 <= b - i - 1 + k
            OBVIOUS
        <3>. QED
            BY <3>3, <3>4, <3>5, <3>6, <1>3, <1>4, <1>5
    <2>. QED
        BY <2>3, <2>4
<1>8. col.percent = 100 => rowIdx' = row'
    <2>1. col.percent = 100 => RowIdxAt = row
        BY <1>1, HeldTypes DEF HeldOK, RowIdxAt
    <2>. QED
        BY <1>1, <2>1
<1>. QED
    BY <1>1, <1>2, <1>7, <1>8 DEF HeldOK

\* What the draws leave in the pools.
LEMMA DrawsHold ==
    ASSUME IInv, TakeUniq \/ TakeDup
    PROVE  Held' \in Nat /\ Held' + 1 = Len(UniqAt) + Len(DupAt(1)) + Len(DupAt(2))
<1>1. UniqAt \in Seq(Numerals) /\ DupAt(1) \in Seq(Numerals) /\ DupAt(2) \in Seq(Numerals)
    BY PoolsAt DEF IInv, TakeUniq, TakeDup
<1>2. Len(UniqAt) \in Nat /\ Len(DupAt(1)) \in Nat /\ Len(DupAt(2)) \in Nat
    BY <1>1, LenProperties
<1>3. ASSUME NEW p \in Seq(Numerals), p # <<>>
      PROVE  Len(Front(p)) \in Nat /\ Len(Front(p)) + 1 = Len(p)
    BY <1>3, Drawn, LenProperties
<1>4. CASE TakeUniq
    <2>1. /\ UniqAt # <<>> /\ Len(uniq') = Len(Front(UniqAt))
          /\ Len(dup'[1]) = Len(DupAt(1)) /\ Len(dup'[2]) = Len(DupAt(2))
        BY <1>4 DEF TakeUniq
    <2>2. Len(uniq') \in Nat /\ Len(uniq') + 1 = Len(UniqAt)
        BY <1>1, <1>3, <2>1
    <2>3. Held' = Len(uniq') + Len(DupAt(1)) + Len(DupAt(2))
        BY <2>1 DEF Held
    <2>. QED
        BY <1>2, <2>2, <2>3
<1>5. CASE TakeDup
    <2>1. Len(uniq') = Len(UniqAt)
        BY <1>5 DEF TakeDup
    <2>2. CASE DupAt(1) # <<>> /\ dup' = <<Front(DupAt(1)), DupAt(2)>>
        <3>1. Len(dup'[1]) \in Nat /\ Len(dup'[1]) + 1 = Len(DupAt(1)) /\ Len(dup'[2]) = Len(DupAt(2))
            BY <1>1, <1>3, <2>2
        <3>. QED
            BY <1>2, <2>1, <3>1 DEF Held
    <2>3. CASE DupAt(1) = <<>> /\ DupAt(2) # <<>> /\ dup' = << Front(DupAt(2)), <<>> >>
        <3>1. Len(dup'[1]) \in Nat /\ Len(dup'[1]) + 1 = Len(DupAt(2))
            BY <1>1, <1>3, <2>3
        <3>2. Len(dup'[2]) = Len(DupAt(1))
            BY <2>3
        <3>. QED
            BY <1>2, <2>1, <3>1, <3>2 DEF Held
    <2>. QED
        BY <1>5, <2>2, <2>3 DEF TakeDup
<1>. QED
    BY <1>4, <1>5

LEMMA StepHeld ==
    ASSUME IInv, HeldOK, [Next]_vars
    PROVE  HeldOK'
<1>. USE DEF pools
<1>1. CASE TakeUniq \/ TakeDup
    <2>1. Draws /\ \E v : Give(v)
        BY <1>1 DEF TakeUniq, TakeDup
    <2>. QED
        BY <1>1, <2>1, DrawsHold, HeldAfterDraw
<1>2. CASE TakeNothing
    <2>1. Held' = 0
        <3>1. Len(uniq') = 0 /\ Len(dup'[1]) = 0 /\ Len(dup'[2]) = 0
            BY <1>2 DEF TakeNothing
        <3>. QED
            BY <3>1 DEF Held
    <2>. QED
        BY <1>2, <2>1, HeldAfterDraw DEF TakeNothing
<1>3. CASE Skip
    <2>1. /\ UNCHANGED <<col, file, uniq, dup>> /\ row' = row + 1 /\ rowIdx' = RowIdxAt
          /\ col.percent # 100 /\ Types
        BY <1>3 DEF Skip, IInv, Types, Column
    <2>2. /\ Held' = Held /\ LeftByFile' = LeftByFile /\ (Survives' <=> Survives)
        BY <2>1 DEF Held, LeftByFile, Survives, WholeBatches
    <2>3. ASSUME Survives PROVE Due' = Due
        <3>1. col.rowsInBatch \in Nat \ {0} /\ row \in Nat
            BY <2>1, <2>3, HeldTypes DEF Survives
        <3>2. 0 % col.rowsInBatch = 0
            BY <3>1, ModUnique, (col.rowsInBatch * 0) + 0 = 0
        <3>3. row' # 0 /\ col' = col
            BY <2>1, <3>1
        <3>. QED
            BY <2>1, <3>1, <3>2, <3>3 DEF Due, RowIdxAt
    <2>. QED
        BY <2>1, <2>2, <2>3 DEF HeldOK
<1>4. CASE NextFile
    <2>. DEFINE L == LeftByFile
    <2>1. /\ UNCHANGED <<col, uniq, dup, rowIdx>> /\ row' = 0 /\ file' = file + 1 /\ row = col.rows /\ Types
        BY <1>4 DEF NextFile, IInv
    <2>2. /\ Held' = Held /\ LeftByFile' = L /\ (Survives' <=> Survives) /\ Due' = 0
        BY <2>1 DEF Held, LeftByFile, Survives, WholeBatches, Due
    <2>3. ASSUME Survives PROVE Due <= L
        <3>1. CASE WholeBatches
            <4>1. rowIdx = col.rows /\ col.rows % col.rowsInBatch = 0
                BY <2>1, <3>1, HeldTypes DEF HeldOK, WholeBatches
            <4>. QED
                BY <2>1, <2>3, <3>1, <4>1 DEF Due, LeftByFile
        <3>2. CASE ~WholeBatches
            BY <2>1, <2>3, <3>2, DueTypes DEF LeftByFile
        <3>. QED
            BY <3>1, <3>2
    <2>4. ASSUME Survives PROVE Held <= file * L
        <3>1. file \in Nat /\ file >= 1 /\ L \in Nat /\ Held \in Nat /\ Due \in Nat
              /\ Held <= Due + (file - 1) * L /\ Due <= L
            BY <2>1, <2>3, <2>4, DueTypes, HeldTypes DEF HeldOK
        <3>. HIDE DEF L
        <3>2. (file - 1) * L = file * L - L /\ file * L \in Nat
            BY <3>1
        <3>. QED
            BY <3>1, <3>2
    <2>5. file' - 1 = file /\ file' >= 1
        BY <2>1, HeldTypes DEF HeldOK
    <2>6. Survives => Held' <= Due' + (file' - 1) * L
        <3>1. file * L \in Nat
            BY <2>1, DueTypes, HeldTypes
        <3>. QED
            BY <2>2, <2>4, <2>5, <3>1
    <2>. QED
        BY <2>1, <2>2, <2>5, <2>6 DEF HeldOK
<1>5. CASE Die \/ UNCHANGED vars
    <2>1. UNCHANGED <<col, file, row, rowIdx, uniq, dup>>
        BY <1>5 DEF Die, vars
    <2>. QED
        BY <2>1 DEF HeldOK, Held, Due, LeftByFile, Survives, WholeBatches
<1>. QED
    BY <1>1, <1>2, <1>3, <1>4, <1>5 DEF Next, Calculate

LEMMA InitHeld == Init => HeldOK
<1>. SUFFICES ASSUME Init PROVE HeldOK
    OBVIOUS
<1>1. Held = 0
    BY DEF Init, Held
<1>2. Due = 0 /\ file = 1 /\ row = 0 /\ LeftByFile \in Nat
    <2>1. Types
        BY InitIInv DEF IInv
    <2>. QED
        BY <2>1, DueTypes DEF Init, Due
<1>. QED
    BY <1>1, <1>2 DEF HeldOK

(* The pools hold no more than the batch under way and what each earlier   *)
(* file left, which is nothing if the batches of a file are whole.         *)
THEOREM PoolsHoldNoMore == Spec => []PoolsBounded
<1>1. IInv /\ HeldOK => PoolsBounded
    <2>. SUFFICES ASSUME IInv, HeldOK PROVE PoolsBounded
        OBVIOUS
    <2>1. Types /\ (file - 1) * LeftByFile \in Nat /\ col.rowsInBatch \in Nat /\ Held \in Nat
        BY DueTypes, HeldTypes DEF IInv, HeldOK
    <2>2. PoolsBounded <=> Held <= (IF row = 0 THEN 0 ELSE col.rowsInBatch) + (file - 1) * LeftByFile
        BY DEF PoolsBounded, Held, LeftByFile
    <2>3. CASE Survives
        BY <2>1, <2>2, <2>3, DueTypes DEF HeldOK, Due
    <2>4. CASE ~Survives
        BY <2>1, <2>2, <2>4 DEF HeldOK
    <2>. QED
        BY <2>3, <2>4
<1>2. IInv /\ HeldOK /\ [Next]_vars => (IInv /\ HeldOK)'
    BY TakeUniqStep, TakeDupStep, TakeNothingStep, SkipStep, OtherStep, StepHeld DEF Next, Calculate
<1>. QED
    BY <1>1, <1>2, InitIInv, InitHeld, PTL DEF Spec

-----------------------------------------------------------------------------
(* The numbers in their order.                                             *)

LEMMA ModSum ==
    ASSUME NEW a \in Nat, NEW b \in Nat, NEW m \in Nat \ {0}
    PROVE  ((a % m) + b) % m = (a + b) % m
<1>. DEFINE q == a \div m
            r == a % m
            p == (r + b) \div m
            s == (r + b) % m
<1>1. r \in Nat /\ q \in Nat /\ a = m * q + r
    BY DivMod
<1>. HIDE DEF q, r
<1>2. s \in 0..(m - 1) /\ p \in Nat /\ r + b = m * p + s
    <2>1. r + b \in Nat
        BY <1>1
    <2>. QED
        BY <2>1, DivMod
<1>. HIDE DEF p, s
<1>3. q + p \in Nat /\ a + b = m * (q + p) + s
    BY <1>1, <1>2, SMTT(30)
<1>4. (m * (q + p) + s) % m = s
    BY <1>2, <1>3, ModUnique
<1>. QED
    BY <1>3, <1>4 DEF s, r

\* Multiples less than one apart are equal.
LEMMA MultiplesApart ==
    ASSUME NEW m \in Nat \ {0}, NEW p \in Nat, NEW q \in Nat, m * p - m * q < m, m * q - m * p < m
    PROVE  p = q
<1>1. CASE p > q
    <2>1. m * (p - q) >= m
        BY <1>1, Product
    <2>2. m * (p - q) = m * p - m * q
        BY SMTT(30)
    <2>. QED
        BY <2>1, <2>2
<1>2. CASE q > p
    <2>1. m * (q - p) >= m
        BY <1>2, Product
    <2>2. m * (q - p) = m * q - m * p
        BY SMTT(30)
    <2>. QED
        BY <2>1, <2>2
<1>. QED
    BY <1>1, <1>2

LEMMA ModInjective ==
    ASSUME NEW v \in Nat, NEW m \in Nat \ {0}, NEW a \in 0..(m - 1), NEW b \in 0..(m - 1),
           (v + a) % m = (v + b) % m
    PROVE  a = b
<1>. DEFINE p == (v + a) \div m
            q == (v + b) \div m
            r == (v + a) % m
<1>1. p \in Nat /\ r \in 0..(m - 1) /\ v + a = m * p + r
    <2>1. v + a \in Nat
        OBVIOUS
    <2>. QED
        BY <2>1, DivMod
<1>2. q \in Nat /\ v + b = m * q + r
    <2>1. v + b \in Nat
        OBVIOUS
    <2>. QED
        BY <2>1, DivMod
<1>. HIDE DEF p, q, r
<1>3. m * p \in Nat /\ m * q \in Nat
    BY <1>1, <1>2
<1>4. m * p - m * q < m /\ m * q - m * p < m
    BY <1>1, <1>2, <1>3
<1>5. p = q
    BY <1>1, <1>2, <1>4, MultiplesApart
<1>. QED
    BY <1>1, <1>2, <1>3, <1>5

LEMMA WholeNext ==
    ASSUME NEW a \in Nat, NEW m \in Nat \ {0}, a % m = 0
    PROVE  /\ (a + m) % m = 0 /\ (a > 0 => a >= m)
<1>. DEFINE q == a \div m
<1>1. q \in Nat /\ a = m * q + 0
    BY DivMod
<1>. HIDE DEF q
<1>2. a + m = m * (q + 1) + 0 /\ (m * (q + 1) + 0) % m = 0
    BY <1>1, ModUnique, SMTT(30)
<1>3. q = 0 => a = 0
    BY <1>1
<1>4. q # 0 => a >= m
    BY <1>1, Product
<1>. QED
    BY <1>2, <1>3, <1>4

LEMMA WholeEqual ==
    ASSUME NEW a \in Nat, NEW b \in Nat, NEW m \in Nat \ {0}, a % m = 0, b % m = 0,
           a - b < m, b - a < m
    PROVE  a = b
<1>. DEFINE p == a \div m
            q == b \div m
<1>1. p \in Nat /\ q \in Nat /\ a = m * p + 0 /\ b = m * q + 0
    BY DivMod
<1>. HIDE DEF p, q
<1>2. m * p - m * q < m /\ m * q - m * p < m
    BY <1>1
<1>3. p = q
    BY <1>1, <1>2, MultiplesApart
<1>. QED
    BY <1>1, <1>3

LEMMA WholeFits ==
    ASSUME NEW a \in Nat, NEW b \in Nat, NEW m \in Nat \ {0}, a % m = 0, a <= b
    PROVE  a <= m * (b \div m)
<1>. DEFINE p == a \div m
            q == b \div m
            s == b % m
<1>1. p \in Nat /\ q \in Nat /\ a = m * p + 0 /\ b = m * q + s /\ s \in 0..(m - 1)
    BY DivMod
<1>. HIDE DEF p, q, s
<1>2. m * p \in Nat /\ m * q \in Nat
    BY <1>1
<1>3. CASE p > q
    <2>1. m * (p - q) >= m
        BY <1>1, <1>3, Product
    <2>2. m * (p - q) = m * p - m * q
        BY <1>1, SMTT(30)
    <2>. QED
        BY <1>1, <1>2, <2>1, <2>2
<1>4. CASE q >= p
    <2>1. m * (q - p) \in Nat /\ m * (q - p) = m * q - m * p
        BY <1>1, <1>4, SMTT(30)
    <2>. QED
        BY <1>1, <1>2, <2>1 DEF q
<1>. QED
    BY <1>1, <1>3, <1>4

\* The numbers from v on, one by one and in two parts.
LEMMA AfterParts ==
    ASSUME Types, NEW v \in Numerals, NEW a \in Nat, NEW b \in Nat
    PROVE  After(After(v, a), b) = After(v, a + b) /\ After(v, 0) = v
<1>1. col.low \in Nat /\ col.high \in Nat
    BY DEF Types, Column
<1>2. CASE col.low <= col.high
    <2>. DEFINE m == col.high - col.low + 1
                d == v - col.low
    <2>1. m \in Nat \ {0} /\ d \in 0..(m - 1)
        BY <1>1, <1>2 DEF Numerals
    <2>2. \A k \in Nat : After(v, k) = col.low + ((d + k) % m)
        BY <1>2 DEF After
    <2>3. \A k \in Nat : (d + k) % m \in Nat
        BY <2>1, DivMod
    <2>4. After(After(v, a), b) = col.low + ((((d + a) % m) + b) % m)
        <3>1. After(After(v, a), b) = col.low + ((After(v, a) - col.low + b) % m)
            BY <1>2 DEF After
        <3>2. After(v, a) - col.low = (d + a) % m
            BY <1>1, <2>2, <2>3
        <3>. DEFINE e == After(v, a) - col.low
                    f == (d + a) % m
        <3>3. After(After(v, a), b) = col.low + ((e + b) % m) /\ e = f
            BY <3>1, <3>2
        <3>. HIDE DEF e, f
        <3>4. After(After(v, a), b) = col.low + ((f + b) % m)
            BY <3>3
        <3>. QED
            BY <3>4 DEF f
    <2>5. (((d + a) % m) + b) % m = (d + (a + b)) % m
        <3>1. d + a \in Nat /\ d + a + b = d + (a + b)
            BY <2>1
        <3>. QED
            BY <2>1, <3>1, ModSum
    <2>6. (d + 0) % m = d
        BY <2>1, ModUnique, (m * 0) + (d + 0) = d + 0
    <2>7. col.low + d = v
        BY <1>1, <1>2 DEF Numerals
    <2>. HIDE DEF d, m
    <2>8. After(v, a + b) = col.low + ((d + (a + b)) % m) /\ After(v, 0) = col.low + ((d + 0) % m)
        BY <2>2
    <2>9. After(After(v, a), b) = After(v, a + b)
        <3>. DEFINE e == (((d + a) % m) + b) % m
                    f == (d + (a + b)) % m
        <3>1. After(After(v, a), b) = col.low + e /\ e = f /\ After(v, a + b) = col.low + f
            BY <2>4, <2>5, <2>8
        <3>. HIDE DEF e, f
        <3>. QED
            BY <3>1
    <2>. QED
        BY <2>6, <2>7, <2>8, <2>9, Zenon
<1>3. CASE ~(col.low <= col.high)
    BY <1>3 DEF After, Numerals
<1>. QED
    BY <1>2, <1>3

\* They do not come round before their end.
LEMMA AfterDiffers ==
    ASSUME Types, NEW v \in Numerals, col.low <= col.high,
           NEW a \in 0..(col.high - col.low), NEW b \in 0..(col.high - col.low),
           After(v, a) = After(v, b)
    PROVE  a = b
<1>. DEFINE m == col.high - col.low + 1
            d == v - col.low
<1>1. m \in Nat \ {0} /\ d \in Nat /\ a \in 0..(m - 1) /\ b \in 0..(m - 1) /\ col.low \in Nat
    <2>1. col.low \in Nat /\ col.high \in Nat
        BY DEF Types, Column
    <2>. QED
        BY <2>1 DEF Numerals
<1>2. (d + a) % m \in Nat /\ (d + b) % m \in Nat
    <2>1. d + a \in Nat /\ d + b \in Nat /\ m \in Nat \ {0}
        BY <1>1
    <2>. HIDE DEF m
    <2>2. (d + a) % m \in 0..(m - 1) /\ (d + b) % m \in 0..(m - 1)
        BY <2>1, DivMod
    <2>. QED
        BY <2>1, <2>2
<1>3. col.low + ((d + a) % m) = col.low + ((d + b) % m)
    BY DEF After
<1>4. (d + a) % m = (d + b) % m
    BY <1>1, <1>2, <1>3
<1>. QED
    BY <1>1, <1>4, ModInjective

-----------------------------------------------------------------------------
(* Numbers of their own, at 100 percent in batch.                          *)

GivenIn(nums) == {j \in DOMAIN nums : nums[j] # Blank}
Distinct(nums) == \A j, k \in GivenIn(nums) : nums[j] = nums[k] => j = k

(* The batches of the file have taken the n numbers from base on, and i of *)
(* them are on rows.  The others are on top of the pool, in their order,   *)
(* and belong to the last batch.                                           *)
Dealt(base, n, next, i, pool, nums) ==
    /\ n % col.rowsInBatch = 0 /\ n - i \in 0..col.rowsInBatch /\ n - i <= Len(pool)
    /\ next = After(base, n)
    /\ \A k \in 1..(n - i) : pool[Len(pool) - (n - i) + k] = After(base, n - col.rowsInBatch + k - 1)
    /\ \A j \in GivenIn(nums) : \E x \in 0..(n - 1) :
         /\ x < n - col.rowsInBatch \/ x >= n - col.rowsInBatch + (n - i)
         /\ nums[j] = After(base, x)
    /\ Distinct(nums)

OwnNumbers == col.percentInBatch = 100 /\ EnoughNumbers

DealtOK ==
    OwnNumbers =>
        /\ dup = << <<>>, <<>> >>
        /\ row = 0 => numbers = <<>>
        /\ row > 0 =>
             /\ rowIdx <= row
             /\ \E base \in Numerals, n \in Nat :
                  n - rowIdx < col.rowsInBatch /\ Dealt(base, n, last, rowIdx, uniq, numbers)

LEMMA OwnParts ==
    ASSUME Types, OwnNumbers
    PROVE  /\ col.rowsInBatch \in Nat \ {0} /\ Survives /\ EvenShare
           /\ UniqRows = col.rowsInBatch /\ DupRows = 0
           /\ col.rowsInBatch * ((col.rows + col.rowsInBatch - 1) \div col.rowsInBatch)
                <= col.high - col.low + 1
           /\ col.low \in Nat /\ col.high \in Nat /\ col.low <= col.high
<1>1. col.rowsInBatch \in Nat \ {0} /\ Survives /\ col.percentInBatch = 100
    BY RowsOfBatch DEF OwnNumbers, EnoughNumbers
<1>2. UniqRows = col.rowsInBatch
    <2>1. col.rowsInBatch * (2 * 100 - 100) = 100 * col.rowsInBatch
        BY <1>1
    <2>. QED
        BY <1>1, <2>1, SMTT(30) DEF UniqRows
<1>3. DupRows = 0
    BY <1>1, <1>2 DEF DupRows
<1>4. EvenShare
    BY <1>1, <1>2 DEF EvenShare
<1>5. col.low \in Nat /\ col.high \in Nat /\ col.rows \in Nat \ {0}
    BY DEF Types, Column
<1>. DEFINE q == (col.rows + col.rowsInBatch - 1) \div col.rowsInBatch
<1>6. q \in Nat /\ q >= 1
    <2>1. col.rows + col.rowsInBatch - 1 \in Nat /\ col.rows + col.rowsInBatch - 1 >= col.rowsInBatch
        BY <1>1, <1>5
    <2>2. q \in Nat
        BY <1>1, <2>1, DivMod
    <2>3. \A a \in Nat, m \in Nat \ {0} : a >= m => a \div m # 0
        BY DivMod
    <2>. QED
        BY <1>1, <2>1, <2>2, <2>3
<1>7. col.rowsInBatch * q <= col.high - col.low + 1
    BY <1>1, <1>2, <1>3 DEF OwnNumbers, EnoughNumbers, FreshPerFile
<1>8. col.low <= col.high
    <2>. HIDE DEF q
    <2>1. col.rowsInBatch * q >= col.rowsInBatch
        BY <1>1, <1>6, Product
    <2>2. col.rowsInBatch * q \in Nat
        BY <1>1, <1>6
    <2>. QED
        BY <1>1, <1>5, <1>7, <2>1, <2>2
<1>. QED
    BY <1>1, <1>2, <1>3, <1>4, <1>5, <1>7, <1>8

\* The numbers of the batches that have begun do not come round.
LEMMA DealtFit ==
    ASSUME Types, OwnNumbers, NEW n \in Nat, n % col.rowsInBatch = 0,
           n <= col.rows + col.rowsInBatch - 1
    PROVE  n <= col.high - col.low + 1
<1>. DEFINE b == col.rowsInBatch
            t == col.rows + col.rowsInBatch - 1
<1>1. b \in Nat \ {0} /\ t \in Nat
    BY OwnParts DEF Types, Column
<1>2. n <= b * (t \div b)
    BY <1>1, WholeFits
<1>3. b * (t \div b) <= col.high - col.low + 1 /\ col.high - col.low + 1 \in Int
    BY OwnParts
<1>4. b * (t \div b) \in Nat
    <2>1. t \div b \in Nat
        BY <1>1, DivMod
    <2>. QED
        BY <1>1, <2>1
<1>. HIDE DEF b, t
<1>. QED
    BY <1>2, <1>3, <1>4

\* A batch begins when the last one is on rows.
LEMMA DealBatch ==
    ASSUME Types, OwnNumbers, NEW base \in Numerals, NEW n \in Nat, NEW i \in Nat,
           NEW next, NEW pool \in Seq(Numerals), NEW nums,
           Dealt(base, n, next, i, pool, nums), n - i < col.rowsInBatch, i % col.rowsInBatch = 0
    PROVE  /\ n + col.rowsInBatch \in Nat /\ n + col.rowsInBatch - i = col.rowsInBatch
           /\ Dealt(base, n + col.rowsInBatch, After(next, col.rowsInBatch), i,
                    pool \o Fresh(next, col.rowsInBatch), nums)
<1>. DEFINE b == col.rowsInBatch
            fresh == Fresh(next, b)
<1>1. b \in Nat \ {0}
    BY OwnParts
<1>2. n = i
    <2>1. n % b = 0 /\ n - i < b /\ i - n < b
        BY <1>1 DEF Dealt
    <2>. QED
        BY <1>1, <2>1, WholeEqual
<1>3. (n + b) % b = 0
    BY <1>1, WholeNext DEF Dealt
<1>4. next = After(base, n) /\ next \in Numerals
    BY AfterIsNumeral DEF Dealt
<1>5. After(next, b) = After(base, n + b)
    BY <1>1, <1>4, AfterParts
<1>6. fresh \in Seq(Numerals) /\ Len(fresh) = b /\ \A k \in 1..b : fresh[k] = After(next, k - 1)
    BY <1>1, <1>4, FreshAreNumerals DEF Fresh
<1>7. \A k \in 1..b : fresh[k] = After(base, n + k - 1)
    <2>. SUFFICES ASSUME NEW k \in 1..b PROVE fresh[k] = After(base, n + k - 1)
        OBVIOUS
    <2>1. k - 1 \in Nat /\ n + (k - 1) = n + k - 1
        BY <1>1
    <2>2. After(After(base, n), k - 1) = After(base, n + (k - 1))
        BY <2>1, AfterParts
    <2>. QED
        BY <1>4, <1>6, <2>1, <2>2
<1>. HIDE DEF fresh, b
<1>8. /\ Len(pool \o fresh) = Len(pool) + b /\ Len(pool) \in Nat
      /\ \A k \in 1..b : (pool \o fresh)[Len(pool) + k] = fresh[k]
    BY <1>1, <1>6
<1>9. n + b - i = b /\ n + b - b = n /\ Len(pool) + b - b = Len(pool)
    BY <1>1, <1>2, <1>8
<1>10. \A j \in GivenIn(nums) : \E x \in 0..(n + b - 1) : x < n + b - b /\ nums[j] = After(base, x)
    <2>1. \A j \in GivenIn(nums) : \E x \in 0..(n - 1) : nums[j] = After(base, x)
        BY DEF Dealt
    <2>2. \A x \in 0..(n - 1) : x \in 0..(n + b - 1) /\ x < n + b - b
        BY <1>1
    <2>. QED
        BY <2>1, <2>2
<1>11. (n + b) - i \in 0..b /\ (n + b) - i <= Len(pool \o fresh)
    <2>1. b <= Len(pool) + b /\ b \in 0..b
        BY <1>1, <1>8
    <2>2. (n + b) - i = b
        BY <1>1, <1>2
    <2>. QED
        BY <1>8, <2>1, <2>2, Zenon
<1>12. ASSUME NEW k \in 1..((n + b) - i)
       PROVE  (pool \o fresh)[Len(pool \o fresh) - ((n + b) - i) + k] = After(base, (n + b) - b + k - 1)
    <2>1. k \in 1..b
        BY <1>1, <1>9
    <2>2. \A l \in Nat : l + b - b + k = l + k
        BY <1>1, <2>1
    <2>3. Len(pool \o fresh) - ((n + b) - i) + k = Len(pool) + k
        BY <1>1, <1>8, <1>9, <2>1, <2>2
    <2>4. (n + b) - b + k - 1 = n + k - 1
        BY <1>1, <2>1
    <2>. QED
        BY <1>7, <1>8, <2>1, <2>3, <2>4
<1>13. Distinct(nums)
    BY DEF Dealt
<1>14. Dealt(base, n + b, After(next, b), i, pool \o fresh, nums)
    <2>. DEFINE n2 == n + b
                pool2 == pool \o fresh
                next2 == After(next, b)
    <2>1. /\ n2 % b = 0 /\ n2 - i \in 0..b /\ n2 - i <= Len(pool2)
          /\ next2 = After(base, n2)
          /\ \A k \in 1..(n2 - i) : pool2[Len(pool2) - (n2 - i) + k] = After(base, n2 - b + k - 1)
          /\ \A j \in GivenIn(nums) : \E x \in 0..(n2 - 1) : x < n2 - b /\ nums[j] = After(base, x)
        <3>1. n2 % b = 0
            BY <1>3
        <3>2. n2 - i \in 0..b /\ n2 - i <= Len(pool2)
            BY <1>11
        <3>3. next2 = After(base, n2)
            BY <1>5
        <3>4. \A k \in 1..(n2 - i) : pool2[Len(pool2) - (n2 - i) + k] = After(base, n2 - b + k - 1)
            BY <1>12
        <3>5. \A j \in GivenIn(nums) : \E x \in 0..(n2 - 1) : x < n2 - b /\ nums[j] = After(base, x)
            <4>. SUFFICES ASSUME NEW j \in GivenIn(nums)
                          PROVE  \E x \in 0..(n2 - 1) : x < n2 - b /\ nums[j] = After(base, x)
                OBVIOUS
            <4>1. PICK x \in 0..(n + b - 1) : x < n + b - b /\ nums[j] = After(base, x)
                BY <1>10
            <4>2. x \in 0..(n2 - 1) /\ x < n2 - b
                BY <1>1, <4>1
            <4>. QED
                BY <4>1, <4>2
        <3>. QED
            BY <3>1, <3>2, <3>3, <3>4, <3>5
    <2>2. Dealt(base, n2, next2, i, pool2, nums)
        <3>. HIDE DEF n2, pool2, next2
        <3>. QED
            BY <1>13, <2>1 DEF Dealt, b
    <2>. QED
        BY <2>2
<1>15. n + b \in Nat
    BY <1>1
<1>. QED
    BY <1>9, <1>14, <1>15 DEF b, fresh

LEMMA DropLast ==
    ASSUME NEW S, NEW s \in Seq(S), s # <<>>
    PROVE  /\ Len(s) \in Nat \ {0} /\ Len(Front(s)) = Len(s) - 1
           /\ \A k \in 1..(Len(s) - 1) : Front(s)[k] = s[k]
           /\ Last(s) = s[Len(s)]
<1>1. Len(s) \in Nat \ {0}
    OBVIOUS
<1>2. Front(s) \in Seq(S) /\ Len(Front(s)) + 1 = Len(s)
    BY Drawn
<1>3. Len(Front(s)) = Len(s) - 1
    <2>1. Len(Front(s)) \in Nat
        BY <1>2, LenProperties
    <2>. QED
        BY <1>1, <1>2, <2>1
<1>4. ASSUME NEW k \in 1..(Len(s) - 1) PROVE Front(s)[k] = s[k]
    <2>1. \A j \in 1..(Len(s) - 1) : s[j] \in S
        BY <1>1, ElementOfSeq
    <2>2. \A j \in 1..(Len(s) - 1 - 1 + 1) : SubSeq(s, 1, Len(s) - 1)[j] = s[1 + j - 1]
        <3>1. Len(s) - 1 \in Int
            BY <1>1
        <3>. QED
            BY <2>1, <3>1, SubSeqProperties
    <2>3. k \in 1..(Len(s) - 1 - 1 + 1) /\ 1 + k - 1 = k
        BY <1>1
    <2>. QED
        BY <2>2, <2>3 DEF Front
<1>. QED
    BY <1>1, <1>3, <1>4 DEF Last

\* The row gets the number on top of the pool: no row of the file has it.
LEMMA DealRow ==
    ASSUME Types, OwnNumbers, NEW base \in Numerals, NEW n \in Nat, NEW i \in Nat,
           NEW next, NEW pool \in Seq(Numerals), NEW nums \in Seq(Numerals \union {Blank, 0}),
           Dealt(base, n, next, i, pool, nums), n - i > 0, n <= col.high - col.low + 1
    PROVE  /\ pool # <<>>
           /\ Dealt(base, n, next, i + 1, Front(pool), Append(nums, Last(pool)))
<1>. DEFINE b == col.rowsInBatch
            v == Last(pool)
            y == n - b + (n - i) - 1
            rest == Front(pool)
            more == Append(nums, v)
<1>1. b \in Nat \ {0} /\ col.low \in Nat /\ col.high \in Nat /\ col.low <= col.high
    BY OwnParts
<1>2. n % b = 0 /\ n - i \in 0..b /\ n - i <= Len(pool) /\ next = After(base, n) /\ Distinct(nums)
    BY DEF Dealt
<1>3. n >= b
    BY <1>1, <1>2, WholeNext
<1>4. Len(pool) \in Nat
    BY LenProperties
<1>5. pool # <<>>
    BY <1>2, <1>4
<1>6. /\ Len(rest) = Len(pool) - 1 /\ Len(pool) \in Nat \ {0}
      /\ \A k \in 1..(Len(pool) - 1) : rest[k] = pool[k]
      /\ v = pool[Len(pool)]
    BY <1>5, DropLast
<1>7. \A k \in 1..(n - i) : pool[Len(pool) - (n - i) + k] = After(base, n - b + k - 1)
    BY DEF Dealt
<1>8. v = After(base, y)
    <2>1. n - i \in 1..(n - i) /\ Len(pool) - (n - i) + (n - i) = Len(pool)
          /\ n - b + (n - i) - 1 = y
        BY <1>1, <1>4
    <2>. QED
        BY <1>6, <1>7, <2>1
<1>9. y \in 0..(n - 1)
    BY <1>1, <1>2, <1>3, SMTT(30)
<1>10. \A j \in GivenIn(nums) : \E x \in 0..(n - 1) :
          /\ x < n - b \/ x >= n - b + (n - i)
          /\ nums[j] = After(base, x)
    BY DEF Dealt
<1>11. v \in Nat /\ v # Blank
    <2>1. v \in Numerals
        BY <1>5, Drawn
    <2>. QED
        BY <1>1, <2>1 DEF Numerals, Blank
<1>12. /\ GivenIn(more) = GivenIn(nums) \union {Len(nums) + 1}
       /\ more[Len(nums) + 1] = v /\ Len(nums) + 1 \notin GivenIn(nums)
       /\ \A j \in GivenIn(nums) : more[j] = nums[j]
    BY <1>11 DEF GivenIn
<1>. HIDE DEF v, y, rest, more, b
<1>13. \A x \in 0..(n - 1) : x < n - b \/ x >= n - b + (n - i) => x # y
    BY <1>1 DEF y
<1>14. \A j \in GivenIn(nums) : nums[j] # v
    <2>. SUFFICES ASSUME NEW j \in GivenIn(nums), nums[j] = v PROVE FALSE
        OBVIOUS
    <2>1. PICK x \in 0..(n - 1) : /\ x < n - b \/ x >= n - b + (n - i)
                                  /\ nums[j] = After(base, x)
        BY <1>10
    <2>2. x \in 0..(col.high - col.low) /\ y \in 0..(col.high - col.low)
        BY <1>1, <1>9
    <2>3. x = y
        BY <1>1, <1>8, <2>1, <2>2, AfterDiffers
    <2>. QED
        BY <1>13, <2>1, <2>3
<1>15. Distinct(more)
    BY <1>2, <1>12, <1>14 DEF Distinct
<1>16. n - (i + 1) \in 0..b /\ n - (i + 1) <= Len(rest)
    BY <1>1, <1>2, <1>4, <1>6
<1>17. ASSUME NEW k \in 1..(n - (i + 1))
       PROVE  rest[Len(rest) - (n - (i + 1)) + k] = After(base, n - b + k - 1)
    <2>. DEFINE l == Len(pool)
                d == n - i
    <2>1. l \in Nat \ {0} /\ Len(rest) = l - 1 /\ d \in Nat /\ d <= l /\ k \in 1..(d - 1)
          /\ n - (i + 1) = d - 1
        BY <1>1, <1>2, <1>4, <1>6
    <2>2. \A j \in 1..(l - 1) : rest[j] = pool[j]
        BY <1>6
    <2>3. \A j \in 1..d : pool[l - d + j] = After(base, n - b + j - 1)
        BY <1>7
    <2>. HIDE DEF l, d
    <2>4. k \in 1..d /\ l - 1 - (d - 1) + k = l - d + k /\ l - d + k \in 1..(l - 1)
        BY <2>1
    <2>5. rest[l - 1 - (d - 1) + k] = After(base, n - b + k - 1)
        BY <2>2, <2>3, <2>4
    <2>. QED
        BY <2>1, <2>5
<1>18. ASSUME NEW j \in GivenIn(more)
       PROVE  \E x \in 0..(n - 1) : /\ x < n - b \/ x >= n - b + (n - (i + 1))
                                    /\ more[j] = After(base, x)
    <2>1. CASE j \in GivenIn(nums)
        <3>1. PICK x \in 0..(n - 1) : /\ x < n - b \/ x >= n - b + (n - i)
                                      /\ nums[j] = After(base, x)
            BY <1>10, <2>1
        <3>2. x < n - b \/ x >= n - b + (n - (i + 1))
            BY <1>1, <3>1
        <3>. QED
            BY <1>12, <2>1, <3>1, <3>2
    <2>2. CASE j = Len(nums) + 1
        <3>1. y >= n - b + (n - (i + 1))
            BY <1>1 DEF y
        <3>. QED
            BY <1>8, <1>9, <1>12, <2>2, <3>1
    <2>. QED
        BY <1>12, <2>1, <2>2
<1>19. Dealt(base, n, next, i + 1, rest, more)
    BY <1>2, <1>15, <1>16, <1>17, <1>18 DEF Dealt, b
<1>. QED
    BY <1>5, <1>19 DEF rest, more, v

\* The numbers as a row finds them that gets one.
LEMMA DealtAt ==
    ASSUME IInv, DealtOK, OwnNumbers, Draws
    PROVE  /\ UniqAt \in Seq(Numerals) /\ UniqAt # <<>> /\ DupAt(1) = <<>> /\ DupAt(2) = <<>>
           /\ RowIdxAt \in Nat /\ RowIdxAt <= row
           /\ \E base \in Numerals, n \in Nat :
                /\ n - (RowIdxAt + 1) < col.rowsInBatch
                /\ Dealt(base, n, FreshAt, RowIdxAt + 1, Front(UniqAt), Append(numbers, Last(UniqAt)))
<1>. DEFINE b == col.rowsInBatch
<1>1. Types /\ b \in Nat \ {0} /\ UniqRows = b /\ DupRows = 0 /\ uniq \in Seq(Numerals)
      /\ numbers \in Seq(Numerals \union {Blank, 0}) /\ row \in Nat /\ rowIdx \in Nat
      /\ row < col.rows /\ col.rows \in Nat
    <2>1. Types
        BY DEF IInv
    <2>2. b \in Nat \ {0} /\ UniqRows = b /\ DupRows = 0
        BY <2>1, OwnParts
    <2>. QED
        BY <2>1, <2>2, HeldTypes DEF Types, Draws
<1>2. LastAt \in Numerals /\ UniqAt \in Seq(Numerals)
    BY <1>1, PoolsAt
<1>3. RowIdxAt \in Nat /\ RowIdxAt <= row
    BY <1>1 DEF RowIdxAt, DealtOK
<1>4. DupAt(1) = <<>> /\ DupAt(2) = <<>>
    <2>1. dup[1] = <<>> /\ dup[2] = <<>>
        BY DEF DealtOK
    <2>2. DupNumbers(LastAt, UniqRows, DupRows) = <<>>
        <3>1. After(LastAt, UniqRows) \in Numerals
            BY <1>1, <1>2, AfterIsNumeral
        <3>2. Fresh(After(LastAt, UniqRows), 0) \in Seq(Numerals)
              /\ Len(Fresh(After(LastAt, UniqRows), 0)) = 0
            BY <1>1, <3>1, FreshAreNumerals
        <3>. QED
            BY <1>1, <3>2, EmptySeq DEF DupNumbers
    <2>3. <<>> \o <<>> = <<>>
        OBVIOUS
    <2>. QED
        BY <2>1, <2>2, <2>3 DEF DupAt
<1>5. \E base \in Numerals, n \in Nat :
         n - RowIdxAt < b /\ Dealt(base, n, LastAt, RowIdxAt, uniq, numbers)
    <2>1. CASE row = 0
        <3>1. numbers = <<>> /\ RowIdxAt = 0
            BY <2>1 DEF DealtOK, RowIdxAt
        <3>2. 0 % b = 0
            BY <1>1, ModUnique, (b * 0) + 0 = 0
        <3>3. LastAt = After(LastAt, 0)
            BY <1>1, <1>2, AfterParts
        <3>4. GivenIn(<<>>) = {}
            BY DEF GivenIn
        <3>5. Len(uniq) \in Nat
            BY <1>1, LenProperties
        <3>6. Dealt(LastAt, 0, LastAt, 0, uniq, <<>>)
            BY <1>1, <3>2, <3>3, <3>4, <3>5 DEF Dealt, Distinct
        <3>. QED
            BY <1>1, <1>2, <3>1, <3>6
    <2>2. CASE row # 0
        <3>1. row > 0 /\ LastAt = last /\ RowIdxAt = rowIdx
            BY <1>1, <2>2 DEF LastAt, RowIdxAt
        <3>. QED
            BY <3>1 DEF DealtOK
    <2>. QED
        BY <2>1, <2>2
<1>6. PICK base \in Numerals, n \in Nat :
         n - RowIdxAt < b /\ Dealt(base, n, LastAt, RowIdxAt, uniq, numbers)
    BY <1>5
<1>7. ASSUME NEW m \in Nat, Dealt(base, m, FreshAt, RowIdxAt, UniqAt, numbers),
             m - RowIdxAt > 0, m - RowIdxAt <= b
      PROVE  /\ UniqAt # <<>>
             /\ m - (RowIdxAt + 1) < b
             /\ Dealt(base, m, FreshAt, RowIdxAt + 1, Front(UniqAt), Append(numbers, Last(UniqAt)))
    <2>1. m % b = 0
        BY <1>7 DEF Dealt
    <2>2. m <= col.rows + b - 1
        BY <1>1, <1>3, <1>7
    <2>3. m <= col.high - col.low + 1
        BY <1>1, <2>1, <2>2, DealtFit
    <2>4. m - (RowIdxAt + 1) < b
        BY <1>1, <1>3, <1>7
    <2>. QED
        BY <1>1, <1>2, <1>3, <1>7, <2>3, <2>4, DealRow
<1>8. CASE BatchBegins
    <2>1. RowIdxAt % b = 0
        BY <1>8 DEF BatchBegins
    <2>2. /\ n + b \in Nat /\ n + b - RowIdxAt = b
          /\ Dealt(base, n + b, After(LastAt, b), RowIdxAt, uniq \o Fresh(LastAt, b), numbers)
        BY <1>1, <1>3, <1>6, <2>1, DealBatch
    <2>3. FreshAt = After(LastAt, b) /\ UniqAt = uniq \o Fresh(LastAt, b)
        <3>1. b + 0 = b
            BY <1>1
        <3>. QED
            BY <1>1, <1>8, <3>1 DEF FreshAt, UniqAt
    <2>4. n + b - RowIdxAt > 0 /\ n + b - RowIdxAt <= b
        BY <1>1, <2>2
    <2>. DEFINE m == n + b
    <2>5. m \in Nat /\ m - RowIdxAt > 0 /\ m - RowIdxAt <= b
        BY <1>1, <1>3, <2>2, <2>4
    <2>6. Dealt(base, m, FreshAt, RowIdxAt, UniqAt, numbers)
        BY <2>2, <2>3
    <2>. HIDE DEF m
    <2>. QED
        BY <1>2, <1>3, <1>4, <1>6, <1>7, <2>5, <2>6
<1>9. CASE ~BatchBegins
    <2>1. FreshAt = LastAt /\ UniqAt = uniq
        BY <1>9 DEF FreshAt, UniqAt
    <2>2. n # RowIdxAt /\ n - RowIdxAt \in 0..b
        BY <1>6, <1>9 DEF BatchBegins, Dealt
    <2>3. n - RowIdxAt > 0 /\ n - RowIdxAt <= b
        BY <1>1, <1>3, <2>2
    <2>. QED
        BY <1>2, <1>3, <1>4, <1>6, <1>7, <2>1, <2>3
<1>. QED
    BY <1>8, <1>9

LEMMA StepDealt ==
    ASSUME IInv, DealtOK, [Next]_vars
    PROVE  DealtOK'
<1>. USE DEF pools
<1>1. OwnNumbers' <=> OwnNumbers
    BY DEF Next, Calculate, TakeUniq, TakeDup, TakeNothing, Skip, Die, Give, NextFile, vars,
           OwnNumbers, EnoughNumbers, Survives, FreshPerFile, UniqRows, DupRows
<1>. SUFFICES ASSUME OwnNumbers PROVE DealtOK'
    BY <1>1 DEF DealtOK
<1>2. Types
    BY DEF IInv
<1>3. CASE TakeUniq
    <2>1. Draws /\ col' = col /\ row' = row + 1 /\ rowIdx' = RowIdxAt + 1 /\ last' = FreshAt
          /\ uniq' = Front(UniqAt) /\ dup' = <<DupAt(1), DupAt(2)>>
          /\ numbers' = Append(numbers, Last(UniqAt))
        BY <1>3 DEF TakeUniq, Give
    <2>2. PICK base \in Numerals, n \in Nat :
             /\ n - rowIdx' < col.rowsInBatch
             /\ Dealt(base, n, last', rowIdx', uniq', numbers')
        BY <2>1, DealtAt
    <2>3. dup' = << <<>>, <<>> >> /\ rowIdx' <= row' /\ row' # 0
        <3>1. RowIdxAt \in Nat /\ RowIdxAt <= row /\ row \in Nat /\ DupAt(1) = <<>> /\ DupAt(2) = <<>>
            BY <1>2, <2>1, DealtAt, HeldTypes
        <3>. QED
            BY <2>1, <3>1
    <2>4. base \in Numerals' /\ Dealt(base, n, last, rowIdx, uniq, numbers)'
        BY <2>1, <2>2 DEF Numerals, Dealt, After, Distinct, GivenIn
    <2>. QED
        BY <2>1, <2>2, <2>3, <2>4 DEF DealtOK
<1>4. CASE TakeDup \/ TakeNothing
    <2>1. Draws
        BY <1>4 DEF TakeDup, TakeNothing
    <2>2. UniqAt # <<>> /\ col.percentInBatch = 100
        BY <2>1, DealtAt DEF OwnNumbers
    <2>. QED
        BY <1>4, <2>2 DEF TakeDup, TakeNothing, PrefersDup
<1>5. CASE Skip
    <2>1. /\ UNCHANGED <<col, uniq, dup>> /\ row' = row + 1 /\ rowIdx' = RowIdxAt /\ last' = LastAt
          /\ numbers' = Append(numbers, Blank)
        BY <1>5 DEF Skip
    <2>2. row \in Nat /\ col.rowsInBatch \in Nat \ {0} /\ LastAt \in Numerals /\ Len(uniq) \in Nat
          /\ numbers \in Seq(Numerals \union {Blank, 0}) /\ rowIdx \in Nat
        BY <1>2, OwnParts, HeldTypes DEF Types, LastAt, Numerals, Column
    <2>3. GivenIn(numbers') = GivenIn(numbers) /\ \A j \in GivenIn(numbers) : numbers'[j] = numbers[j]
        BY <2>1, <2>2 DEF GivenIn
    <2>4. CASE row = 0
        <3>1. numbers = <<>> /\ rowIdx' = 0
            BY <2>1, <2>4 DEF DealtOK, RowIdxAt
        <3>2. 0 % col.rowsInBatch = 0
            BY <2>2, ModUnique, (col.rowsInBatch * 0) + 0 = 0
        <3>3. LastAt = After(LastAt, 0)
            BY <1>2, <2>2, AfterParts
        <3>4. GivenIn(numbers') = {}
            BY <2>3, <3>1 DEF GivenIn
        <3>5. Dealt(LastAt, 0, LastAt, 0, uniq, numbers')
            BY <2>2, <3>2, <3>3, <3>4 DEF Dealt, Distinct
        <3>6. PICK base \in Numerals : base = LastAt
            BY <2>2
        <3>7. Dealt(base, 0, last', rowIdx', uniq', numbers')
            BY <2>1, <3>1, <3>5, <3>6
        <3>8. base \in Numerals' /\ Dealt(base, 0, last, rowIdx, uniq, numbers)'
            BY <2>1, <3>7 DEF Numerals, Dealt, After, Distinct, GivenIn
        <3>9. 0 - rowIdx' < col'.rowsInBatch /\ rowIdx' <= row' /\ row' # 0
            BY <2>1, <2>2, <2>4, <3>1
        <3>. QED
            BY <2>1, <3>8, <3>9 DEF DealtOK
    <2>5. CASE row # 0
        <3>1. row > 0 /\ rowIdx' = rowIdx /\ last' = last /\ row' > 0 /\ rowIdx <= row'
            BY <2>1, <2>2, <2>5 DEF RowIdxAt, LastAt, DealtOK
        <3>2. PICK base \in Numerals, n \in Nat :
                 n - rowIdx < col.rowsInBatch /\ Dealt(base, n, last, rowIdx, uniq, numbers)
            BY <3>1 DEF DealtOK
        <3>3. Dealt(base, n, last, rowIdx, uniq, numbers')
            BY <2>3, <3>2 DEF Dealt, Distinct
        <3>4. base \in Numerals' /\ Dealt(base, n, last, rowIdx, uniq, numbers)'
            BY <2>1, <3>1, <3>2, <3>3 DEF Numerals, Dealt, After, Distinct, GivenIn
        <3>. QED
            BY <2>1, <3>1, <3>2, <3>4 DEF DealtOK
    <2>. QED
        BY <2>4, <2>5
<1>6. CASE NextFile
    BY <1>6 DEF NextFile, DealtOK
<1>7. CASE Die \/ UNCHANGED vars
    <2>1. UNCHANGED <<col, row, last, rowIdx, uniq, dup, numbers>>
        BY <1>7 DEF Die, vars
    <2>2. Numerals' = Numerals /\ \A base, n : Dealt(base, n, last, rowIdx, uniq, numbers)'
                                    <=> Dealt(base, n, last, rowIdx, uniq, numbers)
        BY <2>1 DEF Numerals, Dealt, After, Distinct, GivenIn
    <2>. QED
        BY <2>1, <2>2 DEF DealtOK
<1>. QED
    BY <1>3, <1>4, <1>5, <1>6, <1>7 DEF Next, Calculate

(* At 100 percent in batch no two rows of a file have the same number: the *)
(* pool gives out the batches of the file from the top, and never reaches  *)
(* what an earlier file left under them.                                   *)
THEOREM NumbersUnique == Spec => []UniqueInFile
<1>1. Init => DealtOK
    <2>. SUFFICES ASSUME Init PROVE DealtOK
        OBVIOUS
    <2>1. row = 0 /\ numbers = <<>> /\ dup = << <<>>, <<>> >> /\ ~(row > 0)
        BY DEF Init
    <2>. QED
        BY <2>1 DEF DealtOK
<1>2. IInv /\ DealtOK => UniqueInFile
    <2>. SUFFICES ASSUME IInv, DealtOK, OwnNumbers PROVE Distinct(numbers)
        BY DEF UniqueInFile, OwnNumbers, Distinct, GivenIn, Given
    <2>1. row \in Nat
        BY HeldTypes DEF IInv
    <2>2. CASE row = 0
        BY <2>2 DEF DealtOK, Distinct, GivenIn
    <2>3. CASE row > 0
        BY <2>3 DEF DealtOK, Dealt
    <2>. QED
        BY <2>1, <2>2, <2>3
<1>3. IInv /\ DealtOK /\ [Next]_vars => (IInv /\ DealtOK)'
    BY TakeUniqStep, TakeDupStep, TakeNothingStep, SkipStep, OtherStep, StepDealt DEF Next, Calculate
<1>. QED
    BY <1>1, <1>2, <1>3, InitIInv, PTL DEF Spec

-----------------------------------------------------------------------------
(* The share of numbers in whole batches.                                  *)

WholeShare == WholeBatches /\ EvenShare /\ EnoughNumbers

PerBatch == UniqRows + DupRows

(* A batch has a place for each of its rows: one for each number of        *)
(* uniqPool, and two for each of the dupPools.  The number of a place.     *)
Rank(x) == IF x < PerBatch THEN x ELSE x - DupRows

NumberOf(base, b, x) == After(base, b * PerBatch + Rank(x))

BatchOf(i) == (i - 1) \div col.rowsInBatch

(* Each row has the number of a place of its batch, no two rows the same   *)
(* place, and all places of batches 0 to c are taken but those left of c.  *)
RowsOK(base, c, left, nums, g) ==
    /\ g \in [1..Len(nums) -> 0..(col.rowsInBatch - 1)]
    /\ \A i \in 1..Len(nums) :
         /\ BatchOf(i) \in 0..c
         /\ nums[i] = NumberOf(base, BatchOf(i), g[i])
         /\ BatchOf(i) = c => g[i] \notin left
    /\ \A i, j \in 1..Len(nums) : BatchOf(i) = BatchOf(j) /\ g[i] = g[j] => i = j
    /\ \A b \in 0..c, x \in 0..(col.rowsInBatch - 1) :
         b < c \/ x \notin left => \E i \in 1..Len(nums) : BatchOf(i) = b /\ g[i] = x

LEMMA WholeParts ==
    ASSUME Types, WholeShare
    PROVE  /\ col.rowsInBatch \in Nat \ {0} /\ UniqRows \in Nat /\ DupRows \in Nat
           /\ UniqRows + DupRows + DupRows = col.rowsInBatch
           /\ PerBatch \in Nat \ {0} /\ PerBatch = UniqRows + DupRows
           /\ Survives /\ col.percent = 100 /\ col.rows % col.rowsInBatch = 0
           /\ PerBatch * (col.rows \div col.rowsInBatch) <= col.high - col.low + 1
           /\ col.low \in Nat /\ col.high \in Nat /\ col.low <= col.high
<1>1. /\ col.rowsInBatch \in Nat \ {0} /\ UniqRows \in Nat /\ DupRows \in Nat
      /\ UniqRows + DupRows + DupRows = col.rowsInBatch /\ Survives
    BY RowsOfBatch DEF WholeShare, WholeBatches
<1>2. PerBatch \in Nat \ {0} /\ PerBatch = UniqRows + DupRows
    BY <1>1 DEF PerBatch
<1>3. /\ col.percent = 100 /\ col.rows % col.rowsInBatch = 0
      /\ col.low \in Nat /\ col.high \in Nat /\ col.rows \in Nat \ {0}
    BY DEF WholeShare, WholeBatches, Types, Column
<1>. DEFINE m == col.rowsInBatch
            n == col.rows
            q == n \div m
            p == (n + m - 1) \div m
<1>4. m \in Nat \ {0} /\ n \in Nat \ {0} /\ n % m = 0
    BY <1>1, <1>3
<1>5. q \in Nat /\ q # 0 /\ p = q
    <2>. HIDE DEF m, n
    <2>1. q \in Nat /\ n = m * q + (n % m)
        BY <1>4, DivMod
    <2>. HIDE DEF q
    <2>2. m * q \in Nat /\ n = m * q
        BY <1>4, <2>1
    <2>3. n + m - 1 = m * q + (m - 1) /\ n + m - 1 \in Nat /\ m - 1 \in 0..(m - 1)
        BY <1>4, <2>2
    <2>4. (m * q + (m - 1)) % m = m - 1
        BY <1>4, <2>1, <2>3, ModUnique
    <2>5. p \in Nat /\ n + m - 1 = m * p + ((n + m - 1) % m)
        BY <1>4, <2>3, DivMod
    <2>. HIDE DEF p
    <2>6. m * p \in Nat /\ m * p = m * q
        BY <1>4, <2>2, <2>3, <2>4, <2>5
    <2>7. p = q
        BY <1>4, <2>1, <2>5, <2>6, MultiplesApart
    <2>8. q # 0
        BY <1>4, <2>1, <2>2
    <2>. QED
        BY <2>1, <2>7, <2>8
<1>6. PerBatch * q <= col.high - col.low + 1
    BY <1>2, <1>5 DEF WholeShare, EnoughNumbers, FreshPerFile, PerBatch
<1>7. col.low <= col.high
    <2>. HIDE DEF q
    <2>1. PerBatch * q >= PerBatch /\ PerBatch * q \in Nat
        BY <1>2, <1>5, Product
    <2>. QED
        BY <1>2, <1>3, <1>6, <2>1
<1>. QED
    BY <1>1, <1>2, <1>3, <1>6, <1>7

\* A place has one of the numbers of its batch.
LEMMA RankParts ==
    ASSUME Types, WholeShare, NEW x \in 0..(col.rowsInBatch - 1)
    PROVE  /\ Rank(x) \in 0..(PerBatch - 1)
           /\ x = Rank(x) \/ x = Rank(x) + DupRows
           /\ x < PerBatch => Rank(x) = x
BY WholeParts DEF Rank

\* A row takes a place that is left.
LEMMA RowPlaced ==
    ASSUME Types, WholeShare, NEW base, NEW c \in Nat, NEW left \in SUBSET (0..(col.rowsInBatch - 1)),
           NEW S, NEW nums \in Seq(S), NEW g, RowsOK(base, c, left, nums, g),
           NEW x \in left, NEW v \in S, v = NumberOf(base, c, x),
           BatchOf(Len(nums) + 1) = c
    PROVE  \E h : RowsOK(base, c, left \ {x}, Append(nums, v), h)
<1>. DEFINE n == Len(nums)
            m == col.rowsInBatch
            more == Append(nums, v)
            h == [i \in 1..(n + 1) |-> IF i = n + 1 THEN x ELSE g[i]]
<1>1. /\ n \in Nat /\ Len(more) = n + 1 /\ more[n + 1] = v
      /\ \A i \in 1..n : more[i] = nums[i]
    OBVIOUS
<1>2. /\ g \in [1..n -> 0..(m - 1)]
      /\ \A i \in 1..n : /\ BatchOf(i) \in 0..c
                         /\ nums[i] = NumberOf(base, BatchOf(i), g[i])
                         /\ BatchOf(i) = c => g[i] \notin left
      /\ \A i, j \in 1..n : BatchOf(i) = BatchOf(j) /\ g[i] = g[j] => i = j
      /\ \A b \in 0..c, y \in 0..(m - 1) :
           b < c \/ y \notin left => \E i \in 1..n : BatchOf(i) = b /\ g[i] = y
    BY DEF RowsOK
<1>. HIDE DEF n, more
<1>3. /\ h \in [1..(n + 1) -> 0..(m - 1)] /\ h[n + 1] = x /\ \A i \in 1..n : h[i] = g[i]
      /\ n + 1 \in 1..(n + 1) /\ \A i \in 1..(n + 1) : i = n + 1 \/ i \in 1..n
      /\ \A i \in 1..n : i \in 1..(n + 1) /\ i # n + 1
    BY <1>1, <1>2
<1>. HIDE DEF h
<1>4. BatchOf(n + 1) = c /\ c \in 0..c
    BY DEF n
<1>5. ASSUME NEW i \in 1..(n + 1)
      PROVE  /\ BatchOf(i) \in 0..c
             /\ more[i] = NumberOf(base, BatchOf(i), h[i])
             /\ BatchOf(i) = c => h[i] \notin left \ {x}
    <2>1. CASE i = n + 1
        BY <1>1, <1>3, <1>4, <2>1
    <2>2. CASE i \in 1..n
        BY <1>1, <1>2, <1>3, <2>2
    <2>. QED
        BY <1>3, <2>1, <2>2
<1>6. ASSUME NEW i \in 1..(n + 1), NEW j \in 1..(n + 1), BatchOf(i) = BatchOf(j), h[i] = h[j]
      PROVE  i = j
    <2>1. CASE i \in 1..n /\ j \in 1..n
        BY <1>2, <1>3, <1>6, <2>1
    <2>2. CASE i = n + 1 /\ j \in 1..n
        BY <1>2, <1>3, <1>4, <1>6, <2>2
    <2>3. CASE j = n + 1 /\ i \in 1..n
        BY <1>2, <1>3, <1>4, <1>6, <2>3
    <2>. QED
        BY <1>3, <2>1, <2>2, <2>3
<1>7. ASSUME NEW b \in 0..c, NEW y \in 0..(m - 1), b < c \/ y \notin left \ {x}
      PROVE  \E i \in 1..(n + 1) : BatchOf(i) = b /\ h[i] = y
    <2>1. CASE b = c /\ y = x
        BY <1>3, <1>4, <2>1
    <2>2. CASE ~(b = c /\ y = x)
        <3>1. b < c \/ y \notin left
            BY <1>7, <2>2
        <3>2. PICK i \in 1..n : BatchOf(i) = b /\ g[i] = y
            BY <1>2, <3>1
        <3>. QED
            BY <1>3, <3>2
    <2>. QED
        BY <2>1, <2>2
<1>8. RowsOK(base, c, left \ {x}, more, h)
    <2>1. h \in [1..Len(more) -> 0..(m - 1)]
        BY <1>1, <1>3
    <2>2. \A i \in 1..Len(more) :
             /\ BatchOf(i) \in 0..c
             /\ more[i] = NumberOf(base, BatchOf(i), h[i])
             /\ BatchOf(i) = c => h[i] \notin left \ {x}
        BY <1>1, <1>5
    <2>3. \A i, j \in 1..Len(more) : BatchOf(i) = BatchOf(j) /\ h[i] = h[j] => i = j
        BY <1>1, <1>6
    <2>4. \A b \in 0..c, y \in 0..(m - 1) :
             b < c \/ y \notin left \ {x} => \E i \in 1..Len(more) : BatchOf(i) = b /\ h[i] = y
        <3>. TAKE b \in 0..c, y \in 0..(m - 1)
        <3>. HAVE b < c \/ y \notin left \ {x}
        <3>1. \E i \in 1..(n + 1) : BatchOf(i) = b /\ h[i] = y
            BY <1>7
        <3>. QED
            BY <1>1, <3>1
    <2>. QED
        BY <2>1, <2>2, <2>3, <2>4, Zenon DEF RowsOK, m
<1>. QED
    BY <1>8 DEF more

\* A batch begins when all places of the one before are taken.
LEMMA RowsOpened ==
    ASSUME Types, WholeShare, NEW base, NEW nums
    PROVE  /\ \A c \in Nat : \A g : RowsOK(base, c, {}, nums, g)
                                    => RowsOK(base, c + 1, 0..(col.rowsInBatch - 1), nums, g)
           /\ RowsOK(base, 0, 0..(col.rowsInBatch - 1), <<>>, <<>>)
<1>1. ASSUME NEW c \in Nat, NEW g, RowsOK(base, c, {}, nums, g)
      PROVE  RowsOK(base, c + 1, 0..(col.rowsInBatch - 1), nums, g)
    <2>1. \A b \in 0..c : b \in 0..(c + 1) /\ b # c + 1
        OBVIOUS
    <2>2. \A b \in 0..(c + 1) : b < c + 1 => b \in 0..c
        OBVIOUS
    <2>. QED
        BY <1>1, <2>1, <2>2 DEF RowsOK
<1>2. RowsOK(base, 0, 0..(col.rowsInBatch - 1), <<>>, <<>>)
    BY DEF RowsOK
<1>. QED
    BY <1>1, <1>2

(* The pools have the numbers of the places that are left: uniqPool its    *)
(* first ones, the dupPools the first of the others, the second of them    *)
(* all or none.                                                            *)
PoolsOK(base, c, next, pool, d) ==
    /\ next = After(base, (c + 1) * PerBatch)
    /\ Len(pool) <= UniqRows /\ Len(d[1]) <= DupRows /\ Len(d[2]) \in {0, DupRows}
    /\ \A k \in 1..Len(pool) : pool[k] = After(base, c * PerBatch + (k - 1))
    /\ \A p \in 1..2 : \A k \in 1..Len(d[p]) : d[p][k] = After(base, c * PerBatch + (UniqRows + k - 1))

LeftOf(pool, d) ==
    (0..(Len(pool) - 1)) \union (UniqRows..(UniqRows + Len(d[1]) + Len(d[2]) - 1))

\* The number v is that of a place that is left, and is no longer left in the pools p and e.
Drops(base, c, pool, d, p, e, v) ==
    \E x \in LeftOf(pool, d) : v = NumberOf(base, c, x) /\ LeftOf(p, e) = LeftOf(pool, d) \ {x}

\* The place whose number is on top of uniqPool, and that of the dupPool that comes first.
LEMMA UniqPlaced ==
    ASSUME Types, WholeShare, NEW base, NEW c \in Nat, NEW next,
           NEW pool \in Seq(Numerals), NEW d \in Seq(Numerals) \X Seq(Numerals), pool # <<>>,
           PoolsOK(base, c, next, pool, d)
    PROVE  /\ PoolsOK(base, c, next, Front(pool), d)
           /\ Drops(base, c, pool, d, Front(pool), d, Last(pool))
<1>. DEFINE l == Len(pool)
            x == l - 1
            w == Len(d[1]) + Len(d[2])
<1>1. /\ UniqRows \in Nat /\ DupRows \in Nat /\ PerBatch = UniqRows + DupRows
      /\ UniqRows + DupRows + DupRows = col.rowsInBatch
    BY WholeParts
<1>2. /\ l \in Nat \ {0} /\ Len(Front(pool)) = l - 1
      /\ \A k \in 1..(l - 1) : Front(pool)[k] = pool[k]
      /\ Last(pool) = pool[l]
    BY DropLast
<1>3. Len(d[1]) \in Nat /\ Len(d[2]) \in Nat
    BY LenProperties
<1>4. l <= UniqRows /\ \A k \in 1..l : pool[k] = After(base, c * PerBatch + (k - 1))
    BY DEF PoolsOK
<1>. HIDE DEF l
<1>5. PoolsOK(base, c, next, Front(pool), d)
    <2>1. l - 1 <= UniqRows /\ \A k \in 1..(l - 1) : k \in 1..l
        BY <1>1, <1>2, <1>4
    <2>2. \A k \in 1..(l - 1) : Front(pool)[k] = After(base, c * PerBatch + (k - 1))
        BY <1>2, <1>4, <2>1
    <2>. QED
        BY <1>2, <2>1, <2>2 DEF PoolsOK
<1>6. x \in LeftOf(pool, d) /\ x \in 0..(col.rowsInBatch - 1) /\ Rank(x) = x
    <2>1. x \in 0..(l - 1) /\ x \in 0..(col.rowsInBatch - 1) /\ x < PerBatch
        BY <1>1, <1>2, <1>4
    <2>. QED
        BY <2>1 DEF LeftOf, Rank, l
<1>7. Last(pool) = NumberOf(base, c, x)
    <2>1. l \in 1..l
        BY <1>2
    <2>2. pool[l] = After(base, c * PerBatch + (l - 1))
        BY <1>4, <2>1
    <2>. QED
        BY <1>2, <1>6, <2>2 DEF NumberOf
<1>8. LeftOf(Front(pool), d) = LeftOf(pool, d) \ {x}
    <2>. DEFINE high == UniqRows..(UniqRows + Len(d[1]) + Len(d[2]) - 1)
    <2>1. x \notin high /\ 0..(l - 1 - 1) = (0..(l - 1)) \ {x}
        BY <1>1, <1>2, <1>3, <1>4
    <2>2. LeftOf(pool, d) = (0..(l - 1)) \union high /\ LeftOf(Front(pool), d) = (0..(l - 1 - 1)) \union high
        BY <1>2 DEF LeftOf, l
    <2>. HIDE DEF high, x
    <2>. QED
        BY <2>1, <2>2
<1>. QED
    BY <1>5, <1>6, <1>7, <1>8 DEF Drops

LEMMA DupLeft ==
    ASSUME Types, WholeShare, NEW pool \in Seq(Numerals),
           NEW d \in Seq(Numerals) \X Seq(Numerals), NEW e \in Seq(Numerals) \X Seq(Numerals),
           Len(e[1]) + Len(e[2]) = (Len(d[1]) + Len(d[2])) - 1, Len(pool) <= UniqRows
    PROVE  /\ UniqRows + (Len(d[1]) + Len(d[2])) - 1 \in LeftOf(pool, d)
           /\ LeftOf(pool, e) = LeftOf(pool, d) \ {UniqRows + (Len(d[1]) + Len(d[2])) - 1}
<1>1. UniqRows \in Nat /\ Len(pool) \in Nat
    BY WholeParts, LenProperties
<1>2. /\ Len(d[1]) \in Nat /\ Len(d[2]) \in Nat /\ Len(e[1]) \in Nat /\ Len(e[2]) \in Nat
    BY LenProperties
<1>. DEFINE u == UniqRows
            l == Len(pool)
            w == Len(d[1]) + Len(d[2])
            x == u + w - 1
            low == 0..(l - 1)
<1>3. u \in Nat /\ l \in Nat /\ l <= u /\ w \in Nat \ {0}
    BY <1>1, <1>2
<1>4. LeftOf(pool, d) = low \union (u..x) /\ LeftOf(pool, e) = low \union (u..(x - 1))
    <2>. DEFINE a == Len(d[1])
                b == Len(d[2])
                f == Len(e[1])
                g == Len(e[2])
    <2>1. /\ a \in Nat /\ b \in Nat /\ f \in Nat /\ g \in Nat /\ a + b = w /\ f + g = w - 1
          /\ LeftOf(pool, d) = low \union (u..(u + a + b - 1))
          /\ LeftOf(pool, e) = low \union (u..(u + f + g - 1))
        BY <1>2 DEF LeftOf
    <2>. HIDE DEF a, b, f, g, u, low, w
    <2>2. u + a + b - 1 = x /\ u + f + g - 1 = x - 1
        BY <1>3, <2>1
    <2>. HIDE DEF x
    <2>. QED
        BY <2>1, <2>2
<1>. HIDE DEF u, l, w
<1>5. x \notin low /\ u..(x - 1) = (u..x) \ {x} /\ x \in u..x
    <2>1. x \in Nat /\ u <= x /\ l - 1 < x
        BY <1>3
    <2>. HIDE DEF x
    <2>2. \A k \in Int : k \in u..(x - 1) <=> k \in u..x /\ k # x
        BY <1>3, <2>1
    <2>3. u..(x - 1) = (u..x) \ {x}
        <3>1. u..x \subseteq Int /\ u..(x - 1) \subseteq Int
            BY <1>3, <2>1
        <3>. QED
            BY <2>2, <3>1
    <2>. QED
        BY <1>3, <2>1, <2>3
<1>. HIDE DEF low, x
<1>6. x \in LeftOf(pool, d) /\ LeftOf(pool, e) = LeftOf(pool, d) \ {x}
    BY <1>4, <1>5
<1>. QED
    BY <1>6 DEF x, u, w

LEMMA DupPlaced ==
    ASSUME Types, WholeShare, NEW base, NEW c \in Nat, NEW next,
           NEW pool \in Seq(Numerals), NEW d \in Seq(Numerals) \X Seq(Numerals),
           PoolsOK(base, c, next, pool, d), NEW e, NEW v,
           \/ d[1] # <<>> /\ e = <<Front(d[1]), d[2]>> /\ v = Last(d[1])
           \/ d[1] = <<>> /\ d[2] # <<>> /\ e = << Front(d[2]), <<>> >> /\ v = Last(d[2])
    PROVE  /\ PoolsOK(base, c, next, pool, e)
           /\ Drops(base, c, pool, d, pool, e, v)
<1>1. /\ UniqRows \in Nat /\ DupRows \in Nat /\ PerBatch = UniqRows + DupRows
      /\ UniqRows + DupRows + DupRows = col.rowsInBatch
    BY WholeParts
<1>2. d[1] \in Seq(Numerals) /\ d[2] \in Seq(Numerals)
    OBVIOUS
<1>3. /\ Len(pool) <= UniqRows /\ Len(d[1]) <= DupRows /\ Len(d[2]) \in {0, DupRows}
      /\ \A p \in 1..2 : \A k \in 1..Len(d[p]) : d[p][k] = After(base, c * PerBatch + (UniqRows + k - 1))
    BY DEF PoolsOK
<1>4. PICK p \in 1..2 :
         /\ d[p] # <<>> /\ v = Last(d[p]) /\ e[1] = Front(d[p])
         /\ \/ p = 1 /\ e = <<Front(d[1]), d[2]>>
            \/ p = 2 /\ d[1] = <<>> /\ e = << Front(d[2]), <<>> >>
    <2>1. CASE d[1] # <<>> /\ e = <<Front(d[1]), d[2]>> /\ v = Last(d[1])
        BY <2>1
    <2>2. CASE d[1] = <<>> /\ d[2] # <<>> /\ e = << Front(d[2]), <<>> >> /\ v = Last(d[2])
        BY <2>2
    <2>. QED
        BY <2>1, <2>2
<1>. DEFINE l == Len(d[p])
            q == Len(e[2])
            w == l + q
            x == UniqRows + w - 1
<1>5. /\ l \in Nat \ {0} /\ Len(e[1]) = l - 1 /\ e[1] \in Seq(Numerals)
      /\ \A k \in 1..(l - 1) : e[1][k] = d[p][k]
      /\ v = d[p][l]
    <2>1. d[p] \in Seq(Numerals)
        BY <1>2
    <2>. QED
        BY <1>4, <2>1, DropLast, Drawn
<1>6. /\ e[2] \in Seq(Numerals) /\ q \in {0, DupRows} /\ l <= DupRows
      /\ e = <<e[1], e[2]>> /\ Len(d[1]) + Len(d[2]) = w
    <2>1. CASE p = 1 /\ e = <<Front(d[1]), d[2]>>
        BY <1>2, <1>3, <1>4, <2>1
    <2>2. CASE p = 2 /\ d[1] = <<>> /\ e = << Front(d[2]), <<>> >>
        <3>1. Len(<<>>) = 0 /\ e[2] = <<>> /\ q = 0
            BY <2>2
        <3>2. l = DupRows
            BY <1>3, <1>5, <2>2
        <3>3. Len(d[1]) + Len(d[2]) = w
            BY <1>5, <2>2, <3>1
        <3>. QED
            BY <1>1, <1>4, <2>2, <3>1, <3>2, <3>3
    <2>. QED
        BY <1>4, <2>1, <2>2
<1>7. PoolsOK(base, c, next, pool, e)
    <2>1. Len(e[1]) <= DupRows
        BY <1>1, <1>5, <1>6
    <2>2. \A k \in 1..Len(e[1]) : e[1][k] = After(base, c * PerBatch + (UniqRows + k - 1))
        <3>1. \A k \in 1..(l - 1) : k \in 1..l
            BY <1>5
        <3>. QED
            BY <1>3, <1>5, <3>1
    <2>3. \A k \in 1..Len(e[2]) : e[2][k] = After(base, c * PerBatch + (UniqRows + k - 1))
        <3>1. CASE e[2] = d[2]
            BY <1>3, <3>1
        <3>2. CASE e[2] = <<>>
            BY <3>2
        <3>. QED
            BY <1>4, <3>1, <3>2
    <2>4. \A r \in 1..2 : r = 1 \/ r = 2
        OBVIOUS
    <2>5. \A r \in 1..2 : \A k \in 1..Len(e[r]) : e[r][k] = After(base, c * PerBatch + (UniqRows + k - 1))
        BY <2>2, <2>3, <2>4
    <2>. QED
        BY <1>3, <1>6, <2>1, <2>5 DEF PoolsOK
<1>8. w \in Nat \ {0} /\ Len(e[1]) + Len(e[2]) = w - 1
    BY <1>1, <1>5, <1>6
<1>9. e \in Seq(Numerals) \X Seq(Numerals)
    BY <1>5, <1>6
<1>10. x \in LeftOf(pool, d) /\ LeftOf(pool, e) = LeftOf(pool, d) \ {x}
    <2>1. Len(d[1]) + Len(d[2]) = w /\ Len(e[1]) + Len(e[2]) = w - 1 /\ w \in Nat \ {0}
        BY <1>6, <1>8
    <2>2. Len(pool) <= UniqRows
        BY <1>3
    <2>. HIDE DEF w
    <2>3. Len(e[1]) + Len(e[2]) = (Len(d[1]) + Len(d[2])) - 1
        BY <2>1, Zenon
    <2>4. /\ UniqRows + (Len(d[1]) + Len(d[2])) - 1 \in LeftOf(pool, d)
          /\ LeftOf(pool, e) = LeftOf(pool, d) \ {UniqRows + (Len(d[1]) + Len(d[2])) - 1}
        BY <1>9, <2>2, <2>3, DupLeft
    <2>. QED
        BY <2>1, <2>4
<1>11. Rank(x) = UniqRows + l - 1
    <2>1. CASE q = 0
        BY <1>1, <1>5, <1>6, <2>1 DEF Rank
    <2>2. CASE q = DupRows
        <3>1. w = l + DupRows /\ l \in Nat \ {0}
            BY <1>5, <2>2
        <3>. HIDE DEF w, l
        <3>2. ~(x < PerBatch) /\ x - DupRows = UniqRows + l - 1
            BY <1>1, <3>1
        <3>. QED
            BY <3>2 DEF Rank
    <2>. QED
        BY <1>6, <2>1, <2>2
<1>12. v = NumberOf(base, c, x)
    <2>1. l \in 1..l
        BY <1>5
    <2>2. d[p][l] = After(base, c * PerBatch + (UniqRows + l - 1))
        BY <1>3, <2>1
    <2>. QED
        BY <1>5, <1>11, <2>2 DEF NumberOf
<1>. QED
    BY <1>7, <1>10, <1>12 DEF Drops

\* What a batch puts into the pools that are empty: a number for each place.
LEMMA PoolsOpened ==
    ASSUME Types, WholeShare, NEW base \in Numerals, NEW c \in Nat,
           NEW v \in Numerals, v = After(base, c * PerBatch)
    PROVE  LET pool == Fresh(v, UniqRows)
               d == <<DupNumbers(v, UniqRows, DupRows), DupNumbers(v, UniqRows, DupRows)>>
           IN  /\ PoolsOK(base, c, After(v, UniqRows + DupRows), pool, d)
               /\ LeftOf(pool, d) = 0..(col.rowsInBatch - 1)
               /\ Len(pool) + Len(d[1]) + Len(d[2]) = col.rowsInBatch
               /\ pool \in Seq(Numerals) /\ d \in Seq(Numerals) \X Seq(Numerals)
<1>. DEFINE u == UniqRows
            n == DupRows
            o == c * PerBatch
            w == After(v, u)
            pool == Fresh(v, u)
            more == Fresh(w, n)
            d == <<more, more>>
<1>1. /\ u \in Nat /\ n \in Nat /\ PerBatch = u + n /\ col.rowsInBatch = u + n + n
      /\ col.rowsInBatch \in Nat \ {0}
    BY WholeParts
<1>2. o \in Nat /\ (c + 1) * PerBatch = o + (u + n)
    <2>1. \A a, b \in Nat : a * b \in Nat /\ (a + 1) * b = a * b + b
        BY SMTT(30)
    <2>. QED
        BY <1>1, <2>1
<1>3. w \in Numerals
    BY <1>1, AfterIsNumeral
<1>4. /\ pool \in Seq(Numerals) /\ Len(pool) = u /\ more \in Seq(Numerals) /\ Len(more) = n
    BY <1>1, <1>3, FreshAreNumerals
<1>5. \A a \in Nat : After(v, a) = After(base, o + a)
    BY <1>2, AfterParts
<1>6. \A a \in Nat : After(w, a) = After(base, o + (u + a))
    <2>. TAKE a \in Nat
    <2>1. After(After(v, u), a) = After(v, u + a)
        BY <1>1, AfterParts
    <2>2. u + a \in Nat
        BY <1>1
    <2>. QED
        BY <1>5, <2>1, <2>2
<1>7. \A k \in 1..u : pool[k] = After(base, o + (k - 1))
    <2>. TAKE k \in 1..u
    <2>1. k - 1 \in Nat /\ pool[k] = After(v, k - 1)
        BY <1>1 DEF Fresh
    <2>. QED
        BY <1>5, <2>1
<1>8. \A k \in 1..n : more[k] = After(base, o + (u + (k - 1)))
    <2>. TAKE k \in 1..n
    <2>1. k - 1 \in Nat /\ more[k] = After(w, k - 1)
        BY <1>1 DEF Fresh
    <2>. QED
        BY <1>6, <2>1
<1>. HIDE DEF pool, more, w
<1>9. PoolsOK(base, c, After(v, u + n), pool, d)
    <2>1. After(v, u + n) = After(base, (c + 1) * PerBatch)
        <3>1. u + n \in Nat
            BY <1>1
        <3>2. After(v, u + n) = After(base, o + (u + n))
            BY <1>5, <3>1
        <3>. QED
            BY <1>2, <3>2
    <2>2. Len(pool) <= u /\ Len(d[1]) <= n /\ Len(d[2]) \in {0, n}
        BY <1>1, <1>4
    <2>3. \A p \in 1..2 : d[p] = more
        OBVIOUS
    <2>4. \A p \in 1..2 : \A k \in 1..Len(d[p]) : d[p][k] = After(base, o + (u + k - 1))
        BY <1>4, <1>8, <2>3
    <2>. QED
        BY <1>4, <1>7, <2>1, <2>2, <2>4 DEF PoolsOK
<1>10. LeftOf(pool, d) = 0..(col.rowsInBatch - 1) /\ Len(pool) + Len(d[1]) + Len(d[2]) = col.rowsInBatch
    <2>1. d[1] = more /\ d[2] = more
        OBVIOUS
    <2>2. LeftOf(pool, d) = (0..(u - 1)) \union (u..(u + n + n - 1))
        BY <1>4, <2>1 DEF LeftOf
    <2>. HIDE DEF u, n, d
    <2>3. (0..(u - 1)) \union (u..(u + n + n - 1)) = 0..(u + n + n - 1)
        BY <1>1
    <2>. QED
        BY <1>1, <1>4, <2>1, <2>2, <2>3
<1>. QED
    BY <1>4, <1>9, <1>10 DEF DupNumbers, pool, more, w

\* The last of r rows and the one behind it are in one batch, unless the batch is full.
LEMMA BatchOfNext ==
    ASSUME NEW r \in Nat \ {0}, NEW m \in Nat \ {0}
    PROVE  /\ (r - 1) \div m \in Nat /\ r \div m \in Nat
           /\ r % m = 0 => r \div m = ((r - 1) \div m) + 1 /\ (r \div m) * m = r
           /\ r % m # 0 => r \div m = (r - 1) \div m
<1>. DEFINE q == r \div m
            s == r % m
            p == (r - 1) \div m
            t == (r - 1) % m
<1>1. q \in Nat /\ s \in 0..(m - 1) /\ r = m * q + s
    BY DivMod
<1>2. p \in Nat /\ t \in 0..(m - 1) /\ r - 1 = m * p + t
    <2>1. r - 1 \in Nat
        OBVIOUS
    <2>. QED
        BY <2>1, DivMod
<1>. HIDE DEF p, q, s, t
<1>3. m * q \in Nat /\ m * p \in Nat /\ m * (p + 1) = m * p + m /\ q * m = m * q
    BY <1>1, <1>2, SMTT(30)
<1>4. CASE s = 0
    <2>1. m * q - m * (p + 1) < m /\ m * (p + 1) - m * q < m /\ p + 1 \in Nat
        BY <1>1, <1>2, <1>3, <1>4
    <2>2. q = p + 1
        BY <1>1, <2>1, MultiplesApart
    <2>. QED
        BY <1>1, <1>2, <1>3, <1>4, <2>2 DEF p, q, s
<1>5. CASE s # 0
    <2>1. m * q - m * p < m /\ m * p - m * q < m
        BY <1>1, <1>2, <1>3, <1>5
    <2>2. q = p
        BY <1>1, <1>2, <2>1, MultiplesApart
    <2>. QED
        BY <1>1, <1>2, <1>5, <2>2 DEF p, q, s
<1>. QED
    BY <1>4, <1>5

(* The rows have the numbers of the places that are taken, the pools those *)
(* of the places that are left of the batch under way.                     *)
ShareOK ==
    WholeShare =>
        /\ Len(numbers) = row
        /\ row = 0 => Held = 0
        /\ row > 0 =>
             /\ Held = (BatchOf(row) + 1) * col.rowsInBatch - row
             /\ \E base \in Numerals : \E g :
                  /\ PoolsOK(base, BatchOf(row), last, uniq, dup)
                  /\ RowsOK(base, BatchOf(row), LeftOf(uniq, dup), numbers, g)

\* Nothing is held when each pool is empty.
LEMMA NoneHeld ==
    ASSUME Types, Held = 0
    PROVE  /\ uniq = <<>> /\ dup[1] = <<>> /\ dup[2] = <<>>
           /\ Len(uniq) = 0 /\ Len(dup[1]) = 0 /\ Len(dup[2]) = 0
<1>. DEFINE a == Len(uniq)
            b == Len(dup[1])
            c == Len(dup[2])
<1>1. a \in Nat /\ b \in Nat /\ c \in Nat /\ a + b + c = 0
    BY HeldTypes DEF Held
<1>. HIDE DEF a, b, c
<1>2. a = 0 /\ b = 0 /\ c = 0
    BY <1>1
<1>3. uniq \in Seq(Numerals) /\ dup[1] \in Seq(Numerals) /\ dup[2] \in Seq(Numerals)
    BY DEF Types
<1>. QED
    BY <1>2, <1>3, EmptySeq DEF a, b, c

\* The pools that the next row draws from, in which nothing is left of the batch before.
LEMMA ShareAt ==
    ASSUME Types, HeldOK, ShareOK, WholeShare, Draws
    PROVE  LET c == BatchOf(row + 1)
               d == <<DupAt(1), DupAt(2)>>
           IN  /\ c \in Nat /\ Len(numbers) = row /\ row \in Nat
               /\ UniqAt \in Seq(Numerals) /\ d \in Seq(Numerals) \X Seq(Numerals)
               /\ Len(UniqAt) + Len(d[1]) + Len(d[2]) = (c + 1) * col.rowsInBatch - row
               /\ \E base \in Numerals : \E g :
                    /\ PoolsOK(base, c, FreshAt, UniqAt, d)
                    /\ RowsOK(base, c, LeftOf(UniqAt, d), numbers, g)
<1>. DEFINE c == BatchOf(row + 1)
            b == col.rowsInBatch
            d == <<DupAt(1), DupAt(2)>>
<1>1. /\ b \in Nat \ {0} /\ row \in Nat /\ LastAt \in Numerals
      /\ UniqAt \in Seq(Numerals) /\ d \in Seq(Numerals) \X Seq(Numerals)
      /\ Len(numbers) = row /\ RowIdxAt = row
    <2>1. RowIdxAt = row
        <3>1. row \in Nat /\ col.percent = 100
            BY HeldTypes, WholeParts
        <3>2. CASE row = 0
            BY <3>2 DEF RowIdxAt
        <3>3. CASE row # 0
            <4>1. row > 0
                BY <3>1, <3>3
            <4>. QED
                BY <3>1, <3>3, <4>1 DEF RowIdxAt, HeldOK
        <3>. QED
            BY <3>2, <3>3
    <2>. QED
        BY <2>1, HeldTypes, WholeParts, PoolsAt DEF ShareOK
<1>2. c = row \div b
    <2>1. (row + 1) - 1 = row
        BY <1>1
    <2>. QED
        BY <2>1 DEF BatchOf
<1>3. c \in Nat
    BY <1>1, <1>2, DivMod
<1>4. ASSUME BatchBegins, Held = 0, c * b = row,
             NEW base \in Numerals, NEW g, LastAt = After(base, c * PerBatch),
             RowsOK(base, c, 0..(b - 1), numbers, g)
      PROVE  /\ Len(UniqAt) + Len(d[1]) + Len(d[2]) = (c + 1) * b - row
             /\ PoolsOK(base, c, FreshAt, UniqAt, d)
             /\ RowsOK(base, c, LeftOf(UniqAt, d), numbers, g)
    <2>1. uniq = <<>> /\ dup[1] = <<>> /\ dup[2] = <<>>
        BY <1>4, NoneHeld
    <2>. DEFINE pool == Fresh(LastAt, UniqRows)
                more == DupNumbers(LastAt, UniqRows, DupRows)
    <2>2. /\ PoolsOK(base, c, After(LastAt, UniqRows + DupRows), pool, <<more, more>>)
          /\ LeftOf(pool, <<more, more>>) = 0..(b - 1)
          /\ Len(pool) + Len(more) + Len(more) = b
          /\ pool \in Seq(Numerals) /\ more \in Seq(Numerals)
        BY <1>1, <1>3, <1>4, PoolsOpened
    <2>. HIDE DEF pool, more
    <2>3. <<>> \o pool = pool /\ <<>> \o more = more
        BY <2>2
    <2>4. UniqAt = pool /\ d = <<more, more>> /\ FreshAt = After(LastAt, UniqRows + DupRows)
        BY <1>4, <2>1, <2>3 DEF UniqAt, DupAt, FreshAt, pool, more
    <2>5. (c + 1) * b - row = b
        <3>. HIDE DEF b, c
        <3>1. \A i, m \in Nat : (i + 1) * m = i * m + m
            BY SMTT(30)
        <3>2. (c + 1) * b = row + b
            BY <1>1, <1>3, <1>4, <3>1
        <3>. QED
            BY <1>1, <3>2
    <2>. QED
        BY <1>4, <2>2, <2>4, <2>5
<1>5. CASE row = 0
    <2>1. \A m \in Nat \ {0} : 0 % m = 0 /\ 0 \div m = 0
        BY SMTT(30)
    <2>2. BatchBegins /\ c = 0 /\ c * b = row
        BY <1>1, <1>2, <1>5, <2>1 DEF BatchBegins
    <2>3. Held = 0 /\ numbers = <<>>
        <3>1. numbers \in Seq(Numerals \union {Blank, 0}) /\ Len(numbers) = 0
            BY <1>1, <1>5 DEF Types
        <3>. QED
            BY <1>5, <3>1, EmptySeq DEF ShareOK
    <2>4. LastAt = After(LastAt, c * PerBatch)
        <3>1. 0 * PerBatch = 0
            BY WholeParts
        <3>. QED
            BY <1>1, <2>2, <3>1, AfterParts
    <2>5. RowsOK(LastAt, c, 0..(b - 1), numbers, <<>>)
        BY <2>2, <2>3, RowsOpened
    <2>. HIDE DEF c, b
    <2>6. PICK base \in Numerals : base = LastAt
        BY <1>1
    <2>. QED
        BY <1>1, <1>3, <1>4, <2>2, <2>3, <2>4, <2>5, <2>6 DEF c, b
<1>6. CASE row # 0
    <2>. DEFINE k == BatchOf(row)
    <2>1. row > 0 /\ row \in Nat \ {0} /\ LastAt = last
        BY <1>1, <1>6 DEF LastAt
    <2>2. /\ k \in Nat
          /\ row % b = 0 => c = k + 1 /\ c * b = row
          /\ row % b # 0 => c = k
        BY <1>1, <1>2, <2>1, BatchOfNext DEF BatchOf
    <2>3. Held = (k + 1) * b - row
        BY <2>1 DEF ShareOK
    <2>7. PICK base \in Numerals : \E g : /\ PoolsOK(base, k, last, uniq, dup)
                                          /\ RowsOK(base, k, LeftOf(uniq, dup), numbers, g)
        BY <2>1 DEF ShareOK
    <2>4. PICK g : /\ PoolsOK(base, k, last, uniq, dup)
                   /\ RowsOK(base, k, LeftOf(uniq, dup), numbers, g)
        BY <2>7
    <2>5. CASE row % b = 0
        <3>1. BatchBegins /\ Held = 0
            BY <1>1, <2>2, <2>3, <2>5 DEF BatchBegins
        <3>2. LastAt = After(base, c * PerBatch)
            BY <2>1, <2>2, <2>4, <2>5 DEF PoolsOK
        <3>3. LeftOf(uniq, dup) = {}
            <4>1. Len(uniq) = 0 /\ Len(dup[1]) = 0 /\ Len(dup[2]) = 0
                BY <3>1, NoneHeld
            <4>2. UniqRows \in Nat
                BY WholeParts
            <4>. QED
                BY <4>1, <4>2 DEF LeftOf
        <3>4. RowsOK(base, c, 0..(b - 1), numbers, g)
            BY <2>2, <2>4, <2>5, <3>3, RowsOpened
        <3>. QED
            BY <1>1, <1>3, <1>4, <2>2, <2>5, <3>1, <3>2, <3>4
    <2>6. CASE row % b # 0
        <3>1. UniqAt = uniq /\ d = <<dup[1], dup[2]>> /\ FreshAt = last
            BY <1>1, <2>1, <2>6 DEF BatchBegins, UniqAt, DupAt, FreshAt
        <3>2. d = dup
            BY <3>1 DEF Types
        <3>. QED
            BY <1>1, <1>3, <2>2, <2>3, <2>4, <2>6, <3>1, <3>2 DEF Held
    <2>. QED
        BY <2>5, <2>6
<1>. QED
    BY <1>5, <1>6

\* What is left are places of the batch.
LEMMA LeftPlaces ==
    ASSUME Types, WholeShare, NEW base, NEW c, NEW next,
           NEW pool \in Seq(Numerals), NEW d \in Seq(Numerals) \X Seq(Numerals),
           PoolsOK(base, c, next, pool, d)
    PROVE  LeftOf(pool, d) \in SUBSET (0..(col.rowsInBatch - 1))
<1>. DEFINE l == Len(pool)
            x == Len(d[1])
            y == Len(d[2])
            u == UniqRows
            n == DupRows
            b == col.rowsInBatch
<1>1. /\ l \in Nat /\ x \in Nat /\ y \in Nat /\ u \in Nat /\ n \in Nat /\ b = u + n + n
      /\ l <= u /\ x <= n /\ y \in {0, n}
    BY WholeParts, LenProperties DEF PoolsOK
<1>2. LeftOf(pool, d) = (0..(l - 1)) \union (u..(u + x + y - 1))
    BY DEF LeftOf
<1>. HIDE DEF l, x, y, u, n, b
<1>3. (0..(l - 1)) \union (u..(u + x + y - 1)) \subseteq 0..(b - 1)
    BY <1>1
<1>. QED
    BY <1>2, <1>3 DEF b

\* A row that gets a number takes one of the places that are left.
LEMMA ShareDrawn ==
    ASSUME Types, HeldOK, ShareOK, WholeShare, TakeUniq \/ TakeDup
    PROVE  /\ col' = col /\ row' \in Nat \ {0} /\ Len(numbers') = row'
           /\ Len(uniq') + Len(dup'[1]) + Len(dup'[2]) = (BatchOf(row') + 1) * col.rowsInBatch - row'
           /\ \E base \in Numerals : \E g :
                /\ PoolsOK(base, BatchOf(row'), last', uniq', dup')
                /\ RowsOK(base, BatchOf(row'), LeftOf(uniq', dup'), numbers', g)
<1>. DEFINE c == BatchOf(row + 1)
            d == <<DupAt(1), DupAt(2)>>
            t == (c + 1) * col.rowsInBatch
<1>1. Draws
    BY DEF TakeUniq, TakeDup
<1>2. /\ c \in Nat /\ Len(numbers) = row /\ row \in Nat
      /\ UniqAt \in Seq(Numerals) /\ d \in Seq(Numerals) \X Seq(Numerals)
      /\ Len(UniqAt) + Len(d[1]) + Len(d[2]) = t - row
    BY <1>1, ShareAt
<1>9. PICK base \in Numerals : \E g : /\ PoolsOK(base, c, FreshAt, UniqAt, d)
                                      /\ RowsOK(base, c, LeftOf(UniqAt, d), numbers, g)
    BY <1>1, ShareAt
<1>3. PICK g : /\ PoolsOK(base, c, FreshAt, UniqAt, d)
               /\ RowsOK(base, c, LeftOf(UniqAt, d), numbers, g)
    BY <1>9
<1>4. LeftOf(UniqAt, d) \in SUBSET (0..(col.rowsInBatch - 1))
    BY <1>2, <1>3, LeftPlaces
<1>5. t \in Nat
    <2>1. \A i, m \in Nat : (i + 1) * m \in Nat
        BY SMTT(30)
    <2>. QED
        BY <1>2, <2>1, WholeParts
<1>. HIDE DEF c, d, t
<1>6. ASSUME NEW v \in Numerals, Give(v), NEW x \in LeftOf(UniqAt, d),
             v = NumberOf(base, c, x),
             LeftOf(uniq', dup') = LeftOf(UniqAt, d) \ {x},
             PoolsOK(base, c, FreshAt, uniq', dup'),
             Len(uniq') + Len(dup'[1]) + Len(dup'[2]) = t - row - 1
      PROVE  /\ col' = col /\ row' \in Nat \ {0} /\ Len(numbers') = row'
             /\ Len(uniq') + Len(dup'[1]) + Len(dup'[2]) = (BatchOf(row') + 1) * col.rowsInBatch - row'
             /\ \E h :
                  /\ PoolsOK(base, BatchOf(row'), last', uniq', dup')
                  /\ RowsOK(base, BatchOf(row'), LeftOf(uniq', dup'), numbers', h)
    <2>. DEFINE S == Numerals \union {Blank, 0}
    <2>1. /\ col' = col /\ row' = row + 1 /\ last' = FreshAt /\ numbers' = Append(numbers, v)
          /\ numbers \in Seq(S) /\ v \in S
        BY <1>6 DEF Give, Types
    <2>. HIDE DEF S
    <2>2. BatchOf(row') = c /\ BatchOf(Len(numbers) + 1) = c
        BY <1>2, <2>1 DEF c
    <2>3. PICK h : RowsOK(base, c, LeftOf(UniqAt, d) \ {x}, Append(numbers, v), h)
        BY <1>2, <1>3, <1>4, <1>6, <2>1, <2>2, RowPlaced
    <2>4. row' \in Nat \ {0} /\ Len(numbers') = row' /\ t - row - 1 = t - row'
        BY <1>2, <1>5, <2>1
    <2>5. Len(uniq') + Len(dup'[1]) + Len(dup'[2]) = (BatchOf(row') + 1) * col.rowsInBatch - row'
        BY <1>6, <2>2, <2>4 DEF t
    <2>. QED
        BY <1>6, <2>1, <2>2, <2>3, <2>4, <2>5
<1>7. CASE TakeUniq
    <2>1. UniqAt # <<>> /\ Give(Last(UniqAt)) /\ uniq' = Front(UniqAt) /\ dup' = d
        BY <1>7 DEF TakeUniq, d
    <2>2. Last(UniqAt) \in Numerals /\ uniq' \in Seq(Numerals) /\ Len(uniq') + 1 = Len(UniqAt)
        BY <1>2, <2>1, Drawn
    <2>3. PICK x \in LeftOf(UniqAt, d) : /\ Last(UniqAt) = NumberOf(base, c, x)
                                         /\ LeftOf(uniq', d) = LeftOf(UniqAt, d) \ {x}
        <3>1. Drops(base, c, UniqAt, d, Front(UniqAt), d, Last(UniqAt))
            BY <1>2, <1>3, <2>1, UniqPlaced
        <3>. QED
            BY <2>1, <3>1 DEF Drops
    <2>4. PoolsOK(base, c, FreshAt, uniq', d)
        BY <1>2, <1>3, <2>1, UniqPlaced
    <2>5. Len(uniq') + Len(d[1]) + Len(d[2]) = t - row - 1
        <3>1. Len(uniq') \in Nat /\ Len(UniqAt) \in Nat /\ Len(d[1]) \in Nat /\ Len(d[2]) \in Nat
            BY <1>2, <2>2
        <3>. DEFINE i == Len(UniqAt)
                    m == Len(uniq')
                    j == Len(d[1])
                    k == Len(d[2])
                    w == t - row
        <3>2. /\ w \in Int /\ i \in Nat /\ j \in Nat /\ k \in Nat /\ m \in Nat
              /\ i + j + k = w /\ m + 1 = i
            BY <1>2, <1>5, <2>2, <3>1
        <3>. HIDE DEF i, j, k, m, w
        <3>3. m + j + k = w - 1
            BY <3>2
        <3>. QED
            BY <3>3 DEF j, k, m, w
    <2>. QED
        BY <1>6, <2>1, <2>2, <2>3, <2>4, <2>5
<1>8. CASE TakeDup
    <2>1. PICK v : /\ uniq' = UniqAt /\ Give(v)
                   /\ \/ d[1] # <<>> /\ dup' = <<Front(d[1]), d[2]>> /\ v = Last(d[1])
                      \/ d[1] = <<>> /\ d[2] # <<>> /\ dup' = << Front(d[2]), <<>> >> /\ v = Last(d[2])
        BY <1>8 DEF TakeDup, d
    <2>2. d[1] \in Seq(Numerals) /\ d[2] \in Seq(Numerals)
        BY <1>2
    <2>3. v \in Numerals
        BY <2>1, <2>2, Drawn
    <2>4. PoolsOK(base, c, FreshAt, UniqAt, dup') /\ Drops(base, c, UniqAt, d, UniqAt, dup', v)
        <3>. DEFINE e == dup'
        <3>1. \/ d[1] # <<>> /\ e = <<Front(d[1]), d[2]>> /\ v = Last(d[1])
              \/ d[1] = <<>> /\ d[2] # <<>> /\ e = << Front(d[2]), <<>> >> /\ v = Last(d[2])
            BY <2>1
        <3>. HIDE DEF e
        <3>2. PoolsOK(base, c, FreshAt, UniqAt, e) /\ Drops(base, c, UniqAt, d, UniqAt, e, v)
            BY <1>2, <1>3, <3>1, DupPlaced
        <3>. QED
            BY <3>2 DEF e
    <2>5. PICK x \in LeftOf(UniqAt, d) : /\ v = NumberOf(base, c, x)
                                         /\ LeftOf(UniqAt, dup') = LeftOf(UniqAt, d) \ {x}
        BY <2>4 DEF Drops
    <2>6. Len(uniq') + Len(dup'[1]) + Len(dup'[2]) = t - row - 1
        <3>1. Len(UniqAt) \in Nat /\ Len(d[1]) \in Nat /\ Len(d[2]) \in Nat
            BY <1>2, <2>2
        <3>. DEFINE i == Len(UniqAt)
                    j == Len(d[1])
                    k == Len(d[2])
                    m == Len(dup'[1])
                    n == Len(dup'[2])
                    w == t - row
        <3>2. /\ w \in Int /\ i \in Nat /\ j \in Nat /\ k \in Nat /\ i + j + k = w
            BY <1>2, <1>5, <3>1
        <3>3. /\ m \in Nat /\ n \in Nat
              /\ \/ m + 1 = j /\ n = k
                 \/ j = 0 /\ m + 1 = k /\ n = 0
            <4>1. CASE d[1] # <<>> /\ dup' = <<Front(d[1]), d[2]>>
                <5>1. m + 1 = j /\ m \in Nat
                    BY <2>2, <4>1, Drawn, LenProperties
                <5>2. n = k
                    BY <4>1
                <5>3. n \in Nat
                    BY <3>1, <5>2
                <5>. QED
                    BY <5>1, <5>2, <5>3
            <4>2. CASE d[1] = <<>> /\ d[2] # <<>> /\ dup' = << Front(d[2]), <<>> >>
                <5>1. m + 1 = k /\ m \in Nat
                    BY <2>2, <4>2, Drawn, LenProperties
                <5>2. j = 0 /\ n = 0
                    BY <4>2
                <5>. QED
                    BY <5>1, <5>2
            <4>. QED
                BY <2>1, <4>1, <4>2
        <3>. HIDE DEF i, j, k, m, n, w
        <3>4. i + m + n = w - 1
            BY <3>2, <3>3
        <3>. QED
            BY <2>1, <3>4 DEF i, m, n, w
    <2>. QED
        BY <1>6, <2>1, <2>3, <2>4, <2>5, <2>6
<1>. QED
    BY <1>7, <1>8

\* Each row takes a place of its batch, and a file ends with none left.
LEMMA StepShare ==
    ASSUME IInv, HeldOK, ShareOK, [Next]_vars
    PROVE  ShareOK'
<1>. USE DEF pools
<1>1. col' = col /\ (WholeShare' <=> WholeShare)
    BY DEF Next, Calculate, TakeUniq, TakeDup, TakeNothing, Skip, Die, Give, NextFile, vars,
           WholeShare, WholeBatches, EvenShare, EnoughNumbers, Survives, FreshPerFile, UniqRows, DupRows
<1>. SUFFICES ASSUME WholeShare PROVE ShareOK'
    BY <1>1 DEF ShareOK
<1>2. Types /\ row \in Nat /\ col.rowsInBatch \in Nat \ {0}
    BY HeldTypes, WholeParts DEF IInv
<1>3. CASE TakeUniq \/ TakeDup
    <2>1. /\ row' \in Nat \ {0} /\ Len(numbers') = row'
          /\ Len(uniq') + Len(dup'[1]) + Len(dup'[2]) = (BatchOf(row') + 1) * col.rowsInBatch - row'
        BY <1>2, <1>3, ShareDrawn
    <2>7. PICK base \in Numerals : \E g :
             /\ PoolsOK(base, BatchOf(row'), last', uniq', dup')
             /\ RowsOK(base, BatchOf(row'), LeftOf(uniq', dup'), numbers', g)
        BY <1>2, <1>3, ShareDrawn
    <2>2. PICK g : /\ PoolsOK(base, BatchOf(row'), last', uniq', dup')
                   /\ RowsOK(base, BatchOf(row'), LeftOf(uniq', dup'), numbers', g)
        BY <2>7
    <2>3. base \in Numerals' /\ PoolsOK(base, BatchOf(row), last, uniq, dup)'
        BY <1>1, <2>2 DEF Numerals, PoolsOK, BatchOf, After, PerBatch, UniqRows, DupRows
    <2>4. RowsOK(base, BatchOf(row), LeftOf(uniq, dup), numbers, g)'
        BY <1>1, <2>2 DEF RowsOK, NumberOf, Rank, LeftOf, BatchOf, After, PerBatch, UniqRows, DupRows
    <2>5. Held' = ((BatchOf(row) + 1) * col.rowsInBatch - row)'
        BY <1>1, <2>1 DEF Held, BatchOf
    <2>6. row' # 0
        BY <2>1
    <2>. QED
        BY <2>1, <2>3, <2>4, <2>5, <2>6 DEF ShareOK
<1>4. CASE TakeNothing
    <2>. DEFINE c == BatchOf(row + 1)
                b == col.rowsInBatch
    <2>1. Draws /\ UniqAt = <<>> /\ DupAt(1) = <<>> /\ DupAt(2) = <<>>
        BY <1>4 DEF TakeNothing, DupsEmpty
    <2>2. Len(UniqAt) + Len(DupAt(1)) + Len(DupAt(2)) = (c + 1) * b - row
        BY <1>2, <2>1, ShareAt
    <2>3. Len(UniqAt) = 0 /\ Len(DupAt(1)) = 0 /\ Len(DupAt(2)) = 0
        BY <2>1
    <2>4. c = row \div b
        <3>1. (row + 1) - 1 = row
            BY <1>2
        <3>. QED
            BY <3>1 DEF BatchOf
    <2>5. c \in Nat /\ row % b \in 0..(b - 1) /\ row = b * c + (row % b)
        BY <1>2, <2>4, DivMod
    <2>. DEFINE r == row % b
                z == (c + 1) * b - row
    <2>6. z = 0
        BY <2>2, <2>3
    <2>. HIDE DEF b, c, r
    <2>7. \A i, m \in Nat : (i + 1) * m = m * i + m /\ m * i \in Nat
        BY SMTT(30)
    <2>8. FALSE
        <3>1. b \in Nat \ {0}
            BY <1>2 DEF b
        <3>2. r \in 0..(b - 1) /\ row = b * c + r
            BY <2>5 DEF r, b
        <3>. QED
            BY <1>2, <2>5, <2>6, <2>7, <3>1, <3>2
    <2>. QED
        BY <2>8
<1>5. CASE Skip \/ Die
    BY <1>2, <1>5, WholeParts DEF Skip, Die
<1>6. CASE NextFile
    <2>1. row = col.rows /\ row' = 0 /\ numbers' = <<>> /\ Held' = Held
        BY <1>6 DEF NextFile, Held
    <2>2. row > 0 /\ row \in Nat \ {0} /\ row % col.rowsInBatch = 0
        BY <1>2, <2>1, HeldTypes, WholeParts
    <2>3. (BatchOf(row) + 1) * col.rowsInBatch = row
        BY <1>2, <2>2, BatchOfNext DEF BatchOf
    <2>4. Held = 0
        BY <1>2, <2>2, <2>3 DEF ShareOK
    <2>. QED
        BY <2>1, <2>4 DEF ShareOK
<1>7. CASE UNCHANGED vars
    <2>1. Numerals' = Numerals /\ Held' = Held /\ row' = row /\ numbers' = numbers
          /\ (BatchOf(row) = BatchOf(row)')
        BY <1>7 DEF vars, Numerals, Held, BatchOf
    <2>2. \A base, g : /\ PoolsOK(base, BatchOf(row), last, uniq, dup)
                            => PoolsOK(base, BatchOf(row), last, uniq, dup)'
                       /\ RowsOK(base, BatchOf(row), LeftOf(uniq, dup), numbers, g)
                            => RowsOK(base, BatchOf(row), LeftOf(uniq, dup), numbers, g)'
        BY <1>7 DEF vars, RowsOK, PoolsOK, NumberOf, Rank, LeftOf, BatchOf, After, PerBatch, UniqRows, DupRows
    <2>. QED
        BY <1>1, <2>1, <2>2 DEF ShareOK
<1>. QED
    BY <1>3, <1>4, <1>5, <1>6, <1>7 DEF Next, Calculate

\* The rows of batch b, counted from 0.
LEMMA InBatch ==
    ASSUME NEW r \in Nat, NEW m \in Nat \ {0}, NEW b \in Nat
    PROVE  r \div m = b <=> b * m <= r /\ r < b * m + m
<1>. DEFINE q == r \div m
            s == r % m
<1>1. q \in Nat /\ s \in 0..(m - 1) /\ r = m * q + s
    BY DivMod
<1>. HIDE DEF q, s
<1>2. b * m = m * b /\ m * b \in Nat /\ m * q \in Nat
    BY <1>1, SMTT(30)
<1>3. q = b => m * b <= r /\ r < m * b + m
    BY <1>1, <1>2
<1>4. m * b <= r /\ r < m * b + m => q = b
    <2>. SUFFICES ASSUME m * b <= r, r < m * b + m PROVE q = b
        OBVIOUS
    <2>1. m * q - m * b < m /\ m * b - m * q < m
        BY <1>1, <1>2
    <2>. QED
        BY <1>1, <2>1, MultiplesApart
<1>. QED
    BY <1>2, <1>3, <1>4 DEF q

\* The batches of a file.
LEMMA FileBatches ==
    ASSUME Types, WholeShare
    PROVE  /\ col.rows \div col.rowsInBatch \in Nat
           /\ \A i \in 1..col.rows : BatchOf(i) \in 0..((col.rows \div col.rowsInBatch) - 1)
<1>. DEFINE m == col.rowsInBatch
            n == col.rows
            q == n \div m
<1>1. m \in Nat \ {0} /\ n \in Nat \ {0} /\ n % m = 0
    BY WholeParts, HeldTypes
<1>2. q \in Nat /\ n = m * q + 0
    BY <1>1, DivMod
<1>3. ASSUME NEW i \in 1..n PROVE BatchOf(i) \in 0..(q - 1)
    <2>. DEFINE r == i - 1
                p == r \div m
                s == r % m
    <2>1. r \in Nat /\ r < n
        BY <1>1
    <2>2. p \in Nat /\ s \in 0..(m - 1) /\ r = m * p + s
        BY <1>1, <2>1, DivMod
    <2>3. BatchOf(i) = p
        BY DEF BatchOf
    <2>. HIDE DEF m, n, p, q, r, s
    <2>4. p < q
        <3>. SUFFICES ASSUME p >= q PROVE FALSE
            BY <1>2, <2>2
        <3>1. m * (p - q) \in Nat /\ m * (p - q) = m * p - m * q /\ m * p \in Nat /\ m * q \in Nat
            BY <1>1, <1>2, <2>2, SMTT(30)
        <3>. QED
            BY <1>1, <1>2, <2>1, <2>2, <3>1
    <2>. QED
        BY <1>2, <2>2, <2>3, <2>4
<1>. QED
    BY <1>2, <1>3

\* The numbers of different places are different, but for the two places of a number.
LEMMA NumbersDiffer ==
    ASSUME Types, WholeShare, NEW base \in Numerals,
           NEW a \in 0..((col.rows \div col.rowsInBatch) - 1),
           NEW b \in 0..((col.rows \div col.rowsInBatch) - 1),
           NEW x \in 0..(col.rowsInBatch - 1), NEW y \in 0..(col.rowsInBatch - 1),
           NumberOf(base, a, x) = NumberOf(base, b, y)
    PROVE  a = b /\ Rank(x) = Rank(y)
<1>. DEFINE p == PerBatch
            q == col.rows \div col.rowsInBatch
            w == col.high - col.low
            s == Rank(x)
            t == Rank(y)
<1>1. /\ p \in Nat \ {0} /\ q \in Nat /\ p * q <= w + 1 /\ w \in Nat /\ col.low <= col.high
      /\ a \in Nat /\ b \in Nat /\ a + 1 <= q /\ b + 1 <= q
    <2>1. q \in Nat
        BY FileBatches
    <2>. QED
        BY <2>1, WholeParts
<1>2. s \in 0..(p - 1) /\ t \in 0..(p - 1)
    BY RankParts
<1>3. After(base, a * p + s) = After(base, b * p + t)
    BY DEF NumberOf
<1>. HIDE DEF p, q, w, s, t
<1>4. \A i \in Nat, j \in 0..(p - 1) : i + 1 <= q => i * p + j \in 0..w
    <2>. TAKE i \in Nat, j \in 0..(p - 1)
    <2>. HAVE i + 1 <= q
    <2>1. p * (q - (i + 1)) \in Nat /\ p * (q - (i + 1)) = p * q - (i * p + p) /\ i * p \in Nat
        BY <1>1, SMTT(30)
    <2>2. p * q \in Nat
        BY <1>1
    <2>. QED
        BY <1>1, <2>1, <2>2
<1>5. a * p + s \in 0..w /\ b * p + t \in 0..w
    BY <1>1, <1>2, <1>4
<1>6. a * p + s = b * p + t
    BY <1>1, <1>3, <1>5, AfterDiffers DEF w
<1>7. a * p = p * a /\ b * p = p * b /\ p * a \in Nat /\ p * b \in Nat
    BY <1>1, SMTT(30)
<1>8. p * a - p * b < p /\ p * b - p * a < p
    BY <1>1, <1>2, <1>6, <1>7
<1>9. a = b
    BY <1>1, <1>8, MultiplesApart
<1>10. s = t
    BY <1>1, <1>2, <1>6, <1>7, <1>9
<1>. QED
    BY <1>9, <1>10 DEF s, t

LEMMA TwoAtMost ==
    ASSUME NEW S, NEW x \in S, \A y, z \in S : y # x /\ z # x => y = z
    PROVE  Cardinality(S) <= 2
<1>1. IsFiniteSet({x}) /\ Cardinality({x}) = 1
    BY FS_Singleton
<1>2. CASE S = {x}
    BY <1>1, <1>2
<1>3. CASE S # {x}
    <2>1. PICK y \in S : y # x
        BY <1>3
    <2>2. S = {x} \union {y}
        BY <2>1
    <2>3. Cardinality({x} \union {y}) = 2
        BY <1>1, <2>1, FS_AddElement
    <2>. QED
        BY <2>2, <2>3
<1>. QED
    BY <1>2, <1>3
\* What is promised of the k-th batch.
Shared(k) ==
    /\ Cardinality({numbers[i] : i \in Batch(k)}) = PerBatch
    /\ \A i \in Batch(k) : Cardinality({j \in 1..row : numbers[j] = numbers[i]}) <= 2

\* A batch of which no place is left has each of its numbers, on a row or on two.
LEMMA BatchShare ==
    ASSUME Types, WholeShare, NEW base \in Numerals, NEW c \in 0..((col.rows \div col.rowsInBatch) - 1),
           NEW left, NEW g, RowsOK(base, c, left, numbers, g), Len(numbers) = row,
           NEW k \in 1..(row \div col.rowsInBatch), k - 1 < c \/ (k - 1 = c /\ left = {})
    PROVE  Shared(k)
<1>. DEFINE m == col.rowsInBatch
            b == k - 1
            q == col.rows \div m
            part == {NumberOf(base, b, x) : x \in 0..(PerBatch - 1)}
<1>1. /\ m \in Nat \ {0} /\ row \in Nat /\ q \in Nat /\ PerBatch \in Nat \ {0} /\ PerBatch <= m
      /\ k \in Nat /\ b \in Nat /\ k = b + 1 /\ b \in 0..c /\ b \in 0..(q - 1) /\ c \in Nat
    <2>1. m \in Nat \ {0} /\ row \in Nat /\ q \in Nat /\ PerBatch \in Nat \ {0} /\ PerBatch <= m
        <3>1. q \in Nat
            BY FileBatches
        <3>2. PerBatch \in Nat \ {0} /\ PerBatch <= m
            BY WholeParts
        <3>. QED
            BY <3>1, <3>2, WholeParts, HeldTypes
    <2>2. row \div m \in Nat
        BY <2>1, DivMod
    <2>. QED
        BY <2>1, <2>2
<1>2. /\ g \in [1..row -> 0..(m - 1)]
      /\ \A i \in 1..row : BatchOf(i) \in 0..c /\ numbers[i] = NumberOf(base, BatchOf(i), g[i])
      /\ \A i, j \in 1..row : BatchOf(i) = BatchOf(j) /\ g[i] = g[j] => i = j
      /\ \A x \in 0..(m - 1) : \E i \in 1..row : BatchOf(i) = b /\ g[i] = x
    <2>1. \A x \in 0..(m - 1) : b < c \/ x \notin left
        BY <1>1
    <2>. QED
        BY <1>1, <2>1 DEF RowsOK
<1>3. \A i \in Int : i \in Batch(k) <=> i \in 1..row /\ BatchOf(i) = b
    <2>1. b * m \in Nat /\ k * m = b * m + m /\ k * m <= row
        <3>1. \A i, j \in Nat : i * j \in Nat /\ (i + 1) * j = i * j + j
            BY SMTT(30)
        <3>2. b * m \in Nat /\ k * m = b * m + m /\ k * m \in Nat
            BY <1>1, <3>1
        <3>. DEFINE p == row \div m
                    s == row % m
        <3>3. p \in Nat /\ s \in 0..(m - 1) /\ row = m * p + s /\ k <= p
            <4>1. p \in Nat /\ s \in 0..(m - 1) /\ row = m * p + s
                BY <1>1, DivMod
            <4>. HIDE DEF p
            <4>2. k \in 1..p
                BY DEF p
            <4>. QED
                BY <4>1, <4>2
        <3>. HIDE DEF m, p, s, b
        <3>4. m * (p - k) \in Nat /\ m * (p - k) = m * p - k * m /\ m * p \in Nat
            BY <1>1, <3>3, SMTT(30)
        <3>. QED
            BY <1>1, <3>2, <3>3, <3>4
    <2>2. Batch(k) = (b * m + 1)..(k * m)
        BY DEF Batch
    <2>. TAKE i \in Int
    <2>3. i \in Batch(k) => i - 1 \in Nat /\ i \in 1..row
        <3>. HIDE DEF m, b
        <3>. QED
            BY <1>1, <2>1, <2>2
    <2>4. ASSUME i \in 1..row PROVE i \in Batch(k) <=> BatchOf(i) = b
        <3>1. i - 1 \in Nat
            BY <2>4
        <3>2. BatchOf(i) = b <=> b * m <= i - 1 /\ i - 1 < b * m + m
            BY <1>1, <3>1, InBatch DEF BatchOf
        <3>. HIDE DEF m, b
        <3>. QED
            BY <1>1, <2>1, <2>2, <2>4, <3>2
    <2>. QED
        BY <2>3, <2>4
<1>4. Batch(k) \subseteq Int
    BY <1>1 DEF Batch
<1>5. \A x \in 0..(m - 1) : Rank(x) \in 0..(PerBatch - 1) /\ NumberOf(base, b, Rank(x)) = NumberOf(base, b, x)
    <2>. TAKE x \in 0..(m - 1)
    <2>1. Rank(x) \in 0..(PerBatch - 1)
        BY RankParts
    <2>2. Rank(x) \in 0..(m - 1) /\ Rank(x) < PerBatch
        BY <1>1, <2>1
    <2>3. Rank(Rank(x)) = Rank(x)
        BY <2>2, RankParts
    <2>. QED
        BY <2>1, <2>3 DEF NumberOf
<1>6. {numbers[i] : i \in Batch(k)} = part
    <2>1. ASSUME NEW i \in Batch(k) PROVE numbers[i] \in part
        <3>1. i \in 1..row /\ BatchOf(i) = b
            BY <1>3, <1>4
        <3>2. g[i] \in 0..(m - 1) /\ numbers[i] = NumberOf(base, b, g[i])
            BY <1>2, <3>1
        <3>. QED
            BY <1>5, <3>2
    <2>2. ASSUME NEW x \in 0..(PerBatch - 1) PROVE \E i \in Batch(k) : numbers[i] = NumberOf(base, b, x)
        <3>1. x \in 0..(m - 1)
            BY <1>1
        <3>2. PICK i \in 1..row : BatchOf(i) = b /\ g[i] = x
            BY <1>2, <3>1
        <3>. QED
            BY <1>2, <1>3, <3>2
    <2>. QED
        BY <2>1, <2>2
<1>7. Cardinality(part) = PerBatch
    <2>. DEFINE S == 0..(PerBatch - 1)
                f == [x \in S |-> NumberOf(base, b, x)]
    <2>1. \A x, y \in S : f[x] = f[y] => x = y
        <3>. TAKE x, y \in S
        <3>. HAVE f[x] = f[y]
        <3>1. x \in 0..(m - 1) /\ y \in 0..(m - 1) /\ x < PerBatch /\ y < PerBatch
            BY <1>1
        <3>2. Rank(x) = Rank(y)
            BY <1>1, <3>1, NumbersDiffer
        <3>. QED
            BY <3>1, <3>2, RankParts
    <2>2. IsFiniteSet(S) /\ Cardinality(S) = PerBatch
        <3>1. 0 \in Int /\ PerBatch - 1 \in Int
            BY <1>1
        <3>. QED
            <4>1. IsFiniteSet(0..(PerBatch - 1))
                  /\ Cardinality(0..(PerBatch - 1)) = IF 0 > PerBatch - 1 THEN 0 ELSE (PerBatch - 1) - 0 + 1
                BY <3>1, FS_Interval
            <4>2. ~(0 > PerBatch - 1) /\ (PerBatch - 1) - 0 + 1 = PerBatch
                BY <1>1
            <4>. QED
                BY <4>1, <4>2
    <2>3. f \in [S -> part] /\ \A v \in part : \E x \in S : f[x] = v
        OBVIOUS
    <2>. HIDE DEF S, f, part
    <2>4. f \in Bijection(S, part)
        BY <2>1, <2>3 DEF Bijection, Injection, Surjection, IsInjective
    <2>5. ExistsBijection(S, part)
        BY <2>4 DEF ExistsBijection
    <2>. QED
        BY <2>2, <2>5, FS_Bijection
<1>8. ASSUME NEW i \in Batch(k) PROVE Cardinality({j \in 1..row : numbers[j] = numbers[i]}) <= 2
    <2>. DEFINE S == {j \in 1..row : numbers[j] = numbers[i]}
    <2>1. i \in S
        BY <1>3, <1>4
    <2>2. \A j \in 1..row : BatchOf(j) \in 0..(q - 1) /\ g[j] \in 0..(m - 1)
        BY <1>1, <1>2
    <2>3. \A j \in S : BatchOf(j) = BatchOf(i) /\ Rank(g[j]) = Rank(g[i])
        BY <1>2, <2>1, <2>2, NumbersDiffer
    <2>4. \A j \in S : g[j] = Rank(g[i]) \/ g[j] = Rank(g[i]) + DupRows
        BY <2>2, <2>3, RankParts
    <2>5. ASSUME NEW y \in S, NEW z \in S, y # i, z # i PROVE y = z
        <3>1. g[y] # g[i] /\ g[z] # g[i]
            BY <1>2, <2>1, <2>3, <2>5
        <3>2. g[y] = g[z]
            BY <2>1, <2>4, <3>1
        <3>. QED
            BY <1>2, <2>3, <3>2
    <2>. HIDE DEF S
    <2>6. Cardinality(S) <= 2
        BY <2>1, <2>5, TwoAtMost
    <2>. QED
        BY <2>6 DEF S
<1>. QED
    BY <1>6, <1>7, <1>8 DEF Shared

(* In whole batches every place of a batch is taken once, whichever pool a *)
(* row draws from: uniqPool's numbers are on one row, the others on two.   *)
THEOREM SharesKept == Spec => []ShareInBatch
<1>1. Init => ShareOK
    <2>1. Init => Held = 0 /\ row = 0 /\ numbers = <<>>
        BY DEF Init, Held
    <2>. QED
        BY <2>1 DEF ShareOK
<1>2. IInv /\ ShareOK => ShareInBatch
    <2>. SUFFICES ASSUME IInv, ShareOK, WholeShare, NEW k \in 1..(row \div col.rowsInBatch)
                  PROVE  Shared(k)
        BY DEF ShareInBatch, WholeShare, Shared, PerBatch
    <2>. DEFINE m == col.rowsInBatch
                c == BatchOf(row)
    <2>1. Types /\ m \in Nat \ {0} /\ row \in Nat /\ row <= col.rows
        BY HeldTypes, WholeParts DEF IInv, Types
    <2>2. row # 0
        <3>1. 0 \div m = 0
            BY <2>1, SMTT(30)
        <3>. QED
            BY <3>1
    <2>3. row \in 1..col.rows /\ row \in Nat \ {0} /\ row > 0
        BY <2>1, <2>2, HeldTypes
    <2>4. c \in 0..((col.rows \div m) - 1)
        BY <2>1, <2>3, FileBatches
    <2>8. PICK base \in Numerals : \E g : /\ PoolsOK(base, c, last, uniq, dup)
                                          /\ RowsOK(base, c, LeftOf(uniq, dup), numbers, g)
        BY <2>3 DEF ShareOK
    <2>5. PICK g : /\ PoolsOK(base, c, last, uniq, dup)
                   /\ RowsOK(base, c, LeftOf(uniq, dup), numbers, g)
        BY <2>8
    <2>6. Len(numbers) = row /\ Held = (c + 1) * m - row
        BY <2>3 DEF ShareOK
    <2>7. k - 1 < c \/ (k - 1 = c /\ LeftOf(uniq, dup) = {})
        <3>1. /\ row \div m \in Nat /\ c \in Nat
              /\ row % m = 0 => row \div m = c + 1 /\ (row \div m) * m = row
              /\ row % m # 0 => row \div m = c
            BY <2>1, <2>3, BatchOfNext DEF BatchOf
        <3>2. CASE row % m = 0
            <4>1. Held = 0
                BY <2>1, <2>6, <3>1, <3>2
            <4>2. Len(uniq) = 0 /\ Len(dup[1]) = 0 /\ Len(dup[2]) = 0 /\ UniqRows \in Nat
                BY <2>1, <4>1, NoneHeld, WholeParts
            <4>3. LeftOf(uniq, dup) = {}
                BY <4>2 DEF LeftOf
            <4>. QED
                BY <3>1, <3>2, <4>3
        <3>3. CASE row % m # 0
            BY <3>1, <3>3
        <3>. QED
            BY <3>2, <3>3
    <2>. HIDE DEF c
    <2>. QED
        BY <2>1, <2>4, <2>5, <2>6, <2>7, BatchShare
<1>3. IInv /\ HeldOK /\ ShareOK /\ [Next]_vars => (IInv /\ HeldOK /\ ShareOK)'
    BY TakeUniqStep, TakeDupStep, TakeNothingStep, SkipStep, OtherStep, StepHeld, StepShare DEF Next, Calculate
<1>. QED
    BY <1>1, <1>2, <1>3, InitIInv, InitHeld, PTL DEF Spec
=============================================================================
