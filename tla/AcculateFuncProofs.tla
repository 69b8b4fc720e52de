-------------------------- MODULE AcculateFuncProofs --------------------------
(***************************************************************************)
(* Proofs about AcculateFunc, for every set of columns, every number of    *)
(* files and every width of the integers: the state has its types, and a   *)
(* column without jumps keeps to its range and counts on from file to      *)
(* file.  A column that starts again gives every file the same numbers,    *)
(* and of its batches each has a part of the range of its own.             *)
(***************************************************************************)
EXTENDS AcculateFunc, FiniteSetTheorems, TLAPS

Number64 == 0..(Modulus - 1)

(* Rows take numbers only in a column of the kind "number", so that the    *)
(* count of numbers never passes the count of rows.                        *)
TypeInv ==
    /\ TypeOK
    /\ col.kind # "number" => rowIdx = 0

-----------------------------------------------------------------------------
(* The arithmetic of the count.                                            *)

(* The remainder of an unsigned addition or subtraction is an integer of   *)
(* the same width.                                                         *)
LEMMA Wraps ==
    ASSUME NEW n \in Int
    PROVE  n % Modulus \in Number64
BY ColumnsAssumption DEF Number64

(* The fields of a column have the types process gives them.               *)
LEMMA Fields ==
    ASSUME NEW c \in Columns
    PROVE  /\ c.kind \in {"number", "file", "none"}
           /\ c.low \in Number64 /\ c.high \in Number64 /\ c.init \in Number64
           /\ c.step \in Nat /\ c.unit \in Nat /\ c.percentInBatch \in 0..100
           /\ c.rowsInBatch \in Nat /\ c.rows \in Nat \ {0} /\ c.lines \in Nat
BY ColumnsAssumption DEF Column, Number64

(* The clamped number is an integer of the width, within the bounds if     *)
(* they are in order.                                                      *)
LEMMA Clamps ==
    ASSUME TypeOK, NEW n \in Number64
    PROVE  /\ Clamped(n) \in Number64
           /\ col.low <= col.high => Clamped(n) \in col.low..col.high
BY Fields, ColumnsAssumption DEF TypeOK, Clamped, Number64

(* The number Calculate starts from.                                       *)
LEMMA LastIsClamped ==
    ASSUME TypeOK
    PROVE  /\ LastAt \in Number64
           /\ col.low <= col.high => LastAt \in col.low..col.high
<1> DEFINE n == IF row = 0 /\ col.reset THEN col.init ELSE last
<1>1. n \in Number64
    BY Fields DEF TypeOK, Number64
<1> HIDE DEF n
<1>2. LastAt = Clamped(n)
    BY DEF LastAt, n
<1> QED
    BY <1>1, <1>2, Clamps

(* A jump is an integer.                                                   *)
LEMMA JumpType ==
    ASSUME TypeOK
    PROVE  Jump \in Int
<1> DEFINE p == col.rowsInBatch * (100 - col.percentInBatch)
<1>1. p \in Int
    <2> DEFINE a == col.rowsInBatch
               b == 100 - col.percentInBatch
    <2>0. col.rowsInBatch \in Nat /\ col.percentInBatch \in 0..100
        BY Fields DEF TypeOK
    <2>1. a \in Int /\ b \in Int
        BY <2>0
    <2> HIDE DEF a, b
    <2>2. a * b \in Int
        BY <2>1
    <2> QED
        BY <2>2 DEF a, b
<1> HIDE DEF p
<1>2. Jump = p \div 100
    BY DEF Jump, p
<1> QED
    BY <1>1, <1>2

(* The number of a row is an integer of the width; without jumps it is the *)
(* clamped one.                                                            *)
LEMMA NumberType ==
    ASSUME TypeOK
    PROVE  /\ Number \in Number64
           /\ ~Batched => Number = LastAt
<1>1. (LastAt - Jump) % Modulus \in Number64
    <2>1. LastAt - Jump \in Int
        BY LastIsClamped, JumpType, ColumnsAssumption DEF Number64
    <2> QED
        BY <2>1, Wraps
<1> QED
    BY <1>1, LastIsClamped DEF Number

-----------------------------------------------------------------------------
(* Steps.                                                                  *)

(* What Give does to the typed state, whichever number it is given.        *)
LEMMA GiveType ==
    ASSUME TypeOK, row < col.rows,
           NEW n \in Number64, NEW next \in Number64, Give(n, next)
    PROVE  /\ col' \in Columns /\ row' \in 1..col'.rows /\ file' \in 1..MaxFiles
           /\ last' \in Number64
           /\ unit' \in 1..(IF col'.unit <= 1 THEN 1 ELSE col'.unit)
           /\ numbers' \in Seq(Number64 \union {Blank}) /\ Len(numbers') = row'
           /\ first' \in Seq(Number64 \union {Blank})
           /\ dead' \in BOOLEAN /\ drawn' \in Nat
<1>1. /\ col' \in Columns /\ file' \in 1..MaxFiles
      /\ first' \in Seq(Number64 \union {Blank}) /\ dead' \in BOOLEAN /\ drawn' \in Nat
    BY DEF Give, TypeOK, Number64
<1>2. row' \in 1..col'.rows
    BY Fields DEF Give, TypeOK
<1>3. last' \in Number64
    BY DEF Give
<1>4. unit' \in 1..(IF col'.unit <= 1 THEN 1 ELSE col'.unit)
    <2>1. CASE col.unit <= 1
        BY <2>1 DEF Give, TypeOK
    <2>2. CASE ~(col.unit <= 1)
        BY <2>2, Fields DEF Give, TypeOK, UnitEnds
    <2> QED
        BY <2>1, <2>2
<1>5. numbers' \in Seq(Number64 \union {Blank}) /\ Len(numbers') = row'
    <2>1. numbers \in Seq(Number64 \union {Blank}) /\ Len(numbers) = row
        BY DEF TypeOK, Number64
    <2> QED
        BY <2>1 DEF Give
<1> QED
    BY <1>1, <1>2, <1>3, <1>4, <1>5

(* A row that gets no number.                                              *)
LEMMA BlankType ==
    ASSUME TypeOK
    PROVE  /\ Append(numbers, Blank) \in Seq(Number64 \union {Blank})
           /\ Len(Append(numbers, Blank)) = row + 1
<1>1. numbers \in Seq(Number64 \union {Blank}) /\ Len(numbers) = row
    BY DEF TypeOK, Number64
<1> QED
    BY <1>1

LEMMA InitTypes == Init => TypeInv
<1> SUFFICES ASSUME Init PROVE TypeInv
    OBVIOUS
<1>1. dead \in BOOLEAN
    BY DEF Init
<1>2. /\ col \in Columns /\ row = 0 /\ file = 1 /\ last = col.init /\ rowIdx = 0 /\ unit = 1
      /\ numbers = <<>> /\ first = <<>> /\ drawn = 0
    BY DEF Init
<1> QED
    BY <1>1, <1>2, Fields, ColumnsAssumption DEF TypeInv, TypeOK, Number64

(* Every action keeps the types.                                           *)
LEMMA StepTypes == TypeInv /\ [Next]_vars => TypeInv'
<1> SUFFICES ASSUME TypeInv, [Next]_vars PROVE TypeInv'
    OBVIOUS
<1> USE DEF TypeInv
<1>0. TypeOK
    OBVIOUS
<1>1. CASE Draw
    <2>1. Give(Number, (Number + col.step) % Modulus) /\ row < col.rows /\ col.kind = "number"
        BY <1>1 DEF Draw, Calculates
    <2>2. (Number + col.step) % Modulus \in Number64
        <3>1. Number + col.step \in Int
            BY <1>0, NumberType, Fields, ColumnsAssumption DEF TypeOK, Number64
        <3> QED
            BY <3>1, Wraps
    <2>3. /\ col' \in Columns /\ row' \in 1..col'.rows /\ file' \in 1..MaxFiles
          /\ last' \in Number64
          /\ unit' \in 1..(IF col'.unit <= 1 THEN 1 ELSE col'.unit)
          /\ numbers' \in Seq(Number64 \union {Blank}) /\ Len(numbers') = row'
          /\ first' \in Seq(Number64 \union {Blank})
          /\ dead' \in BOOLEAN /\ drawn' \in Nat
        BY <1>0, <2>1, <2>2, NumberType, GiveType
    <2>4. rowIdx' \in 0..row'
        <3>1. RowIdxAt \in 0..row /\ row \in Nat
            BY Fields DEF TypeOK, RowIdxAt
        <3>2. row' = row + 1
            BY <2>1 DEF Give
        <3> QED
            BY <1>1, <3>1, <3>2 DEF Draw
    <2>5. col' = col
        BY <2>1 DEF Give
    <2> QED
        BY <2>1, <2>3, <2>4, <2>5 DEF TypeOK, Number64
<1>2. CASE Skip
    <2>1. LastAt \in Number64
        BY <1>0, LastIsClamped
    <2>2. RowIdxAt \in 0..row /\ row \in Nat
        BY Fields DEF TypeOK, RowIdxAt
    <2>3. /\ numbers' \in Seq(Number64 \union {Blank}) /\ Len(numbers') = row'
        BY <1>0, <1>2, BlankType DEF Skip, Leave
    <2> QED
        BY <1>2, <2>1, <2>2, <2>3, Fields DEF Skip, Leave, Calculates, TypeOK, Number64
<1>3. CASE FileAcculate
    <2> DEFINE n == LineAt
    <2>1. n \in Number64
        BY ColumnsAssumption DEF TypeOK, Number64, LineAt
    <2>2. Give(n, (n + 1) % Modulus)
        BY <1>3 DEF FileAcculate
    <2> HIDE DEF n
    <2>3. (n + 1) % Modulus \in Number64
        <3>1. n + 1 \in Int
            BY <2>1 DEF Number64
        <3> QED
            BY <3>1, Wraps
    <2>4. row < col.rows /\ rowIdx' = 0 /\ col' = col
        BY <1>3, <2>2 DEF FileAcculate, Calculates, Give
    <2>5. /\ col' \in Columns /\ row' \in 1..col'.rows /\ file' \in 1..MaxFiles
          /\ last' \in Number64
          /\ unit' \in 1..(IF col'.unit <= 1 THEN 1 ELSE col'.unit)
          /\ numbers' \in Seq(Number64 \union {Blank}) /\ Len(numbers') = row'
          /\ first' \in Seq(Number64 \union {Blank})
          /\ dead' \in BOOLEAN /\ drawn' \in Nat
        BY <1>0, <2>1, <2>2, <2>3, <2>4, GiveType
    <2> QED
        BY <2>4, <2>5 DEF TypeOK, Number64
<1>4. CASE Misfit \/ NoLines
    <2>1. /\ numbers' \in Seq(Number64 \union {Blank}) /\ Len(numbers') = row'
        BY <1>0, <1>4, BlankType DEF Misfit, NoLines, Leave
    <2>2. last' \in Number64
        BY <1>4, ColumnsAssumption DEF Misfit, NoLines, LineAt, TypeOK, Number64
    <2>3. /\ UNCHANGED <<col, file, unit, dead, first, drawn, rowIdx>> /\ row' = row + 1
          /\ row < col.rows /\ col.kind # "number"
        BY <1>4 DEF Misfit, NoLines, Leave, Calculates
    <2>4. rowIdx = 0 /\ col.rows \in Nat /\ row \in Nat
        BY <2>3, Fields DEF TypeOK
    <2>5. row' \in 0..col'.rows /\ rowIdx' \in 0..(IF row' = 0 THEN col'.rows ELSE row')
        BY <2>3, <2>4
    <2>6. /\ col' \in Columns /\ file' \in 1..MaxFiles
          /\ unit' \in 1..(IF col'.unit <= 1 THEN 1 ELSE col'.unit)
          /\ first' \in Seq(Number64 \union {Blank}) /\ dead' \in BOOLEAN /\ drawn' \in Nat
        BY <2>3 DEF TypeOK, Number64
    <2>7. TypeOK'
        BY <2>1, <2>2, <2>5, <2>6 DEF TypeOK, Number64
    <2>8. col'.kind # "number" => rowIdx' = 0
        BY <2>3, <2>4
    <2> QED
        BY <2>7, <2>8
<1>5. CASE NextFile
    BY <1>5, Fields, ColumnsAssumption DEF NextFile, TypeOK
<1>6. CASE Die \/ UNCHANGED vars
    BY <1>6 DEF Die, vars, TypeOK
<1> QED
    BY <1>1, <1>2, <1>3, <1>4, <1>5, <1>6 DEF Next, Calculate

(* The state has its types, for every column, and the rows of a number are *)
(* never more than its unit.                                               *)
THEOREM TypeCorrect == Spec => []TypeOK
<1>1. TypeInv => TypeOK
    BY DEF TypeInv
<1> QED
    BY <1>1, InitTypes, StepTypes, PTL DEF Spec

-----------------------------------------------------------------------------
(* The range.                                                              *)

(* A row more, with a number in the range or without one.                  *)
LEMMA RangeAppend ==
    ASSUME TypeOK, InRange, NEW n \in Number64 \union {Blank},
           col' = col, numbers' = Append(numbers, n),
           col.kind = "number" /\ ~Batched /\ col.low <= col.high /\ n # Blank
               => n \in col.low..col.high
    PROVE  InRange'
<1> SUFFICES ASSUME col.kind = "number", ~Batched, col.low <= col.high,
                    NEW i \in DOMAIN numbers', numbers'[i] # Blank
             PROVE  numbers'[i] \in col.low..col.high
    BY DEF InRange, Given, Batched
<1>1. numbers \in Seq(Number64 \union {Blank})
    BY DEF TypeOK, Number64
<1>2. CASE i \in DOMAIN numbers
    <2>1. numbers'[i] = numbers[i]
        BY <1>1, <1>2
    <2> QED
        BY <1>2, <2>1 DEF InRange, Given
<1>3. CASE i \notin DOMAIN numbers
    <2>1. numbers'[i] = n
        BY <1>1, <1>3
    <2> QED
        BY <2>1
<1> QED
    BY <1>2, <1>3

(* A number without a jump is clamped, so that every action keeps the      *)
(* numbers of the file in the range.                                       *)
LEMMA StepRange == TypeOK /\ InRange /\ [Next]_vars => InRange'
<1> SUFFICES ASSUME TypeOK, InRange, [Next]_vars PROVE InRange'
    OBVIOUS
<1>1. CASE Draw
    <2>1. col' = col /\ numbers' = Append(numbers, Number)
        BY <1>1 DEF Draw, Give
    <2>2. Number \in Number64 \union {Blank}
        BY NumberType
    <2>3. ~Batched /\ col.low <= col.high => Number \in col.low..col.high
        BY NumberType, LastIsClamped
    <2> QED
        BY <2>1, <2>2, <2>3, RangeAppend
<1>2. CASE Skip \/ Misfit \/ NoLines
    <2>1. col' = col /\ numbers' = Append(numbers, Blank)
        BY <1>2 DEF Skip, Misfit, NoLines, Leave
    <2> QED
        BY <2>1, RangeAppend
<1>3. CASE FileAcculate
    BY <1>3 DEF FileAcculate, Calculates, Give, InRange
<1>4. CASE NextFile
    BY <1>4 DEF NextFile, InRange, Given
<1>5. CASE Die \/ UNCHANGED vars
    BY <1>5 DEF Die, vars, InRange, Given, Batched
<1> QED
    BY <1>1, <1>2, <1>3, <1>4, <1>5 DEF Next, Calculate

(* Whatever first number, step, unit and percentage a column without jumps *)
(* has, and wherever the integers wrap, it stays within its bounds.        *)
THEOREM RangeKept == Spec => []InRange
<1>1. Init => InRange
    BY DEF Init, InRange, Given
<1> QED
    BY <1>1, StepRange, TypeCorrect, PTL DEF Spec

-----------------------------------------------------------------------------
(* The arithmetic of quotients.                                            *)

LEMMA Multiple ==
    ASSUME NEW m \in Nat, NEW d \in Nat \ {0}
    PROVE  m * d >= m
BY SMTT(30)

(* A quotient and a remainder are the only ones.                           *)
LEMMA Quotient ==
    ASSUME NEW m \in Nat \ {0}, NEW q \in Nat, NEW r \in 0..(m - 1)
    PROVE  (m * q + r) \div m = q /\ (m * q + r) % m = r
<1> DEFINE p == (m * q + r) \div m
           t == (m * q + r) % m
<1>1. m * q + r \in Nat
    BY SMTT(30)
<1>2. \A a \in Nat : a \div m \in Nat /\ a % m \in 0..(m - 1) /\ a = m * (a \div m) + (a % m)
    BY SMTT(30)
<1>3. p \in Nat /\ t \in 0..(m - 1) /\ m * q + r = m * p + t
    BY <1>1, <1>2
<1> HIDE DEF p, t
<1>4. CASE p > q
    <2>1. p - q \in Nat \ {0}
        BY <1>3, <1>4
    <2>2. m * (p - q) >= m
        BY <2>1, Multiple
    <2>3. m * (p - q) = m * p - m * q
        BY <1>3, SMTT(30)
    <2> QED
        BY <2>2, <2>3, <1>3
<1>5. CASE q > p
    <2>1. q - p \in Nat \ {0}
        BY <1>3, <1>5
    <2>2. m * (q - p) >= m
        BY <2>1, Multiple
    <2>3. m * (q - p) = m * q - m * p
        BY <1>3, SMTT(30)
    <2> QED
        BY <2>2, <2>3, <1>3
<1>6. CASE p = q
    BY <1>3, <1>6 DEF p, t
<1> QED
    BY <1>3, <1>4, <1>5, <1>6

(* k steps of size s fit into n just when k is at most the quotient.       *)
LEMMA StepsThatFit ==
    ASSUME NEW n \in Nat, NEW s \in Nat \ {0}, NEW k \in Nat
    PROVE  n \div s \in Nat /\ (k <= n \div s <=> k * s <= n)
<1> DEFINE p == n \div s
           t == n % s
<1>1. p \in Nat /\ t \in 0..(s - 1) /\ n = s * p + t
    BY SMTT(30)
<1> HIDE DEF p, t
<1>2. CASE k <= p
    <2>1. (p - k) * s \in Nat /\ p * s = k * s + (p - k) * s /\ s * p = p * s /\ k * s \in Nat
        BY <1>1, <1>2, SMTT(30)
    <2> QED
        BY <1>1, <1>2, <2>1 DEF p
<1>3. CASE k > p
    <2>1. k - p \in Nat \ {0}
        BY <1>1, <1>3
    <2>2. s * (k - p) >= s
        BY <2>1, Multiple
    <2>3. s * (k - p) = k * s - s * p /\ s * p \in Nat /\ k * s \in Nat
        BY <1>1, SMTT(30)
    <2> QED
        BY <1>1, <1>3, <2>2, <2>3 DEF p
<1> QED
    BY <1>1, <1>2, <1>3

(* The quotient and the remainder of the next number.                      *)
LEMMA NextQuotient ==
    ASSUME NEW a \in Nat, NEW m \in Nat \ {0}
    PROVE  /\ a \div m \in Nat /\ a % m \in 0..(m - 1)
           /\ a % m = m - 1 => (a + 1) % m = 0 /\ (a + 1) \div m = (a \div m) + 1
           /\ a % m # m - 1 => (a + 1) % m = (a % m) + 1 /\ (a + 1) \div m = a \div m
<1> DEFINE q == a \div m
           r == a % m
<1>1. q \in Nat /\ r \in 0..(m - 1) /\ a = m * q + r
    BY SMTT(30)
<1> HIDE DEF q, r
<1>2. CASE r = m - 1
    <2>1. a + 1 = m * (q + 1) + 0 /\ q + 1 \in Nat /\ 0 \in 0..(m - 1)
        BY <1>1, <1>2, SMTT(30)
    <2>2. (m * (q + 1) + 0) % m = 0 /\ (m * (q + 1) + 0) \div m = q + 1
        BY <2>1, Quotient
    <2> QED
        BY <1>1, <1>2, <2>1, <2>2 DEF q, r
<1>3. CASE r # m - 1
    <2>1. a + 1 = m * q + (r + 1) /\ r + 1 \in 0..(m - 1)
        BY <1>1, <1>3, SMTT(30)
    <2>2. (m * q + (r + 1)) % m = r + 1 /\ (m * q + (r + 1)) \div m = q
        BY <1>1, <2>1, Quotient
    <2> QED
        BY <1>1, <1>3, <2>1, <2>2 DEF q, r
<1> QED
    BY <1>2, <1>3

-----------------------------------------------------------------------------
(* The count.                                                              *)

(* The number q of the count from a by s through l..h.                     *)
CountFrom(l, h, a, s, q) ==
    LET toEnd == (h - a) \div s + 1
        round == (h - l) \div s + 1
    IN  IF q < toEnd THEN a + q * s ELSE l + ((q - toEnd) % round) * s

(* The count stays in its range, and its next number is the one a step on, *)
(* or the lower bound when the step leaves the range.                      *)
LEMMA NextOfCount ==
    ASSUME NEW s \in Nat \ {0}, NEW h \in Nat, NEW l \in 0..h, NEW a \in l..h, NEW q \in Nat
    PROVE  /\ CountFrom(l, h, a, s, q) \in l..h
           /\ CountFrom(l, h, a, s, q + 1) =
                 IF CountFrom(l, h, a, s, q) + s > h THEN l ELSE CountFrom(l, h, a, s, q) + s
<1> DEFINE p == (h - a) \div s
           m == (h - l) \div s
           N(k) == CountFrom(l, h, a, s, k)
<1>1. h - a \in Nat /\ h - l \in Nat /\ q + 1 \in Nat
    OBVIOUS
<1>2. p \in Nat /\ \A k \in Nat : k <= p <=> k * s <= h - a
    BY <1>1, StepsThatFit
<1>3. m \in Nat /\ \A k \in Nat : k <= m <=> k * s <= h - l
    BY <1>1, StepsThatFit
<1>4. \A k \in Nat : N(k) = IF k < p + 1 THEN a + k * s ELSE l + ((k - (p + 1)) % (m + 1)) * s
    BY DEF CountFrom
<1>5. \A k \in Nat : k * s \in Nat /\ (k + 1) * s = k * s + s
    BY SMTT(30)
<1> HIDE DEF p, m, N
<1>6. q * s \in Nat /\ (q + 1) * s = q * s + s
    BY <1>5
<1>7. (q <= p <=> q * s <= h - a) /\ (q + 1 <= p <=> q * s + s <= h - a)
    BY <1>1, <1>2, <1>6
<1>8. CASE q + 1 <= p
    <2>1. N(q) = a + q * s /\ N(q + 1) = a + (q * s + s)
        BY <1>1, <1>2, <1>4, <1>6, <1>8
    <2> QED
        BY <2>1, <1>6, <1>7, <1>8, <1>2 DEF N
<1>9. CASE q = p
    <2>1. N(q) = a + q * s
        BY <1>2, <1>4, <1>9
    <2>2. N(q + 1) = l + ((q + 1 - (p + 1)) % (m + 1)) * s
        BY <1>1, <1>2, <1>4, <1>9
    <2>3. q + 1 - (p + 1) = 0 /\ 0 % (m + 1) = 0 /\ 0 * s = 0
        BY <1>2, <1>3, <1>9
    <2>4. N(q + 1) = l
        BY <2>2, <2>3
    <2> QED
        BY <2>1, <2>4, <1>2, <1>6, <1>7, <1>9 DEF N
<1>10. CASE q > p
    <2> DEFINE d == q - (p + 1)
               r == d % (m + 1)
    <2>1. d \in Nat /\ q + 1 - (p + 1) = d + 1 /\ m + 1 \in Nat \ {0}
        BY <1>2, <1>3, <1>10
    <2>2. r \in 0..m /\ (d + 1) % (m + 1) = IF r = m THEN 0 ELSE r + 1
        <3> HIDE DEF d
        <3>1. /\ d % (m + 1) \in 0..((m + 1) - 1)
              /\ d % (m + 1) = (m + 1) - 1 => (d + 1) % (m + 1) = 0
              /\ d % (m + 1) # (m + 1) - 1 => (d + 1) % (m + 1) = (d % (m + 1)) + 1
            BY <2>1, NextQuotient
        <3> QED
            BY <3>1, <1>3
    <2>3. N(q) = l + r * s /\ N(q + 1) = l + ((d + 1) % (m + 1)) * s
        BY <1>1, <1>2, <1>4, <1>10, <2>1
    <2> HIDE DEF d, r
    <2>4. r * s \in Nat /\ (r + 1) * s = r * s + s /\ r + 1 \in Nat /\ r \in Nat
        BY <1>3, <1>5, <2>2
    <2>5. r * s <= h - l /\ (r + 1 <= m <=> r * s + s <= h - l)
        BY <1>3, <2>2, <2>4
    <2>6. CASE r = m
        <3>1. N(q + 1) = l + 0 * s /\ 0 * s = 0
            BY <2>2, <2>3, <2>6
        <3> QED
            BY <3>1, <2>3, <2>4, <2>5, <2>6, <1>3 DEF N
    <2>7. CASE r # m
        <3>1. N(q + 1) = l + (r * s + s)
            BY <2>2, <2>3, <2>4, <2>7
        <3> QED
            BY <3>1, <2>2, <2>3, <2>4, <2>5, <2>7, <1>3 DEF N
    <2> QED
        BY <2>6, <2>7
<1> QED
    BY <1>2, <1>8, <1>9, <1>10

(* The columns that count through all files.                               *)
Counting ==
    /\ col.kind = "file" \/ (col.kind = "number" /\ ~Batched /\ ~col.reset)
    /\ Lowest <= Highest /\ Step > 0 /\ EndsInTime

RowsOfNumber == IF col.unit <= 1 THEN 1 ELSE col.unit

(* The number the next row gets if the last one was n.                     *)
From(n) == IF n < Lowest \/ n > Highest THEN Lowest ELSE n

(* q numbers have had all their rows and the next has had some of its own. *)
CountInv ==
    Counting => \E q \in Nat : drawn = RowsOfNumber * q + (unit - 1) /\ From(last) = Nth(q)

(* Of the rows with a number there is a last one.                          *)
LastGiven == Given # {} => Max(Given) \in Given

LEMMA CountParts ==
    ASSUME TypeOK, Counting
    PROVE  /\ Step \in Nat \ {0} /\ Highest \in Nat /\ Lowest \in 0..Highest
           /\ Start \in Lowest..Highest /\ Highest + Step < Modulus
           /\ RowsOfNumber \in Nat \ {0} /\ unit \in 1..RowsOfNumber
           /\ UnitEnds <=> unit = RowsOfNumber
           /\ \A q \in Nat : Nth(q) = CountFrom(Lowest, Highest, Start, Step, q)
<1>1. col \in Columns
    BY DEF TypeOK
<1>2. CASE col.kind = "file"
    <2>1. Step \in Nat \ {0} /\ Highest \in Nat /\ Lowest \in 0..Highest /\ Start \in Lowest..Highest
        BY <1>1, <1>2, Fields, ColumnsAssumption DEF Counting, Step, Highest, Lowest, Start, Number64
    <2> QED
        BY <1>1, <2>1, Fields
           DEF TypeOK, Counting, EndsInTime, RowsOfNumber, UnitEnds, Nth, CountFrom
<1>3. CASE col.kind = "number"
    <2>1. Lowest = col.low /\ Highest = col.high /\ Step = col.step /\ Start = Clamped(col.init)
        BY <1>3 DEF Step, Highest, Lowest, Start
    <2>2. col.low <= col.high
        BY <2>1 DEF Counting
    <2>3. Start \in Lowest..Highest
        BY <1>1, <2>1, <2>2, Fields, Clamps
    <2>4. Step \in Nat \ {0} /\ Highest \in Nat /\ Lowest \in 0..Highest
        BY <1>1, <2>1, <2>2, Fields, ColumnsAssumption DEF Counting, Number64
    <2> QED
        BY <1>1, <2>3, <2>4, Fields
           DEF TypeOK, Counting, EndsInTime, RowsOfNumber, UnitEnds, Nth, CountFrom
<1> QED
    BY <1>2, <1>3 DEF Counting

(* The numbers of the count are in the range, and the number behind each   *)
(* is the next, the end of the integers being beyond that of the range.    *)
LEMMA NthParts ==
    ASSUME TypeOK, Counting, NEW q \in Nat
    PROVE  /\ Nth(q) \in Lowest..Highest /\ From(Nth(q)) = Nth(q)
           /\ (Nth(q) + Step) % Modulus = Nth(q) + Step
           /\ From(Nth(q) + Step) = Nth(q + 1)
<1>1. /\ Step \in Nat \ {0} /\ Highest \in Nat /\ Lowest \in 0..Highest
      /\ Start \in Lowest..Highest /\ Highest + Step < Modulus
    BY CountParts
<1> DEFINE n == Nth(q)
           next == Nth(q + 1)
<1>2. n \in Lowest..Highest /\ next = IF n + Step > Highest THEN Lowest ELSE n + Step
    <2>1. Nth(q) = CountFrom(Lowest, Highest, Start, Step, q)
          /\ Nth(q + 1) = CountFrom(Lowest, Highest, Start, Step, q + 1)
        BY CountParts
    <2> HIDE DEF Counting
    <2> QED
        BY <1>1, <2>1, NextOfCount
<1> HIDE DEF n, next
<1>3. n + Step \in 0..(Modulus - 1)
    BY <1>1, <1>2, ColumnsAssumption
<1>4. \A m \in 0..(Modulus - 1) : m % Modulus = m
    BY ColumnsAssumption, SMTT(30)
<1>5. (n + Step) % Modulus = n + Step
    BY <1>3, <1>4
<1>6. From(n) = n /\ From(n + Step) = next
    BY <1>1, <1>2 DEF From
<1> QED
    BY <1>2, <1>5, <1>6 DEF n, next

(* The largest of some numbers.                                            *)
LEMMA MaxIs ==
    ASSUME NEW S \in SUBSET Int, NEW m \in S, \A k \in S : m >= k
    PROVE  Max(S) = m
<1> DEFINE x == CHOOSE k \in S : \A j \in S : k >= j
<1>1. x \in S /\ \A j \in S : x >= j
    OBVIOUS
<1>2. Max(S) = x
    BY DEF Max
<1> HIDE DEF x
<1>3. x >= m /\ m >= x /\ x \in Int /\ m \in Int
    BY <1>1
<1> QED
    BY <1>2, <1>3

(* A row more, with a number or without.                                   *)
LEMMA GivenAppend ==
    ASSUME TypeOK, NEW n \in Nat, numbers' = Append(numbers, n)
    PROVE  /\ Given' # {} /\ Max(Given') = Len(numbers) + 1 /\ numbers'[Len(numbers) + 1] = n
           /\ LastGiven'
<1>1. numbers \in Seq(Number64 \union {Blank}) /\ Number64 \subseteq Nat
    BY DEF TypeOK, Number64
<1> DEFINE m == Len(numbers) + 1
<1>2. m \in Nat /\ DOMAIN numbers' = 1..m /\ numbers'[m] = n
    BY <1>1
<1> HIDE DEF m
<1>3. m \in Given' /\ Given' \in SUBSET Int /\ \A k \in Given' : m >= k
    BY <1>2 DEF Given, Blank
<1>4. Max(Given') = m
    <2> DEFINE S == Given'
    <2>1. m \in S /\ S \in SUBSET Int /\ \A k \in S : m >= k
        BY <1>3
    <2> HIDE DEF S
    <2>2. Max(S) = m
        BY <2>1, MaxIs
    <2> QED
        BY <2>2 DEF S
<1>5. LastGiven'
    BY <1>3, <1>4 DEF LastGiven
<1> QED
    BY <1>2, <1>3, <1>4, <1>5 DEF m

LEMMA GivenBlank ==
    ASSUME TypeOK, LastGiven, numbers' = Append(numbers, Blank)
    PROVE  Given' = Given /\ (\A i \in Given : numbers'[i] = numbers[i]) /\ LastGiven'
<1>1. numbers \in Seq(Number64 \union {Blank})
    BY DEF TypeOK, Number64
<1>2. Given' = Given /\ (\A i \in Given : numbers'[i] = numbers[i])
    BY <1>1 DEF Given
<1> QED
    BY <1>2 DEF LastGiven

(* What depends on the column only.                                        *)
LEMMA SameCount ==
    ASSUME col' = col
    PROVE  /\ Counting' <=> Counting
           /\ RowsOfNumber' = RowsOfNumber
           /\ \A q : Nth(q)' = Nth(q)
           /\ From(last)' = From(last')
           /\ Nth((drawn - 1) \div RowsOfNumber)' = Nth((drawn' - 1) \div RowsOfNumber)
BY DEF Counting, Batched, Lowest, Highest, Step, EndsInTime, RowsOfNumber, Nth, Start, Clamped, From

(* A row that gets the number it is the turn of.                           *)
LEMMA GiveCounts ==
    ASSUME TypeOK, CountInv, Counting, Give(From(last), (From(last) + Step) % Modulus)
    PROVE  CountInv' /\ CountsOn'
<1>1. PICK q \in Nat : drawn = RowsOfNumber * q + (unit - 1) /\ From(last) = Nth(q)
    BY DEF CountInv
<1>2. /\ Nth(q) \in Lowest..Highest /\ From(Nth(q)) = Nth(q)
      /\ (Nth(q) + Step) % Modulus = Nth(q) + Step
      /\ From(Nth(q) + Step) = Nth(q + 1)
    BY NthParts
<1>3. /\ RowsOfNumber \in Nat \ {0} /\ unit \in 1..RowsOfNumber
      /\ Lowest \in Nat /\ Highest \in Nat /\ (UnitEnds <=> unit = RowsOfNumber)
    BY CountParts
<1>4. /\ numbers' = Append(numbers, Nth(q)) /\ drawn' = drawn + 1 /\ col' = col
      /\ last' = IF UnitEnds THEN Nth(q) + Step ELSE Nth(q)
      /\ unit' = IF col.unit <= 1 THEN unit ELSE IF UnitEnds THEN 1 ELSE unit + 1
    BY <1>1, <1>2 DEF Give
<1>5. Nth(q) \in Nat
    BY <1>2, <1>3
<1>6. /\ RowsOfNumber' = RowsOfNumber
      /\ \A k : Nth(k)' = Nth(k)
      /\ From(last)' = From(last')
      /\ Nth((drawn - 1) \div RowsOfNumber)' = Nth((drawn' - 1) \div RowsOfNumber)
    BY <1>4, SameCount
<1>7. CountsOn'
    <2> DEFINE u == RowsOfNumber
    <2>1. drawn' - 1 = u * q + (unit - 1)
        <3>1. u * q \in Nat
            BY <1>3, SMTT(30)
        <3> QED
            BY <1>1, <1>3, <1>4, <3>1
    <2>2. (u * q + (unit - 1)) \div u = q
        <3>1. u \in Nat \ {0} /\ unit - 1 \in 0..(u - 1)
            BY <1>3
        <3> HIDE DEF u
        <3> QED
            BY <3>1, Quotient
    <2>3. Given' # {} /\ numbers'[Max(Given')] = Nth(q)
        BY <1>4, <1>5, GivenAppend
    <2>4. (drawn' - 1) \div RowsOfNumber = q
        BY <1>6, <2>1, <2>2
    <2>5. numbers'[Max(Given')] = Nth((drawn - 1) \div RowsOfNumber)'
        BY <1>6, <2>3, <2>4
    <2> QED
        BY <2>5 DEF CountsOn, RowsOfNumber
<1>8. CountInv'
    <2> DEFINE u == RowsOfNumber
    <2>1. /\ u * q \in Nat /\ u * (q + 1) = u * q + u /\ u \in Nat \ {0} /\ unit \in 1..u
        BY <1>3, SMTT(30)
    <2>2. CASE UnitEnds
        <3>1. unit' = 1 /\ unit = u
            BY <1>3, <1>4, <2>2 DEF RowsOfNumber
        <3>2. drawn' = u * (q + 1) + (unit' - 1)
            BY <1>1, <1>4, <2>1, <3>1
        <3>3. From(last)' = Nth(q + 1)'
            BY <1>2, <1>4, <1>6, <2>2
        <3>4. q + 1 \in Nat
            OBVIOUS
        <3> QED
            BY <1>6, <3>2, <3>3, <3>4 DEF CountInv
    <2>3. CASE ~UnitEnds
        <3>1. unit' = unit + 1
            BY <1>4, <2>3 DEF UnitEnds
        <3>2. drawn' = u * q + (unit' - 1)
            BY <1>1, <1>4, <2>1, <3>1
        <3>3. From(last)' = Nth(q)'
            BY <1>2, <1>4, <1>6, <2>3
        <3> QED
            BY <1>6, <3>2, <3>3 DEF CountInv
    <2> QED
        BY <2>2, <2>3
<1> QED
    BY <1>7, <1>8

(* A row that gets none; the number may be clamped early.                  *)
LEMMA SkipCounts ==
    ASSUME TypeOK, CountInv, CountsOn, LastGiven, col' = col, numbers' = Append(numbers, Blank),
           drawn' = drawn, unit' = unit, Counting => last' \in {last, From(last)}
    PROVE  CountInv' /\ CountsOn'
<1>1. /\ Counting' <=> Counting
      /\ RowsOfNumber' = RowsOfNumber
      /\ \A k : Nth(k)' = Nth(k)
      /\ From(last)' = From(last')
      /\ Nth((drawn - 1) \div RowsOfNumber)' = Nth((drawn' - 1) \div RowsOfNumber)
    BY SameCount
<1>2. CountInv'
    <2> SUFFICES ASSUME Counting
                 PROVE  \E q \in Nat : drawn' = RowsOfNumber' * q + (unit' - 1)
                                       /\ From(last)' = Nth(q)'
        BY <1>1 DEF CountInv
    <2>1. PICK q \in Nat : drawn = RowsOfNumber * q + (unit - 1) /\ From(last) = Nth(q)
        BY DEF CountInv
    <2>2. From(Nth(q)) = Nth(q)
        BY NthParts
    <2>3. From(last') = Nth(q)
        BY <2>1, <2>2
    <2> QED
        BY <1>1, <2>1, <2>3
<1>3. CountsOn'
    <2>1. Given' = Given /\ \A i \in Given : numbers'[i] = numbers[i]
        BY GivenBlank
    <2>2. CASE Counting /\ Given # {}
        <3> DEFINE m == Max(Given)
        <3>1. numbers[m] = Nth((drawn - 1) \div RowsOfNumber)
            BY <2>2 DEF CountsOn, Counting, RowsOfNumber
        <3>2. m \in Given
            BY <2>2 DEF LastGiven
        <3>3. Max(Given') = m
            BY <2>1
        <3> HIDE DEF m
        <3>4. numbers'[Max(Given')] = Nth((drawn - 1) \div RowsOfNumber)'
            BY <1>1, <2>1, <3>1, <3>2, <3>3
        <3> QED
            BY <3>4 DEF CountsOn, RowsOfNumber
    <2>3. CASE ~(Counting /\ Given # {})
        <3>1. ~(Counting' /\ Given' # {})
            BY <1>1, <2>1, <2>3
        <3> QED
            BY <3>1 DEF CountsOn, Counting
    <2> QED
        BY <2>2, <2>3
<1> QED
    BY <1>2, <1>3

LEMMA InitCounts == Init => CountInv /\ CountsOn /\ LastGiven
<1> SUFFICES ASSUME Init PROVE CountInv /\ CountsOn /\ LastGiven
    OBVIOUS
<1>1. Given = {}
    BY DEF Init, Given
<1>2. TypeOK
    BY InitTypes DEF TypeInv
<1>3. CountInv
    <2> SUFFICES ASSUME Counting
                 PROVE  drawn = RowsOfNumber * 0 + (unit - 1) /\ From(last) = Nth(0)
        BY DEF CountInv
    <2>1. RowsOfNumber \in Nat \ {0} /\ unit = 1 /\ drawn = 0
        BY <1>2, CountParts DEF Init
    <2>2. /\ Step \in Nat \ {0} /\ Highest \in Nat /\ Lowest \in 0..Highest
          /\ Start \in Lowest..Highest
          /\ Nth(0) = CountFrom(Lowest, Highest, Start, Step, 0)
        BY <1>2, CountParts
    <2>3. Nth(0) = Start
        <3>1. (Highest - Start) \div Step \in Nat
            BY <2>2, StepsThatFit
        <3>2. 0 * Step = 0 /\ Start + 0 = Start
            BY <2>2
        <3> QED
            BY <2>2, <3>1, <3>2 DEF CountFrom
    <2>4. From(last) = Start
        <3>1. CASE col.kind = "file"
            <4>1. last = col.init /\ Lowest = 0 /\ Start = IF last > Highest THEN Lowest ELSE last
                BY <3>1 DEF Init, Lowest, Start
            <4>2. last \in Nat
                BY <1>2, ColumnsAssumption DEF TypeOK
            <4> QED
                BY <2>2, <4>1, <4>2 DEF From
        <3>2. CASE col.kind # "file"
            BY <3>2 DEF Init, From, Start, Lowest, Highest, Clamped
        <3> QED
            BY <3>1, <3>2
    <2> QED
        BY <2>1, <2>3, <2>4
<1> QED
    BY <1>1, <1>3 DEF CountsOn, LastGiven

(* The line of a file that comes next.                                     *)
LEMMA LineIsNext ==
    ASSUME TypeInv, col.kind = "file"
    PROVE  LineAt = From(last)
<1>1. Lowest = 0 /\ Highest = col.lines - 1 /\ last \in Nat
    BY ColumnsAssumption DEF Lowest, Highest, TypeInv, TypeOK
<1> QED
    BY <1>1 DEF From, LineAt

LEMMA StepCounts ==
    TypeInv /\ CountInv /\ CountsOn /\ LastGiven /\ [Next]_vars
        => CountInv' /\ CountsOn' /\ LastGiven'
<1> SUFFICES ASSUME TypeInv, CountInv, CountsOn, LastGiven, [Next]_vars
             PROVE  CountInv' /\ CountsOn' /\ LastGiven'
    OBVIOUS
<1>0. TypeOK
    BY DEF TypeInv
<1>1. ASSUME NEW n \in Nat, NEW next, Give(n, next),
             Counting => n = From(last) /\ next = (From(last) + Step) % Modulus
      PROVE  CountInv' /\ CountsOn' /\ LastGiven'
    <2>1. col' = col /\ numbers' = Append(numbers, n)
        BY <1>1 DEF Give
    <2>2. LastGiven'
        BY <1>0, <1>1, <2>1, GivenAppend
    <2>3. CASE Counting
        BY <1>0, <1>1, <2>2, <2>3, GiveCounts
    <2>4. CASE ~Counting
        <3>1. ~Counting'
            BY <2>1, <2>4, SameCount
        <3> QED
            BY <2>2, <3>1 DEF CountInv, CountsOn, Counting
    <2> QED
        BY <2>3, <2>4
<1>2. CASE Draw
    <2>1. Number \in Nat
        BY <1>0, NumberType, ColumnsAssumption DEF Number64
    <2>2. Give(Number, (Number + col.step) % Modulus)
        BY <1>2 DEF Draw
    <2>3. Counting => Number = From(last) /\ col.step = Step
        <3>1. col.kind = "number"
            BY <1>2 DEF Draw, Calculates
        <3>2. Counting => Number = LastAt
            BY <1>0, <3>1, NumberType DEF Counting
        <3>3. Counting => LastAt = From(last)
            BY <3>1 DEF Counting, LastAt, Clamped, From, Lowest, Highest
        <3>4. col.step = Step
            BY <3>1 DEF Step
        <3> QED
            BY <3>2, <3>3, <3>4
    <2> QED
        BY <1>1, <2>1, <2>2, <2>3
<1>3. CASE FileAcculate
    <2> DEFINE n == LineAt
    <2>1. n \in Nat /\ Give(n, (n + 1) % Modulus)
        BY <1>3, ColumnsAssumption DEF FileAcculate, LineAt, TypeInv, TypeOK
    <2>2. n = From(last) /\ Step = 1
        BY <1>3, LineIsNext DEF FileAcculate, Calculates, Step
    <2> HIDE DEF n
    <2> QED
        BY <1>1, <2>1, <2>2
<1>4. CASE Skip \/ Misfit \/ NoLines
    <2>1. /\ col' = col /\ numbers' = Append(numbers, Blank)
          /\ drawn' = drawn /\ unit' = unit
        BY <1>4 DEF Skip, Misfit, NoLines, Leave
    <2>2. Counting => last' \in {last, From(last)}
        <3>1. CASE Skip
            BY <3>1 DEF Skip, Calculates, Counting, LastAt, Clamped, From, Lowest, Highest
        <3>2. CASE Misfit
            BY <3>2, LineIsNext DEF Misfit, Calculates
        <3>3. CASE NoLines
            BY <3>3 DEF NoLines
        <3> QED
            BY <1>4, <3>1, <3>2, <3>3
    <2>3. LastGiven'
        BY <1>0, <2>1, GivenBlank
    <2> QED
        BY <1>0, <2>1, <2>2, <2>3, SkipCounts
<1>5. CASE NextFile
    <2>1. Given' = {} /\ col' = col /\ last' = last /\ drawn' = drawn /\ unit' = unit
        BY <1>5 DEF NextFile, Given
    <2>2. CountInv'
        BY <2>1, SameCount DEF CountInv
    <2> QED
        BY <2>1, <2>2 DEF CountsOn, LastGiven
<1>6. CASE Die \/ UNCHANGED vars
    <2>1. Given' = Given /\ col' = col /\ last' = last /\ drawn' = drawn /\ unit' = unit /\ numbers' = numbers
        BY <1>6 DEF Die, vars, Given
    <2>2. CountInv'
        BY <2>1, SameCount DEF CountInv
    <2>3. CountsOn'
        BY <2>1 DEF CountsOn, Batched, Lowest, Highest, Step, EndsInTime, Nth, Start, Clamped
    <2> QED
        BY <2>1, <2>2, <2>3 DEF LastGiven
<1> QED
    BY <1>2, <1>3, <1>4, <1>5, <1>6 DEF Next, Calculate

(* The n-th row that gets a number gets the n-th of the count, with each   *)
(* number given to a unit of rows: whichever rows are left out, wherever   *)
(* the files end, and at whatever number or line the count begins.         *)
THEOREM CountGoesOn == Spec => []CountsOn
<1>1. Init => TypeInv
    BY InitTypes
<1>2. TypeInv /\ [Next]_vars => TypeInv'
    BY StepTypes
<1> QED
    BY <1>1, <1>2, InitCounts, StepCounts, PTL DEF Spec

-----------------------------------------------------------------------------
(* Files that start again.                                                 *)

Repeating ==
    /\ col.kind = "number" /\ col.reset /\ col.percent = 100
    /\ col.rows % RowsOfNumber = 0

(* The number of the row behind r rows, the last of which has number n.    *)
Follow(r, n) ==
    LET next == Clamped(IF r = 0 THEN col.init
                        ELSE IF r % RowsOfNumber = 0 THEN (n + col.step) % Modulus ELSE n)
    IN  IF Batched /\ (r \div RowsOfNumber) % col.rowsInBatch = HeadRows
        THEN (next - Jump) % Modulus ELSE next

(* Each number of the file follows from its place and the number before.   *)
Followed(s) == \A r \in 0..(Len(s) - 1) : s[r + 1] = Follow(r, IF r = 0 THEN 0 ELSE s[r])

(* The state in the midst of a file is what the row and its number say.    *)
RepeatInv ==
    Repeating =>
        /\ unit = (row % RowsOfNumber) + 1
        /\ row # 0 =>
              /\ rowIdx = row \div RowsOfNumber
              /\ last = IF row % RowsOfNumber = 0
                        THEN (numbers[row] + col.step) % Modulus ELSE numbers[row]
        /\ Followed(numbers)
        /\ file > 1 => Len(first) = col.rows /\ Followed(first) /\ \A i \in 1..row : numbers[i] = first[i]

LEMMA RepeatIsSame == TypeOK /\ RepeatInv => SameEveryFile
<1> SUFFICES ASSUME TypeOK, RepeatInv, Repeating, file > 1
             PROVE  numbers = SubSeq(first, 1, row)
    BY DEF SameEveryFile, Repeating, RowsOfNumber
<1>1. /\ numbers \in Seq(Number64 \union {Blank}) /\ first \in Seq(Number64 \union {Blank})
      /\ Len(numbers) = row /\ row \in 0..col.rows
    BY DEF TypeOK, Number64
<1>2. Len(first) = col.rows /\ \A i \in 1..row : numbers[i] = first[i]
    BY DEF RepeatInv
<1>3. col.rows \in Nat
    BY Fields DEF TypeOK
<1> QED
    BY <1>1, <1>2, <1>3

(* What depends on the column only.                                        *)
LEMMA SameFollow ==
    ASSUME col' = col
    PROVE  /\ Repeating' <=> Repeating
           /\ \A s : Followed(s)' <=> Followed(s)
BY DEF Repeating, Followed, Follow, Clamped, Batched, HeadRows, Jump, RowsOfNumber

LEMMA NumberFollows ==
    ASSUME TypeOK, RepeatInv, Repeating
    PROVE  /\ RowIdxAt = row \div RowsOfNumber
           /\ Number = Follow(row, IF row = 0 THEN 0 ELSE numbers[row])
<1>1. RowsOfNumber \in Nat \ {0}
    BY Fields DEF TypeOK, RowsOfNumber
<1>2. RowIdxAt = row \div RowsOfNumber
    <2>1. CASE row = 0
        <3>1. \A m \in Nat \ {0} : 0 \div m = 0
            BY SMTT(30)
        <3> QED
            BY <1>1, <2>1, <3>1 DEF RowIdxAt
    <2>2. CASE row # 0
        BY <2>2 DEF RowIdxAt, RepeatInv
    <2> QED
        BY <2>1, <2>2
<1>3. CASE row = 0
    <2>1. LastAt = Clamped(col.init)
        BY <1>3 DEF LastAt, Repeating
    <2> QED
        BY <1>2, <1>3, <2>1 DEF Number, Follow
<1>4. CASE row # 0
    <2>1. LastAt = Clamped(last)
        BY <1>4 DEF LastAt
    <2>2. last = IF row % RowsOfNumber = 0
                 THEN (numbers[row] + col.step) % Modulus ELSE numbers[row]
        BY <1>4 DEF RepeatInv
    <2> QED
        BY <1>2, <1>4, <2>1, <2>2 DEF Number, Follow
<1> QED
    BY <1>2, <1>3, <1>4

(* The number of a row is the one the first file has there.                *)
LEMMA DrawRepeats ==
    ASSUME TypeOK, RepeatInv, Repeating, Draw
    PROVE  RepeatInv'
<1> DEFINE u == RowsOfNumber
           n == Number
<1>1. u \in Nat \ {0} /\ row \in Nat /\ row + 1 \in 1..col.rows
    BY Fields DEF TypeOK, RowsOfNumber, Draw, Calculates
<1>2. /\ RowIdxAt = row \div u
      /\ n = Follow(row, IF row = 0 THEN 0 ELSE numbers[row])
    BY NumberFollows
<1>3. unit = (row % u) + 1 /\ (UnitEnds <=> row % u = u - 1) /\ (col.unit <= 1 => u = 1)
    <2>1. unit = (row % u) + 1
        BY DEF RepeatInv
    <2>2. row % u \in 0..(u - 1)
        BY <1>1, NextQuotient
    <2>3. col.unit \in Nat
        BY Fields DEF TypeOK
    <2> QED
        BY <1>1, <2>1, <2>2, <2>3 DEF UnitEnds, RowsOfNumber
<1>4. /\ numbers' = Append(numbers, n) /\ row' = row + 1 /\ col' = col
      /\ file' = file /\ first' = first
      /\ last' = IF UnitEnds THEN (n + col.step) % Modulus ELSE n
      /\ unit' = IF col.unit <= 1 THEN unit ELSE IF UnitEnds THEN 1 ELSE unit + 1
      /\ rowIdx' = IF UnitEnds THEN RowIdxAt + 1 ELSE RowIdxAt
    BY DEF Draw, Give
<1>5. /\ numbers \in Seq(Number64 \union {Blank}) /\ Len(numbers) = row
      /\ n \in Number64
    BY NumberType DEF TypeOK, Number64
<1>6. /\ Len(numbers') = row + 1 /\ numbers'[row + 1] = n
      /\ \A i \in 1..row : numbers'[i] = numbers[i]
    BY <1>1, <1>4, <1>5
<1>7. u' = u /\ (Repeating' <=> Repeating) /\ \A s : Followed(s)' <=> Followed(s)
    <2>1. \A s : Followed(s)' <=> Followed(s)
        BY <1>4, SameFollow
    <2> QED
        BY <1>4, <2>1, SameFollow, SameCount
<1> HIDE DEF u, n
<1>8. /\ unit' = ((row + 1) % u) + 1
      /\ rowIdx' = (row + 1) \div u
      /\ last' = IF (row + 1) % u = 0 THEN (n + col.step) % Modulus ELSE n
    <2>1. /\ row \div u \in Nat /\ row % u \in 0..(u - 1)
          /\ row % u = u - 1 => (row + 1) % u = 0 /\ (row + 1) \div u = (row \div u) + 1
          /\ row % u # u - 1 => (row + 1) % u = (row % u) + 1 /\ (row + 1) \div u = row \div u
        BY <1>1, NextQuotient
    <2>2. CASE row % u = u - 1
        <3>1. unit' = 1
            BY <1>1, <1>3, <1>4, <2>2
        <3> QED
            BY <1>2, <1>3, <1>4, <2>1, <2>2, <3>1
    <2>3. CASE row % u # u - 1
        <3>1. u # 1
            BY <1>1, <2>1, <2>3
        <3>2. unit' = unit + 1
            BY <1>3, <1>4, <2>3, <3>1
        <3>3. (row + 1) % u # 0
            BY <2>1, <2>3
        <3> QED
            BY <1>2, <1>3, <1>4, <2>1, <2>3, <3>2, <3>3
    <2> QED
        BY <2>2, <2>3
<1>9. Followed(numbers')
    <2> SUFFICES ASSUME NEW r \in 0..row
                 PROVE  numbers'[r + 1] = Follow(r, IF r = 0 THEN 0 ELSE numbers'[r])
        BY <1>1, <1>6 DEF Followed
    <2>1. CASE r = row
        BY <1>1, <1>2, <1>6, <2>1
    <2>2. CASE r # row
        <3>1. r \in 0..(row - 1) /\ r + 1 \in 1..row /\ (r # 0 => r \in 1..row)
            BY <1>1, <2>2
        <3>2. numbers[r + 1] = Follow(r, IF r = 0 THEN 0 ELSE numbers[r])
            BY <1>5, <3>1 DEF RepeatInv, Followed
        <3> QED
            BY <1>6, <3>1, <3>2
    <2> QED
        BY <2>1, <2>2
<1>10. ASSUME file > 1
       PROVE  Len(first) = col.rows /\ Followed(first) /\ \A i \in 1..(row + 1) : numbers'[i] = first[i]
    <2>1. Len(first) = col.rows /\ Followed(first) /\ \A i \in 1..row : numbers[i] = first[i]
        BY <1>10 DEF RepeatInv
    <2>2. row \in 0..(Len(first) - 1)
        BY <1>1, <2>1, Fields DEF TypeOK
    <2>3. first[row + 1] = Follow(row, IF row = 0 THEN 0 ELSE first[row])
        BY <2>1, <2>2 DEF Followed
    <2>4. row # 0 => first[row] = numbers[row]
        BY <1>1, <2>1
    <2>5. first[row + 1] = n
        BY <1>2, <2>3, <2>4
    <2> QED
        BY <1>1, <1>6, <2>1, <2>5
<1>11. Followed(numbers)'
    <2>1. PICK s : s = numbers'
        OBVIOUS
    <2>2. Followed(s)'
        BY <1>7, <1>9, <2>1
    <2> QED
        BY <2>1, <2>2 DEF Followed
<1>12. file > 1 => Followed(first)'
    <2>1. PICK s : s = first
        OBVIOUS
    <2>2. file > 1 => Followed(s)'
        BY <1>7, <1>10, <2>1
    <2> QED
        BY <1>4, <2>1, <2>2 DEF Followed
<1> QED
    BY <1>1, <1>4, <1>6, <1>7, <1>8, <1>10, <1>11, <1>12 DEF RepeatInv, u

LEMMA InitRepeats == Init => RepeatInv
<1> SUFFICES ASSUME Init PROVE RepeatInv
    OBVIOUS
<1>1. TypeOK
    BY InitTypes DEF TypeInv
<1>2. RowsOfNumber \in Nat \ {0}
    BY <1>1, Fields DEF TypeOK, RowsOfNumber
<1>3. 0 % RowsOfNumber = 0
    <2>1. \A m \in Nat \ {0} : 0 % m = 0
        BY SMTT(30)
    <2> QED
        BY <1>2, <2>1
<1> QED
    BY <1>3 DEF Init, RepeatInv, Followed

LEMMA StepRepeats == TypeInv /\ RepeatInv /\ [Next]_vars => RepeatInv'
<1> SUFFICES ASSUME TypeInv, RepeatInv, [Next]_vars PROVE RepeatInv'
    OBVIOUS
<1>0. TypeOK
    BY DEF TypeInv
<1>1. CASE Draw
    <2>1. CASE Repeating
        BY <1>0, <1>1, <2>1, DrawRepeats
    <2>2. CASE ~Repeating
        <3>1. col' = col
            BY <1>1 DEF Draw, Give
        <3> QED
            BY <2>2, <3>1, SameFollow DEF RepeatInv
    <2> QED
        BY <2>1, <2>2
<1>2. CASE Skip \/ FileAcculate \/ Misfit \/ NoLines
    <2>1. ~Repeating /\ col' = col
        BY <1>2 DEF Skip, FileAcculate, Misfit, NoLines, Calculates, Give, Leave, Repeating
    <2> QED
        BY <2>1, SameFollow DEF RepeatInv
<1>3. CASE NextFile
    <2>1. /\ row = col.rows /\ row' = 0 /\ numbers' = <<>> /\ col' = col /\ unit' = unit
          /\ file \in Nat /\ file >= 1 /\ first' = IF file = 1 THEN numbers ELSE first
        BY <1>3 DEF NextFile, TypeInv, TypeOK
    <2>2. RowsOfNumber' = RowsOfNumber /\ RowsOfNumber \in Nat \ {0}
        BY <1>0, <2>1, Fields, SameCount DEF TypeOK, RowsOfNumber
    <2> SUFFICES ASSUME Repeating
                 PROVE  /\ unit' = (row' % RowsOfNumber') + 1
                        /\ Followed(numbers)'
                        /\ Len(first') = col'.rows /\ Followed(first)'
        BY <2>1, SameFollow DEF RepeatInv
    <2>3. unit = 1 /\ 0 % RowsOfNumber = 0
        <3>1. \A m \in Nat \ {0} : 0 % m = 0
            BY SMTT(30)
        <3> QED
            BY <2>1, <2>2, <3>1 DEF RepeatInv, Repeating
    <2>4. Followed(numbers)'
        BY <2>1 DEF Followed
    <2>5. Len(first') = col'.rows /\ Followed(first')
        <3>1. Len(numbers) = row /\ Followed(numbers)
            BY DEF TypeInv, TypeOK, RepeatInv
        <3>2. file > 1 => Len(first) = col.rows /\ Followed(first)
            BY DEF RepeatInv
        <3> QED
            BY <2>1, <3>1, <3>2
    <2>6. Followed(first)'
        <3>1. PICK s : s = first'
            OBVIOUS
        <3>2. Followed(s)'
            BY <2>1, <2>5, <3>1, SameFollow
        <3> QED
            BY <3>1, <3>2 DEF Followed
    <2> QED
        BY <2>1, <2>2, <2>3, <2>4, <2>5, <2>6
<1>4. CASE Die \/ UNCHANGED vars
    <2>1. /\ col' = col /\ row' = row /\ file' = file /\ last' = last /\ rowIdx' = rowIdx
          /\ unit' = unit /\ numbers' = numbers /\ first' = first
        BY <1>4 DEF Die, vars
    <2> QED
        BY <2>1 DEF RepeatInv, Repeating, Followed, Follow, Clamped, Batched, HeadRows, Jump, RowsOfNumber
<1> QED
    BY <1>1, <1>2, <1>3, <1>4 DEF Next, Calculate

(* A column that starts again gives every file the numbers of the first:   *)
(* nothing but the row and the number before decides on the next, jumps    *)
(* and the end of the integers included.                                   *)
THEOREM FilesRepeat == Spec => []SameEveryFile
<1>1. Init => RepeatInv
    BY InitRepeats
<1>2. Init => TypeInv
    BY InitTypes
<1>3. TypeInv /\ [Next]_vars => TypeInv'
    BY StepTypes
<1>4. TypeInv /\ RepeatInv => SameEveryFile
    BY RepeatIsSame DEF TypeInv
<1> QED
    BY <1>1, <1>2, <1>3, <1>4, StepRepeats, PTL DEF Spec

-----------------------------------------------------------------------------
(* Batches of which a part repeats.                                        *)

(* The number of the row behind r rows: each batch goes on by the rows     *)
(* that count on, and the others fall back by the jump.                    *)
Share(r) ==
    LET b == r \div col.rowsInBatch
        p == r % col.rowsInBatch
    IN  Clamped(col.init) + b * HeadRows + (IF p < HeadRows THEN p ELSE p - Jump)

BatchInv == PlainBatches => \A r \in 0..(row - 1) : numbers[r + 1] = Share(r)

(* The rows that count on are at least half of the batch and not all of    *)
(* it, and the jump is as long as the other part.                          *)
LEMMA BatchParts ==
    ASSUME TypeOK, PlainBatches
    PROVE  /\ col.rowsInBatch \in Nat \ {0} /\ HeadRows \in 1..(col.rowsInBatch - 1)
           /\ Jump = col.rowsInBatch - HeadRows /\ Jump <= HeadRows
<1> DEFINE b == col.rowsInBatch
           p == col.percentInBatch
           h == (b * p) \div 100
           j == (b * (100 - p)) \div 100
<1>1. b \in Nat \ {0} /\ p \in 50..99 /\ (b * p) % 100 = 0
    <2>1. b # 0 /\ p # 100 /\ p >= 50 /\ (b * p) % 100 = 0
        BY DEF PlainBatches, Batched
    <2>2. b \in Nat /\ p \in 0..100
        BY Fields DEF TypeOK
    <2> HIDE DEF b, p
    <2> QED
        BY <2>1, <2>2
<1>2. h = HeadRows /\ j = Jump
    BY DEF HeadRows, Jump
<1> HIDE DEF b, p
<1>3. b * p \in Nat /\ b * (100 - p) = 100 * b - b * p
    BY <1>1, SMTT(30)
<1>4. \A n \in Nat : n % 100 = 0 => n \div 100 \in Nat /\ n = 100 * (n \div 100)
    BY SMTT(30)
<1>5. h \in Nat /\ b * p = 100 * h
    BY <1>1, <1>3, <1>4
<1>6. 100 * h <= 99 * b /\ 50 * b <= 100 * h
    <2>1. b * p <= b * 99 /\ b * 50 <= b * p
        BY <1>1, SMTT(30)
    <2> QED
        BY <1>1, <1>5, <2>1
<1> HIDE DEF h
<1>7. h \in 1..(b - 1) /\ b - h <= h
    BY <1>1, <1>5, <1>6
<1>8. j = b - h
    <2>1. b * (100 - p) = 100 * (b - h) + 0 /\ b - h \in Nat
        BY <1>1, <1>3, <1>5, <1>7
    <2>2. (100 * (b - h) + 0) \div 100 = b - h
        BY <2>1, Quotient
    <2> QED
        BY <2>1, <2>2
<1> QED
    BY <1>1, <1>2, <1>7, <1>8 DEF b

(* The number of the row is in its batch's part of the range.              *)
LEMMA ShareBounds ==
    ASSUME TypeOK, PlainBatches, NEW r \in Nat
    PROVE  LET b == r \div col.rowsInBatch
               p == r % col.rowsInBatch
           IN  /\ b \in Nat /\ p \in 0..(col.rowsInBatch - 1) /\ r = col.rowsInBatch * b + p
               /\ Share(r) \in (Clamped(col.init) + b * HeadRows)..(Clamped(col.init) + b * HeadRows + HeadRows - 1)
               /\ Share(r) <= Clamped(col.init) + r
<1> DEFINE m == col.rowsInBatch
           h == HeadRows
           a == Clamped(col.init)
           b == r \div m
           p == r % m
           t == IF p < h THEN p ELSE p - Jump
<1>1. m \in Nat \ {0} /\ h \in 1..(m - 1) /\ Jump = m - h /\ Jump <= h
    BY BatchParts
<1>2. a \in Nat
    BY Fields, Clamps, ColumnsAssumption DEF TypeOK, Number64
<1>3. Share(r) = a + b * h + t
    BY DEF Share
<1> HIDE DEF m, h, a
<1>4. b \in Nat /\ p \in 0..(m - 1) /\ r = m * b + p
    BY <1>1, SMTT(30)
<1> HIDE DEF b, p
<1>5. t \in 0..(h - 1) /\ t <= p
    BY <1>1, <1>4
<1> HIDE DEF t
<1>6. b * h \in Nat /\ b * h <= m * b /\ m * b \in Nat
    <2>1. b * (m - h) \in Nat /\ b * (m - h) = m * b - b * h /\ b * h \in Nat /\ m * b \in Nat
        BY <1>1, <1>4, SMTT(30)
    <2> QED
        BY <2>1
<1>7. Share(r) \in (a + b * h)..(a + b * h + h - 1) /\ Share(r) <= a + r
    BY <1>1, <1>2, <1>3, <1>4, <1>5, <1>6
<1> QED
    BY <1>4, <1>7 DEF a, b, h, m, p

(* The next row has the next number, or that behind the jump.              *)
LEMMA ShareNext ==
    ASSUME TypeOK, PlainBatches, NEW r \in Nat
    PROVE  Share(r + 1) = IF (r + 1) % col.rowsInBatch = HeadRows
                          THEN Share(r) + 1 - Jump ELSE Share(r) + 1
<1> DEFINE m == col.rowsInBatch
           h == HeadRows
           a == Clamped(col.init)
           b == r \div m
           p == r % m
           c == (r + 1) \div m
           q == (r + 1) % m
<1>1. m \in Nat \ {0} /\ h \in 1..(m - 1) /\ Jump = m - h /\ Jump <= h
    BY BatchParts
<1>2. a \in Nat
    BY Fields, Clamps, ColumnsAssumption DEF TypeOK, Number64
<1>3. /\ Share(r) = a + b * h + (IF p < h THEN p ELSE p - Jump)
      /\ Share(r + 1) = a + c * h + (IF q < h THEN q ELSE q - Jump)
    BY DEF Share
<1> HIDE DEF m, h, a
<1>4. /\ b \in Nat /\ p \in 0..(m - 1)
      /\ p = m - 1 => q = 0 /\ c = b + 1
      /\ p # m - 1 => q = p + 1 /\ c = b
    BY <1>1, NextQuotient
<1> HIDE DEF b, c, p, q
<1>5. b * h \in Nat /\ (b + 1) * h = b * h + h
    BY <1>1, <1>4, SMTT(30)
<1>6. CASE p = m - 1
    <2>1. c * h = b * h + h /\ q = 0
        BY <1>4, <1>5, <1>6
    <2> QED
        BY <1>1, <1>2, <1>3, <1>4, <1>5, <1>6, <2>1 DEF h, m, q
<1>7. CASE p # m - 1
    <2> DEFINE x == b * h
    <2>1. x \in Nat /\ q = p + 1 /\ c = b /\ p \in Nat
        BY <1>1, <1>4, <1>5, <1>7
    <2>2. /\ Share(r) = a + x + (IF p < h THEN p ELSE p - Jump)
          /\ Share(r + 1) = a + x + (IF q < h THEN q ELSE q - Jump)
        BY <1>3, <2>1, Zenon
    <2> HIDE DEF x
    <2>3. CASE p + 1 < h
        BY <1>1, <1>2, <2>1, <2>2, <2>3 DEF h, m, q
    <2>4. CASE p + 1 = h
        BY <1>1, <1>2, <2>1, <2>2, <2>4 DEF h, m, q
    <2>5. CASE p + 1 > h
        BY <1>1, <1>2, <2>1, <2>2, <2>5 DEF h, m, q
    <2> QED
        BY <1>1, <2>1, <2>3, <2>4, <2>5
<1> QED
    BY <1>6, <1>7

(* A whole batch has the numbers of its part of the range, and no other    *)
(* row has one of them.                                                    *)
LEMMA BatchShare ==
    ASSUME TypeOK, BatchInv
    PROVE  ShareInBatch
<1> SUFFICES ASSUME PlainBatches, NEW k \in 1..(row \div col.rowsInBatch)
             PROVE  LET batch == ((k - 1) * col.rowsInBatch + 1)..(k * col.rowsInBatch)
                        values == {numbers[i] : i \in batch}
                    IN  /\ Cardinality(values) = HeadRows
                        /\ \A i \in (1..row) \ batch : numbers[i] \notin values
    BY DEF ShareInBatch
<1> DEFINE m == col.rowsInBatch
           h == HeadRows
           a == Clamped(col.init)
           d == k - 1
           batch == (d * m + 1)..(k * m)
           part == (a + d * h)..(a + d * h + h - 1)
<1>1. m \in Nat \ {0} /\ h \in 1..(m - 1) /\ Jump = m - h /\ Jump <= h
    BY BatchParts
<1>2. a \in Nat
    BY Fields, Clamps, ColumnsAssumption DEF TypeOK, Number64
<1>3. \A i \in 1..row : numbers[i] = Share(i - 1)
    <2>1. \A r \in 0..(row - 1) : numbers[r + 1] = Share(r)
        BY DEF BatchInv
    <2> SUFFICES ASSUME NEW i \in 1..row PROVE numbers[i] = Share(i - 1)
        OBVIOUS
    <2>2. row \in Nat /\ i - 1 \in 0..(row - 1) /\ i - 1 + 1 = i
        BY Fields DEF TypeOK
    <2>3. numbers[i - 1 + 1] = Share(i - 1)
        BY <2>1, <2>2
    <2> QED
        BY <2>2, <2>3
<1>4. \A r \in Nat :
         /\ r \div m \in Nat /\ r % m \in 0..(m - 1) /\ r = m * (r \div m) + (r % m)
         /\ Share(r) \in (a + (r \div m) * h)..(a + (r \div m) * h + h - 1)
    BY ShareBounds
<1>5. \A r \in Nat : Share(r) = a + (r \div m) * h + (IF r % m < h THEN r % m ELSE (r % m) - Jump)
    BY DEF Share
<1>6. row \in Nat /\ k \in Nat /\ d \in Nat /\ k <= row \div m
    <2>1. row \in Nat
        BY Fields DEF TypeOK
    <2>2. row \div m \in Nat
        BY <1>4, <2>1
    <2> QED
        BY <2>1, <2>2
<1> HIDE DEF m, h, a
<1>7. d * m \in Nat /\ k * m = d * m + m /\ k * m <= row /\ d * h \in Nat
    <2>1. d * m \in Nat /\ k * m = d * m + m /\ d * h \in Nat
        BY <1>1, <1>6, SMTT(30)
    <2>2. k * m <= row
        BY <1>1, <1>6, StepsThatFit
    <2> QED
        BY <2>1, <2>2
<1>8. \A i \in Int : i \in 1..row => (i \in batch <=> (i - 1) \div m = d)
    <2> SUFFICES ASSUME NEW i \in 1..row PROVE i \in batch <=> (i - 1) \div m = d
        OBVIOUS
    <2> DEFINE r == i - 1
               b == r \div m
               p == r % m
    <2>1. r \in Nat /\ b \in Nat /\ p \in 0..(m - 1) /\ r = m * b + p
        BY <1>4, <1>6
    <2> HIDE DEF b, p
    <2>2. CASE b = d
        <3>1. m * b = d * m
            BY <1>1, <1>6, <2>1, <2>2, SMTT(30)
        <3> QED
            BY <1>1, <1>7, <2>1, <2>2, <3>1 DEF b
    <2>3. CASE b < d
        <3>1. d - b \in Nat \ {0}
            BY <1>6, <2>1, <2>3
        <3>2. m * (d - b) >= m /\ m * (d - b) = d * m - m * b /\ m * b \in Nat
            BY <1>1, <1>6, <2>1, <3>1, Multiple, SMTT(30)
        <3> QED
            BY <1>1, <1>7, <2>1, <2>3, <3>2 DEF b
    <2>4. CASE b > d
        <3>1. b - d \in Nat \ {0}
            BY <1>6, <2>1, <2>4
        <3>2. m * (b - d) >= m /\ m * (b - d) = m * b - d * m /\ m * b \in Nat
            BY <1>1, <1>6, <2>1, <3>1, Multiple, SMTT(30)
        <3> QED
            BY <1>1, <1>7, <2>1, <2>4, <3>2 DEF b
    <2> QED
        BY <1>6, <2>1, <2>2, <2>3, <2>4
<1>9. \A i \in 1..row : i - 1 \in Nat
    BY <1>6
<1>10. batch \subseteq 1..row
    BY <1>1, <1>6, <1>7
<1> HIDE DEF d
<1>11. {numbers[i] : i \in batch} = part
    <2>1. ASSUME NEW i \in batch PROVE numbers[i] \in part
        <3>1. i \in 1..row /\ i \in Int /\ i - 1 \in Nat
            BY <1>9, <1>10, <2>1
        <3>2. numbers[i] = Share(i - 1) /\ (i - 1) \div m = d
            BY <1>3, <1>8, <2>1, <3>1
        <3> QED
            BY <1>4, <3>1, <3>2
    <2>2. ASSUME NEW v \in part PROVE \E i \in batch : numbers[i] = v
        <3> DEFINE p == v - (a + d * h)
                   i == d * m + p + 1
        <3>1. p \in 0..(h - 1) /\ v = a + d * h + p
            BY <1>1, <1>2, <1>7, <2>2
        <3> HIDE DEF p
        <3>2. i \in batch /\ i \in 1..row /\ i - 1 = m * d + p /\ i \in Int
            <4>1. m * d = d * m
                BY <1>1, <1>6, SMTT(30)
            <4>2. i \in batch
                BY <1>1, <1>7, <3>1
            <4> QED
                BY <1>1, <1>7, <1>10, <3>1, <4>1, <4>2
        <3>3. (m * d + p) \div m = d /\ (m * d + p) % m = p
            <4>1. p \in 0..(m - 1)
                BY <1>1, <3>1
            <4> QED
                BY <1>1, <1>6, <4>1, Quotient
        <3>4. (i - 1) \div m = d /\ (i - 1) % m = p
            BY <3>2, <3>3
        <3>5. i - 1 \in Nat
            BY <1>9, <3>2
        <3> HIDE DEF i
        <3>6. Share(i - 1) = a + d * h + p
            <4>1. Share(i - 1) = a + ((i - 1) \div m) * h
                                 + (IF (i - 1) % m < h THEN (i - 1) % m ELSE ((i - 1) % m) - Jump)
                BY <1>5, <3>5
            <4>2. p < h
                BY <1>1, <3>1
            <4>3. (IF (i - 1) % m < h THEN (i - 1) % m ELSE ((i - 1) % m) - Jump) = p
                BY <3>4, <4>2
            <4> QED
                BY <3>4, <4>1, <4>3
        <3>7. numbers[i] = v
            BY <1>3, <3>1, <3>2, <3>6
        <3> QED
            BY <3>2, <3>7
    <2> QED
        BY <2>1, <2>2
<1>12. Cardinality(part) = h
    <2> DEFINE x == a + d * h
               y == x + h - 1
    <2>1. x \in Int /\ y \in Int /\ x <= y /\ y - x + 1 = h
        BY <1>1, <1>2, <1>7
    <2>2. part = x..y
        OBVIOUS
    <2> HIDE DEF x, y
    <2>3. Cardinality(x..y) = IF x > y THEN 0 ELSE y - x + 1
        BY <2>1, FS_Interval
    <2>4. ~(x > y)
        BY <2>1
    <2> QED
        BY <2>1, <2>2, <2>3, <2>4
<1>13. ASSUME NEW i \in (1..row) \ batch PROVE numbers[i] \notin part
    <2> DEFINE b == (i - 1) \div m
               x == d * h
               y == b * h
    <2>1. i \in 1..row /\ i \in Int /\ i - 1 \in Nat
        BY <1>9, <1>13
    <2>2. b \in Nat /\ b # d
        BY <1>4, <1>8, <1>13, <2>1
    <2>3. numbers[i] = Share(i - 1) /\ Share(i - 1) \in (a + y)..(a + y + h - 1)
        BY <1>3, <1>4, <2>1
    <2> HIDE DEF b
    <2>4. y \in Nat /\ x \in Nat /\ (y >= x + h \/ y + h <= x)
        <3>1. y \in Nat /\ x \in Nat
            BY <1>1, <1>6, <2>2, SMTT(30)
        <3>2. CASE b > d
            <4>1. b - d \in Nat \ {0}
                BY <1>6, <2>2, <3>2
            <4>2. h * (b - d) >= h /\ h * (b - d) = y - x
                BY <1>1, <1>6, <2>2, <4>1, Multiple, SMTT(30)
            <4> QED
                BY <1>1, <3>1, <4>2
        <3>3. CASE d > b
            <4>1. d - b \in Nat \ {0}
                BY <1>6, <2>2, <3>3
            <4>2. h * (d - b) >= h /\ h * (d - b) = x - y
                BY <1>1, <1>6, <2>2, <4>1, Multiple, SMTT(30)
            <4> QED
                BY <1>1, <3>1, <4>2
        <3> QED
            BY <1>6, <2>2, <3>1, <3>2, <3>3
    <2>5. part = (a + x)..(a + x + h - 1)
        OBVIOUS
    <2> HIDE DEF x, y, part
    <2> QED
        BY <1>1, <1>2, <2>3, <2>4, <2>5
<1> QED
    BY <1>11, <1>12, <1>13 DEF m, h, d

(* The next row gets the number of its place: the file ends before the     *)
(* range does.                                                             *)
LEMMA NumberShares ==
    ASSUME TypeOK, RepeatInv, BatchInv, PlainBatches, row < col.rows
    PROVE  Number = Share(row)
<1> DEFINE m == col.rowsInBatch
           h == HeadRows
           a == Clamped(col.init)
           j == Jump
<1>1. m \in Nat \ {0} /\ h \in 1..(m - 1) /\ j \in Nat /\ j <= h
    BY BatchParts
<1>2. /\ a \in Nat /\ a + col.rows <= col.high /\ col.low <= a
      /\ col.low \in Nat /\ col.high \in 0..(Modulus - 1) /\ col.rows \in Nat /\ Modulus \in Nat \ {0}
    <2>1. /\ col.low \in Nat /\ col.high \in 0..(Modulus - 1) /\ col.init \in Nat
          /\ col.rows \in Nat /\ Modulus \in Nat \ {0}
        BY Fields, ColumnsAssumption DEF TypeOK, Number64
    <2>2. a + col.rows <= col.high
        BY DEF PlainBatches
    <2>3. a \in Nat /\ col.low <= a
        BY <2>1 DEF Clamped
    <2> QED
        BY <2>1, <2>2, <2>3
<1>3. row \in Nat
    BY Fields DEF TypeOK
<1>4. RowsOfNumber = 1
    BY DEF PlainBatches, RowsOfNumber
<1>5. \A n \in Nat : n % 1 = 0 /\ n \div 1 = n
    BY SMTT(30)
<1>6. Repeating
    BY <1>2, <1>4, <1>5 DEF Repeating, PlainBatches
<1>7. Batched /\ col.step = 1
    BY DEF PlainBatches
<1> DEFINE next == Clamped(IF row = 0 THEN col.init ELSE (numbers[row] + 1) % Modulus)
<1>8. Number = IF row % m = h THEN (next - j) % Modulus ELSE next
    <2>1. Number = Follow(row, IF row = 0 THEN 0 ELSE numbers[row])
        BY <1>6, NumberFollows
    <2>2. row % RowsOfNumber = 0 /\ row \div RowsOfNumber = row
        BY <1>3, <1>4, <1>5
    <2> QED
        BY <1>7, <2>1, <2>2 DEF Follow
<1> HIDE DEF m, h, j
<1>9. CASE row = 0
    <2>1. \A n \in Nat \ {0} : 0 % n = 0 /\ 0 \div n = 0
        BY SMTT(30)
    <2>2. 0 % m = 0 /\ 0 \div m = 0 /\ 0 * h = 0
        BY <1>1, <2>1
    <2>3. Share(0) = a + 0 + 0
        BY <1>1, <2>2 DEF Share, m, h
    <2>4. Number = a
        BY <1>1, <1>8, <1>9, <2>2
    <2> HIDE DEF a
    <2> QED
        BY <1>2, <1>9, <2>3, <2>4
<1>10. CASE row # 0
    <2> DEFINE r == row - 1
               v == Share(r)
    <2>1. r \in Nat /\ r + 1 = row /\ r \in 0..(row - 1)
        BY <1>3, <1>10
    <2>2. numbers[row] = v
        <3>1. numbers[r + 1] = Share(r)
            BY <2>1 DEF BatchInv
        <3> QED
            BY <2>1, <3>1
    <2>3. v \in Nat /\ a <= v /\ v <= a + r
        <3> DEFINE b == r \div col.rowsInBatch
        <3>1. /\ b \in Nat /\ v \in (a + b * HeadRows)..(a + b * HeadRows + HeadRows - 1)
              /\ v <= a + r
            BY <2>1, ShareBounds
        <3> HIDE DEF b, a, v
        <3>2. b * HeadRows \in Nat
            BY <1>1, <3>1, SMTT(30) DEF h
        <3> QED
            BY <1>1, <1>2, <3>1, <3>2 DEF h
    <2>4. Share(row) = IF row % m = h THEN v + 1 - j ELSE v + 1
        <3>1. Share(r + 1) = IF (r + 1) % col.rowsInBatch = HeadRows
                             THEN Share(r) + 1 - Jump ELSE Share(r) + 1
            BY <2>1, ShareNext
        <3> QED
            BY <2>1, <3>1 DEF m, h, j
    <2>5. Share(row) >= a
        <3> DEFINE b == row \div col.rowsInBatch
        <3>1. b \in Nat /\ Share(row) \in (a + b * HeadRows)..(a + b * HeadRows + HeadRows - 1)
            BY <1>3, ShareBounds
        <3> HIDE DEF b, a
        <3>2. b * HeadRows \in Nat
            BY <1>1, <3>1, SMTT(30) DEF h
        <3> QED
            BY <1>1, <1>2, <3>1, <3>2 DEF h
    <2> HIDE DEF v, r, a
    <2>6. v + 1 \in 0..(Modulus - 1) /\ v + 1 <= col.high /\ v + 1 >= col.low
        BY <1>2, <1>3, <2>1, <2>3
    <2>7. \A n \in 0..(Modulus - 1) : n % Modulus = n
        BY <1>2, SMTT(30)
    <2>8. next = v + 1
        <3>1. (v + 1) % Modulus = v + 1
            BY <2>6, <2>7
        <3>2. next = Clamped(v + 1)
            BY <1>10, <2>2, <3>1
        <3> QED
            BY <1>2, <2>3, <2>6, <3>2 DEF Clamped
    <2> HIDE DEF next
    <2>9. CASE row % m = h
        <3>1. v + 1 - j \in 0..(Modulus - 1)
            BY <1>1, <1>2, <2>3, <2>4, <2>5, <2>6, <2>9
        <3>2. (v + 1 - j) % Modulus = v + 1 - j
            BY <2>7, <3>1
        <3>3. Number = (v + 1 - j) % Modulus
            BY <1>1, <1>2, <1>8, <2>3, <2>6, <2>8, <2>9
        <3> QED
            BY <2>4, <2>9, <3>2, <3>3
    <2>10. CASE row % m # h
        BY <1>8, <2>4, <2>8, <2>10
    <2> QED
        BY <2>9, <2>10
<1> QED
    BY <1>9, <1>10

LEMMA StepBatches == TypeInv /\ RepeatInv /\ BatchInv /\ [Next]_vars => BatchInv'
<1> SUFFICES ASSUME TypeInv, RepeatInv, BatchInv, [Next]_vars PROVE BatchInv'
    OBVIOUS
<1>0. TypeOK
    BY DEF TypeInv
<1>1. CASE Draw
    <2>1. /\ numbers' = Append(numbers, Number) /\ row' = row + 1 /\ col' = col /\ row < col.rows
        BY <1>1 DEF Draw, Calculates, Give
    <2>2. /\ numbers \in Seq(Number64 \union {Blank}) /\ Len(numbers) = row /\ row \in Nat
          /\ Number \in Number64
        BY <1>0, NumberType, Fields DEF TypeOK, Number64
    <2>3. /\ numbers'[row + 1] = Number
          /\ \A i \in 1..row : numbers'[i] = numbers[i]
        BY <2>1, <2>2
    <2>4. (PlainBatches' <=> PlainBatches) /\ \A r : Share(r)' = Share(r)
        BY <2>1 DEF PlainBatches, Batched, Clamped, Share, HeadRows, Jump
    <2> SUFFICES ASSUME PlainBatches, NEW r \in 0..row PROVE numbers'[r + 1] = Share(r)
        BY <2>1, <2>2, <2>4 DEF BatchInv
    <2>5. CASE r = row
        <3>1. Number = Share(row)
            BY <1>0, <2>1, NumberShares
        <3> QED
            BY <2>3, <2>5, <3>1
    <2>6. CASE r # row
        <3>1. r \in 0..(row - 1) /\ r + 1 \in 1..row
            BY <2>2, <2>6
        <3>2. numbers[r + 1] = Share(r)
            BY <3>1 DEF BatchInv
        <3> QED
            BY <2>3, <3>1, <3>2
    <2> QED
        BY <2>5, <2>6
<1>2. CASE Skip \/ FileAcculate \/ Misfit \/ NoLines
    BY <1>2 DEF Skip, FileAcculate, Misfit, NoLines, Calculates, Give, Leave, PlainBatches, BatchInv
<1>3. CASE NextFile
    BY <1>3 DEF NextFile, BatchInv
<1>4. CASE Die \/ UNCHANGED vars
    BY <1>4 DEF Die, vars, BatchInv, PlainBatches, Batched, Clamped, Share, HeadRows, Jump
<1> QED
    BY <1>1, <1>2, <1>3, <1>4 DEF Next, Calculate

(* Of each whole batch the rows that count on have numbers of their own,   *)
(* the others repeat the last of these, and no other batch has them.       *)
THEOREM BatchesShare == Spec => []ShareInBatch
<1>1. Init => TypeInv /\ RepeatInv /\ BatchInv
    BY InitTypes, InitRepeats DEF Init, BatchInv
<1>2. TypeInv /\ [Next]_vars => TypeInv'
    BY StepTypes
<1>3. TypeInv /\ BatchInv => ShareInBatch
    BY BatchShare DEF TypeInv
<1> QED
    BY <1>1, <1>2, <1>3, StepRepeats, StepBatches, PTL DEF Spec
=============================================================================
