--------------------------- MODULE FpgaMemPortProofs ---------------------------
(***************************************************************************)
(* For any width of the port, sizes of elements and arrays, and any number *)
(* of wrappers: a copy moves the bytes of its array and puts nothing else   *)
(* in memory.                                                              *)
(* The runs check words of four bytes; the code is built for 16 to 64.     *)
(* The argument is about bytes: a turn of the loops moves those bytes of   *)
(* its word that lie in the array, which Geometry derives from the counts  *)
(* of elements the code works with.  The other bytes of the word that is   *)
(* stored come from a word read before: they are what memory holds, or were *)
(* exposed (Fresh).                                                        *)
(***************************************************************************)
EXTENDS FpgaMemPort, TLAPS

\* Division by a positive number, by its defining property.
LEMMA DivBounds ==
  ASSUME NEW n \in Int, NEW d \in Nat \ {0}
  PROVE  /\ n \div d \in Int
         /\ n % d \in 0..d - 1
         /\ n = d * (n \div d) + (n % d)
OBVIOUS

\* A quotient is below a bound exactly when the dividend is below its multiple.
LEMMA DivBelow ==
  ASSUME NEW n \in Int, NEW d \in Nat \ {0}, NEW k \in Int
  PROVE  n \div d < k <=> n < k * d
<1> DEFINE q == n \div d
           r == n % d
<1>1. q \in Int /\ r \in 0..d - 1 /\ n = d * q + r
  BY DivBounds
<1> HIDE DEF q, r
<1>2. CASE q < k
  <2>1. q + 1 <= k
    BY <1>1, <1>2
  <2>2. d * (q + 1) <= d * k
    BY <1>1, <2>1
  <2> QED
    BY <1>1, <1>2, <2>2
<1>3. CASE q >= k
  <2>1. d * k <= d * q
    BY <1>1, <1>3
  <2> QED
    BY <1>1, <1>3, <2>1
<1> QED
  BY <1>1, <1>2, <1>3 DEF q

\* A product divided by one of its factors.
LEMMA ProductDiv ==
  ASSUME NEW k \in Int, NEW d \in Nat \ {0}
  PROVE  (d * k) \div d = k
<1> DEFINE q == (d * k) \div d
<1>1. d * k \in Int /\ q \in Int
  BY DivBounds
<1>2. q < k + 1
  <2>1. d * k < (k + 1) * d
    OBVIOUS
  <2> QED
    BY <1>1, <2>1, DivBelow
<1>3. ~(q < k)
  <2>1. ~(d * k < k * d)
    OBVIOUS
  <2> QED
    BY <1>1, <2>1, DivBelow
<1> QED
  BY <1>1, <1>2, <1>3

\* The quotient of a multiple, and the multiple again.
LEMMA ExactDiv ==
  ASSUME NEW n \in Nat, NEW d \in Nat \ {0}, n % d = 0
  PROVE  n \div d \in Nat /\ (n \div d) * d = n
OBVIOUS

\* The remainder of a multiple of d by a multiple of d is a multiple of d.
LEMMA DivisibleRemainder ==
  ASSUME NEW n \in Nat, NEW m \in Nat \ {0}, NEW d \in Nat \ {0}, n % d = 0, m % d = 0
  PROVE  (n % m) % d = 0
<1> DEFINE a == n \div d
           b == m \div d
           q == n \div m
           r == n % m
<1>1. a \in Nat /\ n = d * a
  BY ExactDiv
<1>2. b \in Nat /\ m = d * b
  BY ExactDiv
<1>3. q \in Int /\ r \in Nat /\ n = m * q + r
  BY DivBounds
<1> HIDE DEF a, b, q, r
<1>4. r = d * (a - b * q)
  <2>1. b * q \in Int
    BY <1>2, <1>3
  <2>2. m * q = d * (b * q)
    BY <1>2, <1>3
  <2>3. d * (a - b * q) = d * a - d * (b * q)
    BY <1>1, <2>1
  <2> QED
    BY <1>1, <1>3, <2>2, <2>3
<1>5. a - b * q \in Int
  BY <1>1, <1>2, <1>3
<1>6. r \div d = a - b * q
  BY <1>4, <1>5, ProductDiv
<1>7. r = d * (r \div d) + (r % d) /\ r % d \in Int
  BY <1>3, DivBounds
<1>8. r % d = 0
  <2>1. d * (r \div d) = r
    BY <1>4, <1>6
  <2>2. r = r + (r % d)
    BY <1>7, <2>1
  <2> QED
    BY <1>3, <1>7, <2>2
<1> QED
  BY <1>8 DEF r

--------------------------------------------------------------------------------
(* The geometry of a copy *)

\* Where in its first word an array begins, and how many bytes it has.
Into(c) == c.addr % WordBytes
Size(c) == c.len * c.elem

\* The byte of the array that byte x of word w is, when it is one.
Position(c, w, x) == w * WordBytes + x - Into(c)

InArray(c, i) == 0 <= i /\ i < Size(c)

\* A copy the code may be asked for under the present options.
Asked(c) ==
  /\ c \in Copies
  /\ unaligned \in BOOLEAN /\ limits \in BOOLEAN
  /\ Permitted(c, unaligned, limits)

\* The fields of a copy and the widths it is made with.
LEMMA Fields ==
  ASSUME NEW c \in Copies
  PROVE  /\ WordBytes \in Nat \ {0} /\ c.elem \in Nat \ {0} /\ c.elem \in ElemSizes
         /\ c.addr \in Nat /\ c.len \in Nat /\ c.len <= MaxLen /\ MaxLen \in Nat
         /\ MemBytes \in Nat
         /\ Size(c) \in Nat
         /\ Into(c) \in 0..WordBytes - 1
         /\ c.out \in BOOLEAN
<1>1. /\ c.elem \in ElemSizes /\ c.len \in 0..MaxLen /\ c.addr \in Bytes
  BY DEF Copies
<1>2. /\ WordBytes \in Nat \ {0} /\ MaxLen \in Nat /\ MemBytes \in Nat
      /\ ElemSizes \subseteq Nat \ {0}
  BY FpgaMemPortAssumption
<1>3. c.elem \in Nat \ {0} /\ c.len \in Nat /\ c.len <= MaxLen
  <2>1. c.elem \in Nat \ {0}
    BY <1>1, <1>2
  <2>2. \A n \in 0..MaxLen : n \in Nat /\ n <= MaxLen
    BY <1>2
  <2> QED
    BY <1>1, <2>1, <2>2, Zenon
<1>4. c.addr \in Nat
  BY <1>1, <1>2 DEF Bytes
<1>5. Size(c) \in Nat
  BY <1>3 DEF Size
<1>6. Into(c) \in 0..WordBytes - 1
  BY <1>2, <1>4 DEF Into
<1>7. c.out \in BOOLEAN
  BY Zenon DEF Copies
<1> QED
  BY <1>1, <1>2, <1>3, <1>4, <1>5, <1>6, <1>7

\* Elements fill a word, and the offset in elements is the offset in bytes.
LEMMA Units ==
  ASSUME NEW c, Asked(c)
  PROVE  /\ PerWord(c) \in Nat /\ PerWord(c) * c.elem = WordBytes
         /\ Offset(c) \in Nat /\ Offset(c) * c.elem = Into(c)
         /\ ~unaligned => Offset(c) = 0 /\ Into(c) = 0
<1>1. c \in Copies
  BY DEF Asked
<1>2. WordBytes \in Nat \ {0} /\ c.elem \in Nat \ {0} /\ c.elem \in ElemSizes /\ c.addr \in Nat
  BY <1>1, Fields
<1>3. WordBytes % c.elem = 0
  BY <1>2, FpgaMemPortAssumption
<1>4. c.addr % c.elem = 0
  BY <1>1 DEF Copies
<1>5. PerWord(c) \in Nat /\ PerWord(c) * c.elem = WordBytes
  BY <1>2, <1>3, ExactDiv DEF PerWord
<1>6. Into(c) % c.elem = 0 /\ Into(c) \in Nat
  <2>1. c.addr % WordBytes \in Nat
    BY <1>2
  <2> QED
    BY <1>2, <1>3, <1>4, <2>1, DivisibleRemainder DEF Into
<1>7. Into(c) \div c.elem \in Nat /\ (Into(c) \div c.elem) * c.elem = Into(c)
  BY <1>2, <1>6, ExactDiv
<1>8. CASE unaligned
  BY <1>5, <1>7, <1>8 DEF Offset, Into
<1>9. CASE ~unaligned
  <2>1. Into(c) = 0
    BY <1>9 DEF Asked, Permitted, Into
  <2>2. Offset(c) = 0
    BY <1>9 DEF Offset
  <2> QED
    BY <1>2, <1>5, <1>9, <2>1, <2>2
<1> QED
  BY <1>8, <1>9

\* The loop goes on exactly while its word holds bytes of the array.
LEMMA WordsOfArray ==
  ASSUME NEW c, Asked(c), NEW w \in Nat
  PROVE  /\ Words(c) \in Nat
         /\ w < Words(c) <=> c.len > 0 /\ w * WordBytes < Size(c) + Into(c)
<1> DEFINE n == Size(c) + Into(c) - 1
<1>1. c \in Copies
  BY DEF Asked
<1>2. /\ WordBytes \in Nat \ {0} /\ c.elem \in Nat \ {0} /\ c.len \in Nat
      /\ Size(c) \in Nat /\ Into(c) \in Nat
  BY <1>1, Fields
<1>3. CASE c.len = 0
  BY <1>2, <1>3 DEF Words
<1>4. CASE c.len > 0
  <2>1. (c.len + Offset(c)) * c.elem - 1 = n
    <3>1. Offset(c) \in Nat /\ Offset(c) * c.elem = Into(c)
      BY Units
    <3>2. (c.len + Offset(c)) * c.elem = c.len * c.elem + Offset(c) * c.elem
      BY <1>2, <3>1
    <3> QED
      BY <1>2, <3>1, <3>2 DEF Size
  <2>2. Words(c) = n \div WordBytes + 1
    BY <1>4, <2>1 DEF Words
  <2>3. Size(c) >= 1
    BY <1>2, <1>4 DEF Size
  <2>4. n \in Nat
    BY <1>2, <2>3
  <2> HIDE DEF n
  <2>5. n \div WordBytes < w <=> n < w * WordBytes
    BY <1>2, <2>4, DivBelow
  <2>6. ~(n \div WordBytes < 0)
    BY <1>2, <2>4, DivBelow
  <2>7. n \div WordBytes \in Int
    BY <1>2, <2>4, DivBounds
  <2>8. w * WordBytes \in Nat
    BY <1>2
  <2>9. w < Words(c) <=> w * WordBytes <= n
    BY <2>2, <2>4, <2>5, <2>7, <2>8
  <2> QED
    BY <1>2, <1>4, <2>2, <2>6, <2>7, <2>8, <2>9 DEF n
<1> QED
  BY <1>2, <1>3, <1>4

\* What the elements a turn deals with are, in bytes of the array.
LEMMA Geometry ==
  ASSUME NEW c, Asked(c), NEW w \in 0..Words(c) - 1, NEW x \in 0..WordBytes - 1
  PROVE  /\ w \in Nat /\ Position(c, w, x) \in Int
         /\ LocalByte(c, w, x) = Position(c, w, x)
         /\ FirstByte(c, w) + x = c.addr + Position(c, w, x)
         /\ ~Skipped(c, w, x \div c.elem) <=> InArray(c, Position(c, w, x))
         /\ x \in Written(c, w) <=> InArray(c, Position(c, w, x))
<1> DEFINE W == WordBytes
           P == PerWord(c)
           O == Offset(c)
           e == c.elem
           rem == c.len + O - w * P
           ww == w * W
           size == Size(c)
           into == Into(c)
           k == x \div e
<1>1. c \in Copies
  BY DEF Asked
<1>2. /\ W \in Nat \ {0} /\ e \in Nat \ {0} /\ c.len \in Nat /\ c.addr \in Nat
      /\ size \in Nat /\ into \in 0..W - 1
  BY <1>1, Fields
<1>3. P \in Nat /\ P * e = W /\ O \in Nat /\ O * e = into /\ (~unaligned => O = 0 /\ into = 0)
  BY Units
<1>4. Words(c) \in Nat
  BY WordsOfArray, 0 \in Nat
<1>5. w \in Nat /\ w < Words(c)
  BY <1>4
<1>6. c.len > 0 /\ ww < size + into
  BY <1>5, WordsOfArray
<1>7. ww \in Nat /\ x \in Nat /\ x < W
  BY <1>2, <1>5
<1>8. w * P \in Nat /\ (w * P) * e = ww
  BY <1>2, <1>3, <1>5
<1>9. rem \in Int /\ rem * e = size + into - ww
  <2>1. rem * e = (c.len + O) * e - (w * P) * e
    BY <1>2, <1>3, <1>8
  <2>2. (c.len + O) * e = size + into
    BY <1>2, <1>3 DEF Size
  <2>3. rem \in Int
    BY <1>2, <1>3, <1>8
  <2> HIDE DEF rem, ww, size, into, P, O
  <2> QED
    BY <1>2, <1>7, <1>8, <2>1, <2>2, <2>3
<1>10. w # 0 => ww >= W
  BY <1>2, <1>5
<1>11. w = 0 => ww = 0
  BY <1>2
<1>12. k \in Int /\ (k < O <=> x < into) /\ (k < rem <=> x < size + into - ww)
  <2>1. k \in Int
    BY <1>2, <1>7
  <2>2. k < O <=> x < O * e
    BY <1>2, <1>3, <1>7, DivBelow
  <2>3. k < rem <=> x < rem * e
    BY <1>2, <1>7, <1>9, DivBelow
  <2> QED
    BY <1>3, <1>9, <2>1, <2>2, <2>3
<1>13. LocalByte(c, w, x) = ww - into + x
  <2>1. (w * P - O) * e = (w * P) * e - O * e
    BY <1>2, <1>3, <1>8
  <2> QED
    BY <1>3, <1>8, <2>1 DEF LocalByte
<1>14. FirstByte(c, w) = c.addr - into + ww
  <2>1. /\ c.addr \div W \in Int
        /\ c.addr = W * (c.addr \div W) + into
    <3>1. c.addr \in Int
      BY <1>2
    <3> QED
      BY <1>2, <3>1, DivBounds, Zenon DEF Into
  <2>2. (c.addr \div W + w) * W = W * (c.addr \div W) + ww
    BY <1>2, <1>5, <2>1
  <2>3. W * (c.addr \div W) = c.addr - into
    BY <1>2, <2>1
  <2> QED
    BY <2>2, <2>3 DEF FirstByte
<1>15. unaligned \in BOOLEAN /\ limits \in BOOLEAN
  BY DEF Asked
<1>16. Position(c, w, x) = ww + x - into /\ Position(c, w, x) \in Int
  BY <1>2, <1>7 DEF Position
<1>17. w * P + k >= c.len + O <=> ~(k < rem)
  BY <1>2, <1>3, <1>8, <1>12
<1>18. InArray(c, Position(c, w, x)) <=> into <= ww + x /\ x < size + into - ww
  BY <1>2, <1>7, <1>16 DEF InArray
<1> HIDE DEF P, O, e, rem, ww, size, into, k
<1>19. CASE ~unaligned /\ ~limits
  <2>1. InArray(c, Position(c, w, x))
    <3>1. into = 0 /\ size % W = 0
      BY <1>3, <1>19 DEF Asked, Permitted, Size, size
    <3>2. size \div W \in Int /\ size = (size \div W) * W
      BY <1>2, <3>1, ExactDiv
    <3>3. w < size \div W
      BY <1>2, <1>5, <1>6, <3>1, <3>2 DEF ww
    <3>4. w + 1 <= size \div W
      BY <1>5, <3>2, <3>3
    <3>5. (w + 1) * W <= (size \div W) * W
      BY <1>2, <1>5, <3>2, <3>4
    <3>6. ww + W <= size
      BY <1>2, <1>5, <3>2, <3>5 DEF ww
    <3> QED
      BY <1>2, <1>7, <1>18, <3>1, <3>6
  <2>2. ~Skipped(c, w, x \div c.elem)
    BY <1>19 DEF Skipped
  <2>3. x \in Written(c, w)
    BY <1>7, <1>19 DEF Written, W
  <2> QED
    BY <1>5, <1>13, <1>14, <1>16, <1>2, <1>7, <2>1, <2>2, <2>3
<1>20. CASE unaligned \/ limits
  <2>1. Skipped(c, w, x \div c.elem) <=> (w = 0 /\ x < into) \/ ~(x < size + into - ww)
    <3>1. Skipped(c, w, k) <=> (unaligned /\ w = 0 /\ k < O) \/ w * P + k >= c.len + O
      BY <1>20 DEF Skipped, O, P
    <3>2. Skipped(c, w, k) <=> (unaligned /\ w = 0 /\ x < into) \/ ~(x < size + into - ww)
      BY <1>12, <1>17, <3>1
    <3>3. ~unaligned => ~(x < into)
      BY <1>3, <1>7
    <3> QED
      BY <3>2, <3>3 DEF k, e
  <2>2. Skipped(c, w, x \div c.elem) <=> ~InArray(c, Position(c, w, x))
    BY <1>2, <1>7, <1>10, <1>11, <1>18, <2>1
  <2>3. x \in Written(c, w) <=> ~(w = 0 /\ x < into) /\ x < size + into - ww
    <3> DEFINE first == IF unaligned /\ w = 0 THEN O * e ELSE 0
               last == IF rem >= P THEN W - 1 ELSE rem * e - 1
    <3>1. Written(c, w) = first..last
      BY <1>20 DEF Written, O, e, rem, P, W
    <3>2. first \in Int /\ (x >= first <=> ~(w = 0 /\ x < into))
      BY <1>2, <1>3, <1>7
    <3>3. last \in Int /\ (x <= last <=> x < size + into - ww)
      <4>1. CASE rem >= P
        <5>1. rem * e >= P * e
          BY <1>2, <1>3, <1>9, <4>1
        <5> QED
          BY <1>2, <1>3, <1>7, <1>9, <4>1, <5>1
      <4>2. CASE ~(rem >= P)
        BY <1>2, <1>7, <1>9, <4>2
      <4> QED
        BY <4>1, <4>2
    <3> HIDE DEF first, last
    <3> QED
      BY <1>7, <3>1, <3>2, <3>3
  <2> QED
    BY <1>2, <1>5, <1>7, <1>10, <1>11, <1>13, <1>14, <1>16, <1>18, <2>2, <2>3
<1> QED
  BY <1>15, <1>19, <1>20

\* A turn writes bytes of its word only.
LEMMA WrittenInWord ==
  ASSUME NEW c, Asked(c), NEW w \in Nat
  PROVE  Written(c, w) \subseteq 0..WordBytes - 1
<1> DEFINE rem == c.len + Offset(c) - w * PerWord(c)
           first == IF unaligned /\ w = 0 THEN Offset(c) * c.elem ELSE 0
           last == IF rem >= PerWord(c) THEN WordBytes - 1 ELSE rem * c.elem - 1
<1>1. c \in Copies
  BY DEF Asked
<1>2. WordBytes \in Nat \ {0} /\ c.elem \in Nat \ {0} /\ c.len \in Nat /\ Into(c) \in Nat
  BY <1>1, Fields
<1>3. /\ PerWord(c) \in Nat /\ PerWord(c) * c.elem = WordBytes
      /\ Offset(c) \in Nat /\ Offset(c) * c.elem = Into(c)
  BY Units
<1>4. rem \in Int
  BY <1>2, <1>3
<1>5. first \in Nat
  BY <1>2, <1>3
<1> HIDE DEF rem
<1>6. last \in Int /\ last <= WordBytes - 1
  <2>1. CASE rem >= PerWord(c)
    BY <1>2, <2>1
  <2>2. CASE ~(rem >= PerWord(c))
    <3>1. rem * c.elem < PerWord(c) * c.elem
      BY <1>2, <1>3, <1>4, <2>2
    <3> QED
      BY <1>2, <1>3, <1>4, <2>2, <3>1
  <2> QED
    BY <2>1, <2>2
<1>7. Written(c, w) = (IF unaligned \/ limits THEN first..last ELSE 0..WordBytes - 1)
  BY DEF Written, rem
<1> HIDE DEF first, last
<1> QED
  BY <1>2, <1>5, <1>6, <1>7

\* A multiple of the divisor does not change a remainder.
LEMMA ModShift ==
  ASSUME NEW x \in Int, NEW m \in Int, NEW d \in Nat \ {0}
  PROVE  (m * d + x) % d = x % d
<1> DEFINE n == m * d + x
           q == x \div d
           r == x % d
           q2 == n \div d
           r2 == n % d
           t == m + q - q2
<1>1. n \in Int
  OBVIOUS
<1>2. q \in Int /\ r \in 0..d - 1 /\ x = d * q + r
  BY DivBounds
<1>3. q2 \in Int /\ r2 \in 0..d - 1 /\ n = d * q2 + r2
  BY <1>1, DivBounds
<1> HIDE DEF q, r, q2, r2
<1>4. t \in Int /\ d * t = r2 - r
  <2>1. d * t = m * d + d * q - d * q2
    BY <1>2, <1>3
  <2> QED
    BY <1>2, <1>3, <2>1
<1> HIDE DEF t
<1>5. t = 0
  <2>1. CASE t >= 1
    <3>1. d * t >= d
      BY <1>4, <2>1
    <3> QED
      BY <1>2, <1>3, <1>4, <3>1
  <2>2. CASE t <= -1
    <3>1. d * t <= -d
      BY <1>4, <2>2
    <3> QED
      BY <1>2, <1>3, <1>4, <3>1
  <2> QED
    BY <1>4, <2>1, <2>2
<1>6. r2 = r
  BY <1>2, <1>3, <1>4, <1>5
<1> QED
  BY <1>6 DEF r, r2

\* A byte is at the same place of its element in the word and in the array.
LEMMA Through ==
  ASSUME NEW c, Asked(c), NEW w \in Nat, NEW x \in 0..WordBytes - 1, NEW v, NEW rest
  PROVE  ThroughRaw(c, x, v, rest) = ThroughRaw(c, Position(c, w, x), v, rest)
<1> DEFINE m == w * PerWord(c) - Offset(c)
<1>1. /\ WordBytes \in Nat \ {0} /\ c.elem \in Nat \ {0} /\ Into(c) \in Nat
  BY Fields DEF Asked
<1>2. /\ PerWord(c) \in Nat /\ PerWord(c) * c.elem = WordBytes
      /\ Offset(c) \in Nat /\ Offset(c) * c.elem = Into(c)
  BY Units
<1>3. x \in Int /\ m \in Int
  BY <1>1, <1>2
<1>4. m * c.elem = w * WordBytes - Into(c)
  <2>1. m * c.elem = (w * PerWord(c)) * c.elem - Offset(c) * c.elem
    BY <1>1, <1>2
  <2>2. (w * PerWord(c)) * c.elem = w * (PerWord(c) * c.elem)
    BY <1>1, <1>2
  <2> QED
    BY <1>1, <1>2, <2>1, <2>2
<1>5. w * WordBytes \in Nat
  BY <1>1
<1> HIDE DEF m
<1>6. Position(c, w, x) = m * c.elem + x
  BY <1>1, <1>3, <1>4, <1>5 DEF Position
<1>7. Position(c, w, x) % c.elem = x % c.elem
  BY <1>1, <1>3, <1>6, ModShift
<1> QED
  BY <1>7 DEF ThroughRaw

\* The bytes of an array are bytes of the memory and of the local array.
LEMMA ArrayBytes ==
  ASSUME NEW c, Asked(c), NEW i \in Int, InArray(c, i)
  PROVE  /\ c.addr + i \in Array(c)
         /\ c.addr + i \in Bytes
         /\ i \in LocalBytes
<1>1. c \in Copies
  BY DEF Asked
<1>2. /\ WordBytes \in Nat \ {0} /\ c.elem \in Nat \ {0} /\ c.len \in Nat /\ c.addr \in Nat
      /\ c.len <= MaxLen /\ MaxLen \in Nat /\ Size(c) \in Nat
  BY <1>1, Fields
<1>3. c.addr + i \in Array(c)
  BY <1>2 DEF Array, InArray, Size
<1>4. Array(c) \subseteq Bytes
  BY <1>1 DEF Copies
<1>5. c.elem <= WordBytes
  <2>1. PerWord(c) \in Nat /\ PerWord(c) * c.elem = WordBytes
    BY Units
  <2>2. PerWord(c) # 0
    BY <1>2, <2>1
  <2> QED
    BY <1>2, <2>1, <2>2
<1>6. Size(c) <= MaxLen * WordBytes
  <2>1. c.len * c.elem <= MaxLen * c.elem
    BY <1>2
  <2>2. MaxLen * c.elem <= MaxLen * WordBytes
    BY <1>2, <1>5
  <2>3. MaxLen * c.elem \in Nat /\ MaxLen * WordBytes \in Nat
    BY <1>2
  <2> QED
    BY <1>2, <2>1, <2>2, <2>3 DEF Size
<1>7. MaxLen * WordBytes \in Nat
  BY <1>2
<1>8. i \in LocalBytes
  BY <1>2, <1>6, <1>7 DEF InArray, LocalBytes
<1> QED
  BY <1>3, <1>4, <1>8

--------------------------------------------------------------------------------
(* The inductive invariant *)

\* What is in place after the turns a copy has made.
Progress(a) ==
  LET c == copy[a] IN
  \A i \in Int : InArray(c, i) /\ i + Into(c) < j[a] * WordBytes /\ i % c.elem < RawBytes =>
    InPlace(a, i) \/ (c.out /\ c.addr + i \in exposed)

\* A byte of a word that is held.
HeldByte(a, b) == held[a][b - FirstByte(copy[a], j[a])]

\* A word that is held is what memory holds, except for what was stored since by one
\* who could not know.
Fresh(a) ==
  \A b \in Bytes : Holds(a, b) =>
    MayBe(b, HeldByte(a, b)) /\ (HeldByte(a, b) = mem[b] \/ b \in exposed)

\* Tasks that run at the same time do not write what another one uses.
Apart ==
  \A a, b \in Accs :
    a # b /\ copy[a].out => Array(copy[a]) \cap Array(copy[b]) = {}

IInv ==
  /\ TypeOK
  /\ \A a \in Accs : Asked(copy[a])
  /\ Apart
  /\ j \in [Accs -> Nat] /\ DOMAIN local = Accs /\ DOMAIN held = Accs
  /\ NothingElse
  /\ \A a \in Accs : Progress(a)
  /\ \A a \in Accs : Fresh(a)

\* Initially no turn was made.
LEMMA InitIInv == Init => IInv
<1> SUFFICES ASSUME Init PROVE IInv
  OBVIOUS
<1>1. \A a \in Accs : Asked(copy[a])
  BY DEF Init, Asked
<1>2. Apart
  BY DEF Init, Apart
<1>3. /\ j \in [Accs -> Nat] /\ \A a \in Accs : j[a] = 0
      /\ DOMAIN local = Accs /\ DOMAIN held = Accs /\ \A a \in Accs : held[a] = NoWord
  BY DEF Init
<1>4. TypeOK
  <2>1. copy \in [Accs -> Copies]
    BY DEF Init
  <2>2. \A a \in Accs : Words(copy[a]) \in Nat
    BY <1>1, WordsOfArray, 0 \in Nat
  <2> QED
    BY <1>3, <2>1, <2>2 DEF Init, TypeOK
<1>5. NothingElse
  BY DEF Init, NothingElse, MayBe
<1>6. ASSUME NEW a \in Accs PROVE Progress(a)
  <2>1. /\ WordBytes \in Nat /\ Into(copy[a]) \in Nat
    <3>1. copy[a] \in Copies
      BY <1>1 DEF Asked
    <3> QED
      BY <3>1, Fields
  <2>2. j[a] * WordBytes = 0
    BY <1>3, <2>1
  <2> QED
    BY <2>1, <2>2 DEF Progress, InArray
<1>7. \A a \in Accs : Fresh(a)
  BY <1>3 DEF Fresh, Holds
<1> QED
  BY <1>1, <1>2, <1>3, <1>4, <1>5, <1>6, <1>7 DEF IInv

\* What every proof about a turn starts from.
LEMMA Turn ==
  ASSUME IInv, NEW a \in Accs, j[a] < Words(copy[a])
  PROVE  /\ Asked(copy[a]) /\ copy[a] \in Copies
         /\ j[a] \in Nat /\ j[a] \in 0..Words(copy[a]) - 1 /\ Words(copy[a]) \in Nat
         /\ WordBytes \in Nat \ {0} /\ Into(copy[a]) \in Nat /\ copy[a].addr \in Nat
         /\ j[a] * WordBytes \in Nat
         /\ (j[a] + 1) * WordBytes = j[a] * WordBytes + WordBytes
<1>1. Asked(copy[a]) /\ copy[a] \in Copies
  BY DEF IInv, Asked
<1>2. j[a] \in Nat
  BY DEF IInv
<1>3. Words(copy[a]) \in Nat
  BY <1>1, <1>2, WordsOfArray
<1>4. WordBytes \in Nat \ {0} /\ Into(copy[a]) \in Nat /\ copy[a].addr \in Nat
  BY <1>1, Fields
<1> QED
  BY <1>1, <1>2, <1>3, <1>4

\* Whether byte i of the array lies in word w of its copy.
InWord(c, w, i) == w * WordBytes <= i + Into(c) /\ i + Into(c) < w * WordBytes + WordBytes

\* A byte that lies in a word is one of the bytes a turn deals with.
LEMMA WordByte ==
  ASSUME NEW c, Asked(c), NEW w \in Nat, NEW i \in Int
  PROVE  /\ i + Into(c) - w * WordBytes \in Int
         /\ InWord(c, w, i) <=> i + Into(c) - w * WordBytes \in 0..WordBytes - 1
         /\ Position(c, w, i + Into(c) - w * WordBytes) = i
<1>1. WordBytes \in Nat \ {0} /\ Into(c) \in Nat
  BY Fields DEF Asked
<1>2. w * WordBytes \in Nat
  BY <1>1
<1> QED
  BY <1>1, <1>2 DEF InWord, Position

\* A turn of the copy in moves those bytes of its word that are in the array.
LEMMA TurnInEffect ==
  ASSUME IInv, NEW a \in Accs, TurnIn(a)
  PROVE  \A b \in LocalBytes :
           local'[a][b] = IF InArray(copy[a], b) /\ InWord(copy[a], j[a], b)
                          THEN ThroughRaw(copy[a], b, mem[copy[a].addr + b], Junk)
                          ELSE local[a][b]
<1> DEFINE c == copy[a]
           w == j[a]
           moved == {x \in 0..WordBytes - 1 : ~Skipped(c, w, x \div c.elem)}
           new(b) == LET x == b - LocalByte(c, w, 0) IN
                     IF x \in moved THEN ThroughRaw(c, x, MemAt(FirstByte(c, w) + x), Junk)
                     ELSE local[a][b]
<1> SUFFICES ASSUME NEW b \in LocalBytes
             PROVE  local'[a][b] = IF InArray(c, b) /\ InWord(c, w, b)
                                   THEN ThroughRaw(c, b, mem[c.addr + b], Junk)
                                   ELSE local[a][b]
  OBVIOUS
<1>1. w < Words(c)
  BY DEF TurnIn
<1>2. /\ Asked(c) /\ c \in Copies /\ w \in Nat /\ w \in 0..Words(c) - 1
      /\ WordBytes \in Nat \ {0} /\ Into(c) \in Nat /\ w * WordBytes \in Nat
  BY <1>1, Turn
<1>3. local'[a][b] = new(b)
  <2>1. local' = [local EXCEPT ![a] = [bb \in LocalBytes |->
          LET x == bb - LocalByte(c, w, 0) IN
          IF x \in moved THEN ThroughRaw(c, x, MemAt(FirstByte(c, w) + x), Junk) ELSE @[bb]]]
    BY DEF TurnIn
  <2>2. DOMAIN local = Accs
    BY DEF IInv
  <2> HIDE DEF moved, c, w
  <2> QED
    BY <2>1, <2>2
<1> DEFINE x == b + Into(c) - w * WordBytes
<1>4. LocalByte(c, w, 0) = w * WordBytes - Into(c)
  <2>1. LocalByte(c, w, 0) = Position(c, w, 0)
    BY <1>2, Geometry
  <2> QED
    BY <1>2, <2>1 DEF Position
<1>5. b \in Int
  <2>1. -WordBytes \in Int /\ MaxLen * WordBytes + WordBytes \in Int
    BY <1>2, FpgaMemPortAssumption
  <2> QED
    BY <2>1 DEF LocalBytes
<1>6. b - LocalByte(c, w, 0) = x
  BY <1>2, <1>4, <1>5
<1>7. new(b) = IF x \in moved THEN ThroughRaw(c, x, MemAt(FirstByte(c, w) + x), Junk)
               ELSE local[a][b]
  BY <1>6
<1>8. x \in Int /\ (InWord(c, w, b) <=> x \in 0..WordBytes - 1) /\ Position(c, w, x) = b
  BY <1>2, <1>5, WordByte
<1> HIDE DEF x, new, c, w
<1>9. CASE x \in 0..WordBytes - 1
  <2>1. ~Skipped(c, w, x \div c.elem) <=> InArray(c, b)
    BY <1>2, <1>8, <1>9, Geometry
  <2>2. FirstByte(c, w) + x = c.addr + b
    BY <1>2, <1>8, <1>9, Geometry
  <2>3. CASE InArray(c, b)
    <3>1. ThroughRaw(c, x, MemAt(FirstByte(c, w) + x), Junk)
            = ThroughRaw(c, b, MemAt(FirstByte(c, w) + x), Junk)
      BY <1>2, <1>8, <1>9, Through
    <3>2. c.addr + b \in Bytes
      BY <1>2, <1>5, <2>3, ArrayBytes
    <3>3. MemAt(FirstByte(c, w) + x) = mem[c.addr + b]
      BY <2>2, <3>2 DEF MemAt
    <3> QED
      BY <1>3, <1>7, <1>8, <1>9, <2>1, <2>3, <3>1, <3>3
  <2>4. CASE ~InArray(c, b)
    BY <1>3, <1>7, <2>1, <2>4
  <2> QED
    BY <2>3, <2>4
<1>10. CASE ~(x \in 0..WordBytes - 1)
  BY <1>3, <1>7, <1>8, <1>10
<1> QED
  BY <1>9, <1>10 DEF c, w

\* A turn of the copy out stores those bytes of its word that are in the array, with
\* the bytes of the local array, and the others as they were read.
LEMMA TurnOutEffect ==
  ASSUME IInv, NEW a \in Accs, TurnOut(a), NEW b \in Bytes
  PROVE  LET c == copy[a]
             i == b - c.addr
             stored == InArray(c, i) /\ InWord(c, j[a], i) IN
         /\ stored => mem'[b] = ThroughRaw(c, i, local[a][i], Zero)
         /\ ~stored => mem'[b] = mem[b] \/ (Holds(a, b) /\ mem'[b] = HeldByte(a, b))
         /\ b \in exposed' <=> b \in exposed \/ (stored /\ \E o \in Accs \ {a} : Holds(o, b))
<1> DEFINE c == copy[a]
           w == j[a]
           first == FirstByte(c, w)
           buffer == [y \in 0..WordBytes - 1 |->
             IF Skipped(c, w, y \div c.elem) THEN Junk
             ELSE ThroughRaw(c, y, local[a][LocalByte(c, w, y)], Zero)]
           word == [y \in 0..WordBytes - 1 |->
             IF y \in Written(c, w) THEN buffer[y] ELSE held[a][y]]
           i == b - c.addr
           x == i + Into(c) - w * WordBytes
<1>1. w < Words(c)
  BY DEF TurnOut
<1>2. /\ Asked(c) /\ c \in Copies /\ w \in Nat /\ w \in 0..Words(c) - 1
      /\ WordBytes \in Nat \ {0} /\ Into(c) \in Nat /\ c.addr \in Nat /\ w * WordBytes \in Nat
  BY <1>1, Turn
<1>3. /\ mem'[b] = IF b - first \in 0..WordBytes - 1 THEN word[b - first] ELSE mem[b]
      /\ b \in exposed' <=>
           b \in exposed \/ (b - first \in Written(c, w) /\ \E o \in Accs \ {a} : Holds(o, b))
      /\ Partial => held[a] # NoWord
  BY DEF TurnOut
<1>4. b \in Int /\ i \in Int
  BY <1>2, FpgaMemPortAssumption DEF Bytes
<1>5. first = c.addr - Into(c) + w * WordBytes
  <2>1. first + 0 = c.addr + Position(c, w, 0)
    BY <1>2, Geometry
  <2>2. first \in Int
    <3>1. c.addr \div WordBytes \in Int
      BY <1>2
    <3> QED
      BY <1>2, <3>1 DEF FirstByte
  <2> QED
    BY <1>2, <2>1, <2>2 DEF Position
<1>6. b - first = x
  BY <1>2, <1>4, <1>5
<1>7. x \in Int /\ (InWord(c, w, i) <=> x \in 0..WordBytes - 1) /\ Position(c, w, x) = i
  BY <1>2, <1>4, WordByte
<1>8. Written(c, w) \subseteq 0..WordBytes - 1
  BY <1>2, WrittenInWord
<1>9. /\ Holds(a, b) <=> held[a] # NoWord /\ b - first \in 0..WordBytes - 1
      /\ HeldByte(a, b) = held[a][b - first]
  BY DEF Holds, HeldByte
<1> HIDE DEF x, i, c, w, buffer, word, first
<1>10. CASE x \in 0..WordBytes - 1
  <2>1. /\ x \in Written(c, w) <=> InArray(c, i)
        /\ ~Skipped(c, w, x \div c.elem) <=> InArray(c, i)
        /\ LocalByte(c, w, x) = i
    BY <1>2, <1>7, <1>10, Geometry
  <2>2. mem'[b] = IF x \in Written(c, w) THEN buffer[x] ELSE held[a][x]
    BY <1>3, <1>6, <1>10 DEF word
  <2>3. InArray(c, i) => buffer[x] = ThroughRaw(c, i, local[a][i], Zero)
    <3>1. ThroughRaw(c, x, local[a][i], Zero) = ThroughRaw(c, i, local[a][i], Zero)
      BY <1>2, <1>7, <1>10, Through
    <3> QED
      BY <1>10, <2>1, <3>1 DEF buffer
  <2>4. x \notin Written(c, w) => held[a] # NoWord
    <3>1. ~Partial => Written(c, w) = 0..WordBytes - 1
      BY DEF Written, Partial
    <3> QED
      BY <1>3, <1>10, <3>1
  <2> QED
    BY <1>3, <1>6, <1>7, <1>9, <1>10, <2>1, <2>2, <2>3, <2>4 DEF i, c, w
<1>11. CASE ~(x \in 0..WordBytes - 1)
  BY <1>3, <1>6, <1>7, <1>8, <1>11 DEF i, c, w
<1> QED
  BY <1>10, <1>11

\* A word with bytes of an array is a word of the memory.
LEMMA WordInMemory ==
  ASSUME NEW c, Asked(c), NEW w \in 0..Words(c) - 1
  PROVE  FirstByte(c, w) + WordBytes <= MemBytes
<1> DEFINE W == WordBytes
           q == c.addr \div W
<1>1. c \in Copies
  BY DEF Asked
<1>2. /\ W \in Nat \ {0} /\ c.elem \in Nat \ {0} /\ c.len \in Nat /\ c.addr \in Nat
      /\ Size(c) \in Nat /\ Into(c) \in 0..W - 1 /\ MemBytes \in Nat
  BY <1>1, Fields
<1>3. w \in Nat /\ w < Words(c)
  BY 0 \in Nat, WordsOfArray
<1>4. c.len > 0 /\ w * W < Size(c) + Into(c)
  BY <1>3, WordsOfArray
<1>5. Size(c) >= 1
  BY <1>2, <1>4 DEF Size
<1>6. c.addr + (Size(c) - 1) < MemBytes
  <2>1. InArray(c, Size(c) - 1)
    BY <1>2, <1>5 DEF InArray
  <2>2. c.addr + (Size(c) - 1) \in Bytes
    BY <1>2, <2>1, ArrayBytes
  <2> QED
    BY <1>2, <2>2 DEF Bytes
<1>7. q \in Int /\ c.addr = W * q + Into(c)
  <2>1. c.addr \in Int
    BY <1>2
  <2> QED
    BY <1>2, <2>1, DivBounds, Zenon DEF Into
<1> HIDE DEF q
<1>8. FirstByte(c, w) = (q + w) * W
  BY DEF FirstByte, q
<1>9. (q + w) * W = W * q + w * W /\ w * W \in Nat /\ W * q \in Int
  BY <1>2, <1>3, <1>7
<1>10. (q + w) * W < MemBytes
  BY <1>2, <1>4, <1>6, <1>7, <1>9
<1>11. MemBytes \div W \in Nat /\ (MemBytes \div W) * W = MemBytes
  BY <1>2, FpgaMemPortAssumption, ExactDiv
<1>12. q + w < MemBytes \div W
  BY <1>2, <1>3, <1>7, <1>10, <1>11
<1>13. (q + w + 1) * W <= (MemBytes \div W) * W
  BY <1>2, <1>3, <1>7, <1>11, <1>12
<1>14. (q + w + 1) * W = (q + w) * W + W
  BY <1>2, <1>3, <1>7
<1> QED
  BY <1>2, <1>8, <1>9, <1>11, <1>13, <1>14

\* The bytes in the array of a copy in are as they were: those who write are apart.
LEMMA SourceIntact ==
  ASSUME IInv, NEW a \in Accs, ~copy[a].out, NEW i \in Int, InArray(copy[a], i)
  PROVE  mem[copy[a].addr + i] = MemInit(copy[a].addr + i)
<1>1. Asked(copy[a])
  BY DEF IInv
<1>2. copy[a].addr + i \in Array(copy[a]) /\ copy[a].addr + i \in Bytes
  BY <1>1, ArrayBytes
<1>3. ASSUME NEW b \in Accs, copy[b].out, copy[a].addr + i \in Array(copy[b]) PROVE FALSE
  BY <1>2, <1>3 DEF IInv, Apart
<1> QED
  BY <1>2, <1>3 DEF IInv, NothingElse, MayBe

\* A step leaves the options and the copies alone, and makes one turn.
LEMMA StepTypes ==
  ASSUME IInv, NEW a \in Accs, j[a] < Words(copy[a]),
         j' = [j EXCEPT ![a] = @ + 1], UNCHANGED <<unaligned, limits, copy>>,
         held'[a] = NoWord, \A b \in Accs : b # a => held'[b] = held[b],
         exposed' \subseteq Bytes
  PROVE  /\ TypeOK' /\ (\A b \in Accs : Asked(copy[b]))' /\ Apart' /\ j' \in [Accs -> Nat]
         /\ j'[a] = j[a] + 1 /\ \A b \in Accs : b # a => j'[b] = j[b]
<1>1. /\ Asked(copy[a]) /\ j[a] \in Nat /\ Words(copy[a]) \in Nat
      /\ j[a] \in 0..Words(copy[a]) - 1
  BY Turn
<1>2. /\ j' \in [Accs -> Nat] /\ j'[a] = j[a] + 1
      /\ \A b \in Accs : b # a => j'[b] = j[b]
  BY <1>1 DEF IInv
<1>3. (\A b \in Accs : Asked(copy[b]))'
  BY DEF IInv, Asked, Permitted
<1>4. Apart'
  BY DEF IInv, Apart
<1>5. TypeOK'
  <2>1. (unaligned \in BOOLEAN /\ limits \in BOOLEAN /\ copy \in [Accs -> Copies])'
    BY DEF IInv, TypeOK
  <2>2. ASSUME NEW b \in Accs
        PROVE  /\ Words(copy[b])' = Words(copy[b])
               /\ FirstByte(copy[b], j[b] - 1)' = FirstByte(copy[b], j'[b] - 1)
    BY DEF Words, Offset, FirstByte
  <2>3. ASSUME NEW b \in Accs
        PROVE  /\ j'[b] \in 0..Words(copy[b])
               /\ j'[b] > 0 => FirstByte(copy[b], j'[b] - 1) + WordBytes <= MemBytes
    <3>1. CASE b = a
      <4>1. j'[b] \in 0..Words(copy[b]) /\ j'[b] - 1 = j[a]
        BY <1>1, <1>2, <3>1
      <4>2. FirstByte(copy[a], j[a]) + WordBytes <= MemBytes
        BY <1>1, WordInMemory
      <4> QED
        BY <3>1, <4>1, <4>2
    <3>2. CASE b # a
      BY <1>2, <3>2 DEF IInv, TypeOK
    <3> QED
      BY <3>1, <3>2
  <2>4. ASSUME NEW b \in Accs, held'[b] # NoWord
        PROVE  copy[b].out /\ j'[b] < Words(copy[b])
    BY <1>2, <2>4 DEF IInv, TypeOK
  <2> QED
    BY <2>1, <2>2, <2>3, <2>4 DEF TypeOK
<1> QED
  BY <1>2, <1>3, <1>4, <1>5

\* Only the one who makes a step changes what it holds, and nobody else's copy moves.
LEMMA OthersFresh ==
  ASSUME IInv, NEW d \in Accs, UNCHANGED <<copy, mem, exposed>>,
         held'[d] = held[d], j'[d] = j[d]
  PROVE  Fresh(d)'
<1>1. Fresh(d)
  BY DEF IInv
<1>2. \A b \in Bytes : Holds(d, b)' = Holds(d, b) /\ HeldByte(d, b)' = HeldByte(d, b)
  BY DEF Holds, HeldByte, FirstByte
<1> QED
  BY <1>1, <1>2 DEF Fresh, MayBe

\* A turn of a copy in preserves the invariant.
LEMMA TurnInStep ==
  ASSUME IInv, NEW a \in Accs, TurnIn(a)
  PROVE  IInv'
<1> DEFINE c == copy[a]
           w == j[a]
<1>1. /\ w < Words(c) /\ ~c.out /\ j' = [j EXCEPT ![a] = @ + 1]
      /\ UNCHANGED <<unaligned, limits, copy, mem, held, exposed>>
  BY DEF TurnIn
<1>2. held[a] = NoWord /\ exposed \subseteq Bytes
  BY <1>1 DEF IInv, TypeOK
<1>3. /\ TypeOK' /\ (\A b \in Accs : Asked(copy[b]))' /\ Apart' /\ j' \in [Accs -> Nat]
      /\ j'[a] = w + 1 /\ \A b \in Accs : b # a => j'[b] = j[b]
  BY <1>1, <1>2, StepTypes
<1>4. DOMAIN local' = Accs /\ \A b \in Accs : b # a => local'[b] = local[b]
  BY DEF TurnIn, IInv
<1>5. \A b \in LocalBytes :
        local'[a][b] = IF InArray(c, b) /\ InWord(c, w, b)
                       THEN ThroughRaw(c, b, mem[c.addr + b], Junk) ELSE local[a][b]
  BY TurnInEffect
<1>6. /\ Asked(c) /\ c \in Copies /\ w \in Nat /\ WordBytes \in Nat \ {0}
      /\ Into(c) \in Nat /\ w * WordBytes \in Nat
      /\ (w + 1) * WordBytes = w * WordBytes + WordBytes
  BY <1>1, Turn
<1>7. NothingElse'
  <2>1. (\A b \in Bytes : MayBe(b, mem[b]))'
    BY <1>1 DEF IInv, NothingElse, MayBe
  <2>2. ASSUME NEW d \in Accs, NEW b \in LocalBytes, local'[d][b] # LocalInit(d, b)
        PROVE  ~copy[d].out /\ b \in 0..copy[d].len * copy[d].elem - 1
    <3>1. CASE local'[d][b] = local[d][b]
      BY <2>2, <3>1 DEF IInv, NothingElse
    <3>2. CASE local'[d][b] # local[d][b]
      <4>1. d = a /\ InArray(c, b)
        BY <1>4, <1>5, <3>2
      <4>2. b \in 0..Size(c) - 1
        <5>1. Size(c) \in Nat
          BY <1>6, Fields
        <5>2. b \in Int
          <6>1. MaxLen * WordBytes + WordBytes \in Int
            BY <1>6, FpgaMemPortAssumption
          <6> QED
            BY <1>6, <6>1 DEF LocalBytes
        <5> QED
          BY <4>1, <5>1, <5>2 DEF InArray
      <4> QED
        BY <1>1, <4>1, <4>2 DEF Size
    <3> QED
      BY <3>1, <3>2
  <2> QED
    BY <1>1, <2>1, <2>2 DEF NothingElse
<1>8. ASSUME NEW d \in Accs PROVE Progress(d)'
  <2>1. SUFFICES ASSUME NEW i \in Int, InArray(copy[d], i),
                        i + Into(copy[d]) < j'[d] * WordBytes, i % copy[d].elem < RawBytes
                 PROVE  InPlace(d, i)' \/ (copy[d].out /\ copy[d].addr + i \in exposed)
    BY <1>1 DEF Progress, InArray, Size, Into
  <2>2. Progress(d)
    BY DEF IInv
  <2>3. CASE d # a
    BY <1>1, <1>3, <1>4, <2>1, <2>2, <2>3 DEF Progress, InPlace
  <2>4. CASE d = a
    <3>1. i \in LocalBytes
      BY <1>6, <2>1, <2>4, ArrayBytes
    <3>2. mem[c.addr + i] = MemInit(c.addr + i)
      BY <1>1, <2>1, <2>4, SourceIntact
    <3>3. CASE InWord(c, w, i)
      <4>1. local'[a][i] = MemInit(c.addr + i)
        BY <1>5, <2>1, <2>4, <3>1, <3>2, <3>3 DEF ThroughRaw
      <4> QED
        BY <1>1, <2>4, <4>1 DEF InPlace
    <3>4. CASE ~InWord(c, w, i)
      <4>1. i + Into(c) < w * WordBytes
        BY <1>3, <1>6, <2>1, <2>4, <3>4 DEF InWord
      <4>2. local[a][i] = MemInit(c.addr + i)
        BY <1>1, <2>1, <2>2, <2>4, <4>1 DEF Progress, InPlace
      <4>3. local'[a][i] = MemInit(c.addr + i)
        BY <1>5, <3>1, <3>4, <4>2
      <4> QED
        BY <1>1, <2>4, <4>3 DEF InPlace
    <3> QED
      BY <3>3, <3>4
  <2> QED
    BY <2>3, <2>4
<1>9. ASSUME NEW d \in Accs PROVE Fresh(d)'
  <2>1. CASE d # a
    BY <1>1, <1>3, <2>1, OthersFresh
  <2>2. CASE d = a
    BY <1>1, <1>2, <2>2 DEF Fresh, Holds
  <2> QED
    BY <2>1, <2>2
<1>10. DOMAIN held' = Accs
  BY <1>1 DEF IInv
<1> QED
  BY <1>3, <1>4, <1>7, <1>8, <1>9, <1>10 DEF IInv

\* The read of a word preserves the invariant: what is held is what memory holds.
LEMMA ReadWordStep ==
  ASSUME IInv, NEW a \in Accs, ReadWord(a)
  PROVE  IInv'
<1> DEFINE c == copy[a]
           w == j[a]
           word == [x \in 0..WordBytes - 1 |-> mem[FirstByte(c, w) + x]]
<1>1. /\ w < Words(c) /\ c.out
      /\ UNCHANGED <<unaligned, limits, copy, j, local, mem, exposed>>
      /\ held' = [held EXCEPT ![a] = word]
  BY DEF ReadWord
<1>2. /\ DOMAIN held' = Accs /\ held'[a] = word
      /\ \A d \in Accs : d # a => held'[d] = held[d]
  BY <1>1 DEF IInv
<1>3. TypeOK'
  BY <1>1, <1>2 DEF IInv, TypeOK, Words, Offset, FirstByte
<1>4. /\ (\A d \in Accs : Asked(copy[d]))' /\ Apart' /\ NothingElse'
      /\ (j \in [Accs -> Nat] /\ DOMAIN local = Accs)'
  BY <1>1 DEF IInv, Asked, Permitted, Apart, NothingElse, MayBe
<1>5. ASSUME NEW d \in Accs PROVE Progress(d)'
  BY <1>1 DEF IInv, Progress, InPlace, InArray, Size, Into
<1>6. ASSUME NEW d \in Accs PROVE Fresh(d)'
  <2>1. CASE d # a
    BY <1>1, <1>2, <2>1, OthersFresh
  <2>2. CASE d = a
    <3>1. SUFFICES ASSUME NEW b \in Bytes, Holds(a, b)'
                   PROVE  HeldByte(a, b)' = mem[b]
      BY <1>1, <2>2 DEF Fresh, IInv, NothingElse, MayBe
    <3>2. b - FirstByte(c, w) \in 0..WordBytes - 1 /\ HeldByte(a, b)' = word[b - FirstByte(c, w)]
      BY <1>1, <1>2, <3>1 DEF Holds, HeldByte, FirstByte
    <3>3. b \in Int /\ FirstByte(c, w) \in Int
      <4>1. WordBytes \in Nat \ {0} /\ c.addr \in Nat /\ w \in Nat
        BY <1>1, Turn
      <4>2. c.addr \div WordBytes \in Int
        BY <4>1
      <4> QED
        BY <4>1, <4>2, FpgaMemPortAssumption DEF Bytes, FirstByte
    <3>4. FirstByte(c, w) + (b - FirstByte(c, w)) = b
      BY <3>3
    <3> HIDE DEF c, w
    <3> QED
      BY <3>2, <3>4
  <2> QED
    BY <2>1, <2>2
<1> QED
  BY <1>2, <1>3, <1>4, <1>5, <1>6 DEF IInv

\* A turn of a copy out preserves the invariant.
LEMMA TurnOutStep ==
  ASSUME IInv, NEW a \in Accs, TurnOut(a)
  PROVE  IInv'
<1> DEFINE c == copy[a]
           w == j[a]
           at(b) == b - c.addr
           stored(b) == InArray(c, at(b)) /\ InWord(c, w, at(b))
<1>1. /\ w < Words(c) /\ c.out /\ j' = [j EXCEPT ![a] = @ + 1]
      /\ UNCHANGED <<unaligned, limits, copy, local>>
      /\ held' = [held EXCEPT ![a] = NoWord]
  BY DEF TurnOut
<1>2. DOMAIN held' = Accs /\ held'[a] = NoWord /\ \A d \in Accs : d # a => held'[d] = held[d]
  BY <1>1 DEF IInv
<1>3. exposed \subseteq exposed' /\ exposed' \subseteq Bytes
  BY DEF TurnOut, IInv, TypeOK
<1>4. /\ TypeOK' /\ (\A b \in Accs : Asked(copy[b]))' /\ Apart' /\ j' \in [Accs -> Nat]
      /\ j'[a] = w + 1 /\ \A b \in Accs : b # a => j'[b] = j[b]
  BY <1>1, <1>2, <1>3, StepTypes
<1>5. /\ Asked(c) /\ c \in Copies /\ w \in Nat /\ WordBytes \in Nat \ {0} /\ c.addr \in Nat
      /\ Into(c) \in Nat /\ w * WordBytes \in Nat
      /\ (w + 1) * WordBytes = w * WordBytes + WordBytes
  BY <1>1, Turn
\* What the store does to a byte of the memory.
<1>6. ASSUME NEW b \in Bytes
      PROVE  /\ b \in Int /\ at(b) \in Int /\ c.addr + at(b) = b
             /\ InArray(c, at(b)) => b \in Array(c)
             /\ stored(b) => mem'[b] = ThroughRaw(c, at(b), LocalInit(a, at(b)), Zero)
             /\ ~stored(b) => mem'[b] = mem[b] \/ b \in exposed
             /\ stored(b) => \A o \in Accs \ {a} : Holds(o, b) => b \in exposed'
             /\ MayBe(b, mem'[b])
  <2>1. b \in Int /\ at(b) \in Int /\ c.addr + at(b) = b
    BY <1>5, FpgaMemPortAssumption DEF Bytes
  <2>2. InArray(c, at(b)) => b \in Array(c) /\ at(b) \in LocalBytes
    BY <1>5, <2>1, ArrayBytes
  <2>3. InArray(c, at(b)) => local[a][at(b)] = LocalInit(a, at(b))
    BY <1>1, <2>2 DEF IInv, NothingElse
  <2>4. /\ stored(b) => mem'[b] = ThroughRaw(c, at(b), LocalInit(a, at(b)), Zero)
        /\ ~stored(b) => mem'[b] = mem[b] \/ (Holds(a, b) /\ mem'[b] = HeldByte(a, b))
        /\ stored(b) => \A o \in Accs \ {a} : Holds(o, b) => b \in exposed'
    BY <2>3, TurnOutEffect
  <2>5. Holds(a, b) => MayBe(b, HeldByte(a, b)) /\ (HeldByte(a, b) = mem[b] \/ b \in exposed)
    BY DEF IInv, Fresh
  <2>6. MayBe(b, mem[b])
    BY DEF IInv, NothingElse
  <2>7. stored(b) => MayBe(b, mem'[b])
    BY <1>1, <2>2, <2>4 DEF MayBe
  <2> HIDE DEF stored, at
  <2> QED
    BY <2>1, <2>2, <2>4, <2>5, <2>6, <2>7
<1>7. NothingElse'
  <2>1. ASSUME NEW b \in Bytes PROVE MayBe(b, mem[b])'
    BY <1>1, <1>6 DEF MayBe
  <2> QED
    BY <1>1, <2>1 DEF IInv, NothingElse
<1>8. ASSUME NEW d \in Accs PROVE Progress(d)'
  <2>1. SUFFICES ASSUME NEW i \in Int, InArray(copy[d], i),
                        i + Into(copy[d]) < j'[d] * WordBytes, i % copy[d].elem < RawBytes
                 PROVE  InPlace(d, i)' \/ (copy[d].out /\ copy[d].addr + i \in exposed')
    BY <1>1 DEF Progress, InArray, Size, Into
  <2>2. Progress(d) /\ Asked(copy[d])
    BY DEF IInv
  <2> DEFINE b == copy[d].addr + i
  <2>3. b \in Bytes /\ b \in Array(copy[d])
    BY <2>1, <2>2, ArrayBytes
  <2>4. CASE d # a
    <3>1. b \notin Array(c)
      BY <1>1, <2>3, <2>4 DEF IInv, Apart
    <3>2. mem'[b] = mem[b] \/ b \in exposed
      BY <1>6, <2>3, <3>1
    <3>3. InPlace(d, i) \/ (copy[d].out /\ b \in exposed)
      BY <1>4, <2>1, <2>2, <2>4 DEF Progress
    <3> HIDE DEF b
    <3>4. CASE copy[d].out /\ b \in exposed
      BY <1>3, <3>4 DEF b
    <3>5. CASE ~(copy[d].out /\ b \in exposed)
      <4>1. InPlace(d, i) /\ (copy[d].out => mem'[b] = mem[b])
        BY <3>2, <3>3, <3>5
      <4> QED
        BY <1>1, <4>1 DEF InPlace, b
    <3> QED
      BY <3>4, <3>5
  <2>5. CASE d = a
    <3>1. at(b) = i
      <4>1. c.addr \in Int /\ i \in Int
        BY <1>5
      <4> QED
        BY <2>5, <4>1
    <3>2. CASE InWord(c, w, i)
      <4>1. mem'[b] = ThroughRaw(c, i, LocalInit(a, i), Zero)
        BY <1>6, <2>1, <2>3, <2>5, <3>1, <3>2
      <4>2. mem'[b] = LocalInit(a, i)
        BY <2>1, <2>5, <4>1 DEF ThroughRaw
      <4> QED
        BY <1>1, <2>5, <4>2 DEF InPlace
    <3>3. CASE ~InWord(c, w, i)
      <4>1. i + Into(c) < w * WordBytes
        BY <1>4, <1>5, <2>1, <2>5, <3>3 DEF InWord
      <4>2. mem[b] = LocalInit(a, i) \/ b \in exposed
        BY <1>1, <2>1, <2>2, <2>5, <4>1 DEF Progress, InPlace
      <4>3. mem'[b] = mem[b] \/ b \in exposed
        BY <1>6, <2>3, <3>1, <3>3
      <4>4. mem'[b] = LocalInit(a, i) \/ b \in exposed'
        BY <1>3, <4>2, <4>3
      <4> QED
        BY <1>1, <2>5, <4>4 DEF InPlace
    <3> QED
      BY <3>2, <3>3
  <2> QED
    BY <2>4, <2>5
<1>9. ASSUME NEW d \in Accs PROVE Fresh(d)'
  <2>1. CASE d = a
    BY <1>2, <2>1 DEF Fresh, Holds
  <2>2. CASE d # a
    <3>1. SUFFICES ASSUME NEW b \in Bytes, Holds(d, b)
                   PROVE  /\ MayBe(b, HeldByte(d, b))
                          /\ HeldByte(d, b) = mem'[b] \/ b \in exposed'
      <4>1. \A b \in Bytes : /\ Holds(d, b)' = Holds(d, b)
                             /\ HeldByte(d, b)' = HeldByte(d, b)
        BY <1>1, <1>2, <1>4, <2>2 DEF Holds, HeldByte, FirstByte
      <4> QED
        BY <1>1, <4>1 DEF Fresh, MayBe
    <3>2. MayBe(b, HeldByte(d, b)) /\ (HeldByte(d, b) = mem[b] \/ b \in exposed)
      BY <3>1 DEF IInv, Fresh
    <3>3. CASE stored(b)
      BY <1>6, <2>2, <3>1, <3>2, <3>3
    <3>4. CASE ~stored(b)
      BY <1>3, <1>6, <3>2, <3>4
    <3> QED
      BY <3>3, <3>4
  <2> QED
    BY <2>1, <2>2
<1>10. DOMAIN local' = Accs
  BY <1>1 DEF IInv
<1> QED
  BY <1>2, <1>4, <1>7, <1>8, <1>9, <1>10 DEF IInv

\* Stuttering changes nothing.
LEMMA NextIInv == IInv /\ [Next]_vars => IInv'
<1> SUFFICES ASSUME IInv, [Next]_vars PROVE IInv'
  OBVIOUS
<1>1. CASE UNCHANGED vars
  <2>1. \A a \in Accs : Fresh(a)'
    BY <1>1, OthersFresh DEF vars
  <2> QED
    BY <1>1, <2>1 DEF IInv, TypeOK, Asked, Permitted, Apart, NothingElse, MayBe, Progress,
                      InPlace, InArray, Size, Into, Words, Offset, FirstByte, vars
<1>2. CASE Next
  BY <1>2, TurnInStep, ReadWordStep, TurnOutStep DEF Next
<1> QED
  BY <1>1, <1>2

\* A copy whose turns are over has dealt with every byte of its array.
LEMMA IInvComplete == IInv => CopyComplete
<1> SUFFICES ASSUME IInv, NEW a \in Accs, Done(a), NEW b \in Array(copy[a])
             PROVE  \/ (b - copy[a].addr) % copy[a].elem >= RawBytes
                    \/ copy[a].out /\ b \in exposed
                    \/ InPlace(a, b - copy[a].addr)
  BY DEF CopyComplete
<1> DEFINE c == copy[a]
           i == b - c.addr
<1>1. Asked(c) /\ c \in Copies /\ Progress(a) /\ j[a] \in Nat
  BY DEF IInv, Asked
<1>2. /\ c.addr \in Nat /\ Size(c) \in Nat /\ Into(c) \in Nat /\ WordBytes \in Nat
      /\ c.len \in Nat /\ c.elem \in Nat \ {0} /\ RawBytes \in Nat
  BY <1>1, Fields, FpgaMemPortAssumption
<1>3. i \in Int /\ InArray(c, i) /\ c.addr + i = b
  BY <1>2 DEF Array, InArray, Size
<1>4. c.len > 0
  BY <1>2, <1>3 DEF InArray, Size
<1>5. ~(j[a] * WordBytes < Size(c) + Into(c))
  BY <1>1, <1>4, WordsOfArray DEF Done
<1>6. j[a] * WordBytes \in Nat
  BY <1>1, <1>2
<1>7. i + Into(c) < j[a] * WordBytes
  BY <1>2, <1>3, <1>5, <1>6 DEF InArray
<1>8. i % c.elem \in Int
  BY <1>2, <1>3
<1>9. i % c.elem < RawBytes => InPlace(a, i) \/ (c.out /\ c.addr + i \in exposed)
  BY <1>1, <1>3, <1>7 DEF Progress
<1> QED
  BY <1>2, <1>3, <1>8, <1>9

\* The invariant holds of every behaviour of the copies.
THEOREM IInvAlways == Spec => []IInv
BY InitIInv, NextIInv, PTL DEF Spec

\* The loops of __mcxx_memcpy_port_in and __mcxx_memcpy_port_out stay within the words of
\* the memory, for every width of the port.
THEOREM TypesAlways == Spec => []TypeOK
<1>1. IInv => TypeOK
  BY DEF IInv
<1> QED
  BY <1>1, IInvAlways, PTL

\* A copy through the port that is over has moved the bytes of its array, for every
\* width, element, position, length and option: all that pass through the integer, and
\* that no other wrapper stored over from a word it had read before they were stored.
THEOREM CopyCompleteAlways == Spec => []CopyComplete
BY IInvComplete, IInvAlways, PTL

\* Whole words are stored, read before and shared by several arrays, and yet memory never
\* holds anything but what it held and what copies out store at its place.
THEOREM NothingElseAlways == Spec => []NothingElse
<1>1. IInv => NothingElse
  BY DEF IInv
<1> QED
  BY <1>1, IInvAlways, PTL
================================================================================
