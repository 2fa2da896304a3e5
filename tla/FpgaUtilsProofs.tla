--------------------------- MODULE FpgaUtilsProofs ---------------------------
(***************************************************************************)
(* What is proved of the pointers of nanox-fpga-utils.hpp, and of its time *)
(* with the loop of the wrapper that waits for it.                         *)
(*                                                                         *)
(* For any width of the port, size of elements, number of accelerators and *)
(* depth of assignments inside of each other: an element keeps the value   *)
(* last assigned to it through the words that are read and written back    *)
(* around it, unless another reference to its word waited; and the         *)
(* references implement an array whose neighbours may fall back.  Plain is *)
(* what programs have to do for it: p[i] of elements of more than a byte   *)
(* is p[0].  FpgaRefSubscripts shows what happens else.                    *)
(*                                                                         *)
(* Second part, of FpgaPeriodic: for any frequency, periods, repetitions   *)
(* and sleeps, and unsigned ints of any size, the times that repetitions   *)
(* and sleeps wait for are the ones asked for when products fit.  The      *)
(* invariant adds up what has passed of a wait and what is left of it.     *)
(***************************************************************************)
EXTENDS FpgaRef, FpgaPeriodic, TLAPS

Plain == Indexes \subseteq {0} \/ ElemSize = 1

-----------------------------------------------------------------------------
(* Bytes, words and elements *)

\* Division by a positive number, by its defining property.
LEMMA Division ==
  ASSUME NEW n \in Int, NEW d \in Nat \ {0}
  PROVE  /\ n \div d \in Int
         /\ n % d \in 0..d - 1
         /\ n = d * (n \div d) + (n % d)
OBVIOUS

\* A quotient and a remainder in range are those of the division.
LEMMA DivisionUnique ==
  ASSUME NEW d \in Nat \ {0}, NEW q \in Int, NEW r \in 0..d - 1,
         NEW n \in Int, n = d * q + r
  PROVE  n \div d = q /\ n % d = r
<1> DEFINE p == n \div d
           s == n % d
<1>2. p \in Int /\ s \in 0..d - 1 /\ n = d * p + s
  BY Division
<1> HIDE DEF p, s
<1>3. ~(p < q)
  <2> SUFFICES ASSUME p + 1 <= q PROVE FALSE
    BY <1>2
  <2>1. d * (p + 1) <= d * q
    BY <1>2
  <2> QED
    BY <1>2, <2>1
<1>4. ~(q < p)
  <2> SUFFICES ASSUME q + 1 <= p PROVE FALSE
    BY <1>2
  <2>1. d * (q + 1) <= d * p
    BY <1>2
  <2> QED
    BY <1>2, <2>1
<1>5. p = q
  BY <1>2, <1>3, <1>4
<1>6. s = r
  BY <1>2, <1>5
<1> QED
  BY <1>5, <1>6 DEF p, s

\* The bytes of the word around an address.
LEMMA WordBytesOf ==
  ASSUME NEW p \in Bytes, NEW x \in 0..WordBytes - 1
  PROVE  /\ WordOf(p) * WordBytes + x \in Bytes
         /\ WordOf(WordOf(p) * WordBytes + x) = WordOf(p)
         /\ InWord(WordOf(p) * WordBytes + x) = x
<1> DEFINE w == WordOf(p)
<1>0. WordBytes \in Nat \ {0} /\ NumWords \in Nat
  BY FpgaRefAssumption
<1>1. p \in Nat /\ p < NumWords * WordBytes
  BY <1>0 DEF Bytes, MemBytes
<1>2. w \in Int /\ p = WordBytes * w + InWord(p) /\ InWord(p) \in 0..WordBytes - 1
  BY <1>0, <1>1, Division DEF WordOf, InWord
<1> HIDE DEF w
<1>3. w < NumWords
  <2> SUFFICES ASSUME NumWords <= w PROVE FALSE
    BY <1>0, <1>2
  <2>1. WordBytes * NumWords <= WordBytes * w
    BY <1>0, <1>2
  <2> QED
    BY <1>0, <1>1, <1>2, <2>1
<1>4. 0 <= w
  <2> SUFFICES ASSUME w + 1 <= 0 PROVE FALSE
    BY <1>2
  <2>1. WordBytes * (w + 1) <= WordBytes * 0
    BY <1>0, <1>2
  <2> QED
    BY <1>0, <1>1, <1>2, <2>1
<1>5. WordBytes * (w + 1) <= WordBytes * NumWords
  BY <1>0, <1>2, <1>3
<1>5a. 0 <= WordBytes * w
  BY <1>0, <1>2, <1>4
<1>6. w * WordBytes + x \in Bytes
  BY <1>0, <1>2, <1>5, <1>5a DEF Bytes, MemBytes
<1>8. (w * WordBytes + x) \div WordBytes = w /\ (w * WordBytes + x) % WordBytes = x
  <2> DEFINE b == w * WordBytes + x
  <2>1. b \in Int /\ b = WordBytes * w + x
    BY <1>0, <1>2
  <2> HIDE DEF b
  <2>2. b \div WordBytes = w /\ b % WordBytes = x
    BY <1>0, <1>2, <2>1, DivisionUnique
  <2> QED
    BY <2>2 DEF b
<1> QED
  BY <1>6, <1>8 DEF w, WordOf, InWord

\* A byte is the one at its place in its word.
LEMMA ByteInWord ==
  ASSUME NEW b \in Bytes
  PROVE  /\ InWord(b) \in 0..WordBytes - 1
         /\ WordOf(b) \in Int
         /\ b = WordOf(b) * WordBytes + InWord(b)
<1>1. WordBytes \in Nat \ {0} /\ b \in Int
  BY FpgaRefAssumption DEF Bytes
<1>2. WordOf(b) \in Int /\ b = WordBytes * WordOf(b) + InWord(b) /\ InWord(b) \in 0..WordBytes - 1
  BY <1>1, Division DEF WordOf, InWord
<1> QED
  BY <1>1, <1>2

\* The bytes of an element are in the memory, and in one word.
LEMMA ElementBytes ==
  ASSUME NEW e \in Elems, NEW k \in 0..ElemSize - 1
  PROVE  /\ e * ElemSize \in Bytes
         /\ e * ElemSize + k \in Bytes
         /\ WordOf(e * ElemSize + k) = WordOf(e * ElemSize)
         /\ InWord(e * ElemSize + k) = InWord(e * ElemSize) + k
<1> DEFINE S == ElemSize
           B == WordBytes
           M == MemBytes
           n == B \div S
           N == NumElems
<1>0. S \in Nat \ {0} /\ B \in Nat \ {0} /\ M \in Nat /\ B % S = 0
      /\ N \in Nat /\ N * S <= M
  BY FpgaRefAssumption DEF MemBytes
<1>1. e \in Nat /\ e + 1 <= N
  BY <1>0 DEF Elems
<1>3. S * (e + 1) <= S * N
  BY <1>0, <1>1
<1>4. e * S \in Nat /\ e * S + S <= M
  BY <1>0, <1>1, <1>3
<1>5. n \in Int /\ B = S * n
  BY <1>0, Division
<1>5a. n \in Nat \ {0}
  <2> SUFFICES ASSUME n <= 0 PROVE FALSE
    BY <1>5
  <2>1. S * n <= S * 0
    BY <1>0, <1>5
  <2> QED
    BY <1>0, <1>5, <2>1
<1> HIDE DEF S, B, M, N, n
<1>6. e \div n \in Int /\ e % n \in 0..n - 1 /\ e = n * (e \div n) + (e % n)
  BY <1>1, <1>5a, Division
<1> DEFINE m == e % n
           q == e \div n
<1>6a. q \in Int /\ m \in Nat /\ m + 1 <= n /\ e = n * q + m
  BY <1>5a, <1>6
<1> HIDE DEF m, q
<1>7. e * S = B * q + S * m
  <2>1. S * e = S * (n * q) + S * m
    BY <1>0, <1>5a, <1>6a
  <2>2. S * (n * q) = (S * n) * q
    BY <1>0, <1>5a, <1>6a
  <2> QED
    BY <1>0, <1>1, <1>5, <2>1, <2>2
<1>8. S * m \in Nat /\ S * m + S <= B
  <2>1. S * (m + 1) <= S * n
    BY <1>0, <1>5a, <1>6a
  <2>2. S * (m + 1) = S * m + S
    BY <1>0, <1>5a, <1>6a
  <2>3. S * m \in Nat
    BY <1>0, <1>6a
  <2> QED
    BY <1>0, <1>5, <2>1, <2>2, <2>3
<1>9. ASSUME NEW i \in 0..S - 1
      PROVE  (e * S + i) \div B = q /\ (e * S + i) % B = S * m + i
  <2> DEFINE b == e * S + i
             r == S * m + i
  <2>1. r \in 0..B - 1
    BY <1>0, <1>8
  <2>2. b \in Int /\ b = B * q + r
    BY <1>0, <1>4, <1>6a, <1>7, <1>8
  <2> HIDE DEF b, r
  <2>0. B \in Nat \ {0} /\ q \in Int
    BY <1>0, <1>6a
  <2>3. b \div B = q /\ b % B = r
    BY <2>0, <2>1, <2>2, DivisionUnique
  <2> QED
    BY <2>3 DEF b, r
<1>10. k \in 0..S - 1
  BY DEF S
<1>11. (e * S) \div B = q /\ (e * S) % B = S * m
  <2>1. e * S + 0 = e * S /\ S * m + 0 = S * m /\ 0 \in 0..S - 1
    BY <1>0, <1>4, <1>8
  <2>2. (e * S + 0) \div B = q /\ (e * S + 0) % B = S * m + 0
    BY <1>9, <2>1
  <2> QED
    BY <2>1, <2>2
<1>12. e * S \in Bytes /\ e * S + k \in Bytes
  BY <1>0, <1>4, <1>10 DEF Bytes, M
<1> QED
  BY <1>9, <1>10, <1>11, <1>12 DEF S, B, WordOf, InWord

\* Elements do not overlap.
LEMMA ElementsApart ==
  ASSUME NEW e \in Elems, NEW f \in Elems, NEW k \in 0..ElemSize - 1,
         NEW b \in Bytes, b = f * ElemSize + k
  PROVE  /\ e = f => b - e * ElemSize = k
         /\ e # f => b - e * ElemSize \notin 0..ElemSize - 1
<1> DEFINE S == ElemSize
<1>0. S \in Nat \ {0} /\ e \in Int /\ f \in Int /\ k \in 0..S - 1
  BY FpgaRefAssumption DEF Elems
<1> HIDE DEF S
<1>1. e * S \in Int /\ f * S \in Int
  BY <1>0
<1>2. CASE e < f
  <2>1. S * (e + 1) <= S * f
    BY <1>0, <1>2
  <2>2. e * S + S <= f * S
    BY <1>0, <2>1
  <2> QED
    BY <1>0, <1>1, <1>2, <2>2 DEF S
<1>3. CASE f < e
  <2>1. S * (f + 1) <= S * e
    BY <1>0, <1>3
  <2>2. f * S + S <= e * S
    BY <1>0, <2>1
  <2> QED
    BY <1>0, <1>1, <1>3, <2>2 DEF S
<1>4. CASE e = f
  BY <1>0, <1>1, <1>4 DEF S
<1> QED
  BY <1>0, <1>2, <1>3, <1>4

-----------------------------------------------------------------------------
(* What the operators give *)

LEMMA Places ==
  ASSUME NEW e \in Elems, NEW p \in Addresses(e)
  PROVE  /\ p \in Bytes
         /\ Plain => p = e * ElemSize
<1>0. ElemSize \in Nat \ {0} /\ e \in Nat
  BY FpgaRefAssumption DEF Elems
<1>1. PICK b \in 0..e : p = Plus(b * ElemSize, e - b) \/
                        (e - b \in Indexes /\ p = Subscript(b * ElemSize, e - b))
  BY DEF Addresses
<1>2. b * ElemSize + (e - b) * ElemSize = e * ElemSize
  BY <1>0
<1>3. e * ElemSize \in Bytes
  <2>1. 0 \in 0..ElemSize - 1
    BY <1>0
  <2> QED
    BY <2>1, ElementBytes
<1>4. b * ElemSize + (e - b) \in 0..e * ElemSize
  <2>1. e - b \in Nat /\ b * ElemSize \in Nat
    BY <1>0
  <2>2. (e - b) * 1 <= (e - b) * ElemSize
    BY <1>0, <2>1
  <2> QED
    BY <1>0, <1>2, <2>1, <2>2
<1>5. b * ElemSize + (e - b) \in Bytes
  BY <1>3, <1>4, FpgaRefAssumption DEF Bytes, MemBytes
<1>6. Plain /\ e - b \in Indexes => b * ElemSize + (e - b) = e * ElemSize
  <2>1. CASE ElemSize = 1
    BY <1>0, <2>1
  <2>2. CASE e - b = 0
    BY <1>0, <2>2
  <2> QED
    BY <2>1, <2>2 DEF Plain
<1> QED
  BY <1>1, <1>2, <1>3, <1>5, <1>6 DEF Plus, Subscript

LEMMA FetchedType ==
  ASSUME TypeOK, NEW p \in Bytes
  PROVE  Fetched(p) \in Words
BY WordBytesOf DEF Fetched, Words, TypeOK

LEMMA RangedType ==
  ASSUME NEW w \in Words, NEW p, NEW v \in Values
  PROVE  Ranged(w, p, v) \in Words
BY DEF Ranged, Words, Values

\* What one step does to the references of an accelerator.
LEMMA PushedAndPopped ==
  ASSUME NEW S, NEW s \in Seq(S), NEW r \in S
  PROVE  /\ <<r>> \o s \in Seq(S)
         /\ Len(<<r>> \o s) = Len(s) + 1
         /\ (<<r>> \o s)[1] = r
         /\ \A n \in 1..Len(s) : (<<r>> \o s)[n + 1] = s[n]
         /\ s # <<>> => /\ Head(s) = s[1] /\ Head(s) \in S
                        /\ Len(s) >= 1
                        /\ Tail(s) \in Seq(S)
                        /\ Len(Tail(s)) = Len(s) - 1
                        /\ \A n \in 1..Len(s) - 1 : Tail(s)[n] = s[n + 1]
OBVIOUS

-----------------------------------------------------------------------------
(* Types *)

LEMMA CellsType == mem \in [Bytes -> ByteValues] => Cells \in [Elems -> Values]
BY ElementBytes DEF Cells, Values

LEMMA InitTypes == Init => TypeOK
<1> SUFFICES ASSUME Init PROVE TypeOK
  OBVIOUS
<1>1. last \in [Elems -> Values \cup {NoValue}]
  BY CellsType DEF Init
<1> QED
  BY <1>1 DEF Init, TypeOK

LEMMA StepTypes == TypeOK /\ [Next]_vars => TypeOK'
<1> SUFFICES ASSUME TypeOK, [Next]_vars PROVE TypeOK'
  OBVIOUS
<1> USE DEF TypeOK
<1>1. ASSUME NEW a \in Accs, MakeRef(a) PROVE TypeOK'
  <2>1. PICK e \in Elems : \E p \in Addresses(e) :
          Open(a, [elem |-> e, offset |-> p, buffer |-> Fetched(p),
                   from |-> NoElem, value |-> NoValue, isRef |-> FALSE])
    BY <1>1 DEF MakeRef
  <2>2. PICK p \in Addresses(e) :
          Open(a, [elem |-> e, offset |-> p, buffer |-> Fetched(p),
                   from |-> NoElem, value |-> NoValue, isRef |-> FALSE])
    BY <2>1
  <2> DEFINE r == [elem |-> e, offset |-> p, buffer |-> Fetched(p),
                   from |-> NoElem, value |-> NoValue, isRef |-> FALSE]
  <2>3. r \in Refs
    BY Places, FetchedType DEF Refs
  <2> HIDE DEF r
  <2>4. <<r>> \o refs[a] \in Seq(Refs)
    BY <2>3, PushedAndPopped
  <2>5. refs' = [refs EXCEPT ![a] = <<r>> \o @]
    BY <2>2 DEF Open, r
  <2> QED
    BY <1>1, <2>4, <2>5 DEF MakeRef
<1>2. ASSUME NEW a \in Accs, refs[a] # <<>>, UNCHANGED <<mem, last>>,
             NEW f \in Elems \cup {NoElem}, NEW v \in Values \cup {NoValue},
             NEW ref \in BOOLEAN, SetTop(a, f, v, ref)
      PROVE  TypeOK'
  <2> DEFINE r == [Head(refs[a]) EXCEPT !.from = f, !.value = v, !.isRef = ref]
  <2>1. Head(refs[a]) \in Refs /\ Tail(refs[a]) \in Seq(Refs)
    BY <1>2
  <2>2. r \in Refs
    BY <2>1 DEF Refs
  <2> HIDE DEF r
  <2>3. <<r>> \o Tail(refs[a]) \in Seq(Refs)
    BY <2>1, <2>2, PushedAndPopped
  <2>4. refs' = [refs EXCEPT ![a] = <<r>> \o Tail(@)]
    BY <1>2 DEF SetTop, r
  <2> QED
    BY <1>2, <2>3, <2>4
<1>3. ASSUME NEW a \in Accs, Compute(a) PROVE TypeOK'
  BY <1>2, <1>3, FpgaRefAssumption DEF Compute
<1>4. ASSUME NEW a \in Accs, ReadOperand(a) PROVE TypeOK'
  <2>1. PICK f \in Elems, v \in Values : SetTop(a, f, v, FALSE)
    BY <1>4 DEF ReadOperand, Typed
  <2> QED
    BY <1>2, <1>4, <2>1 DEF ReadOperand
<1>4a. ASSUME NEW a \in Accs, LeaveOperand(a) PROVE TypeOK'
  <2>1. PICK f \in Elems : SetTop(a, f, NoValue, TRUE)
    BY <1>4a DEF LeaveOperand
  <2> QED
    BY <1>2, <1>4a, <2>1 DEF LeaveOperand
<1>5. ASSUME NEW a \in Accs, Assign(a) PROVE TypeOK'
  <2> DEFINE r == Head(refs[a])
             w == Ranged(r.buffer, r.offset, r.value)
  <2>1. r \in Refs /\ Tail(refs[a]) \in Seq(Refs) /\ (r.value # NoValue \/ r.isRef)
    BY <1>5 DEF Assign, Ready
  <2>2. r.isRef \/ w \in Words
    BY <2>1, RangedType DEF Refs
  <2>3. mem' = IF r.isRef THEN mem
               ELSE [b \in Bytes |-> IF WordOf(b) = WordOf(r.offset) THEN w[InWord(b)] ELSE mem[b]]
    BY <1>5 DEF Assign
  <2> HIDE DEF w
  <2>4. mem' \in [Bytes -> ByteValues]
    <3>1. CASE r.isRef
      BY <2>3, <3>1
    <3>2. CASE ~r.isRef
      BY <2>2, <2>3, <3>2, ByteInWord DEF Words
    <3> QED
      BY <3>1, <3>2
  <2>5. refs' = [refs EXCEPT ![a] = Tail(@)]
    BY <1>5 DEF Assign
  <2>6. last' \in [Elems -> Values \cup {NoValue}]
    <3>1. r.value \in Values \cup {NoValue}
      BY <2>1 DEF Refs
    <3>2. last' = IF r.isRef THEN last
                  ELSE [last EXCEPT ![r.elem] = IF Alone(a) THEN r.value ELSE NoValue]
      BY <1>5 DEF Assign
    <3> HIDE DEF r
    <3> QED
      BY <3>1, <3>2
  <2> QED
    BY <2>1, <2>4, <2>5, <2>6
<1>6. CASE UNCHANGED vars
  BY <1>6 DEF vars
<1> QED
  BY <1>1, <1>3, <1>4, <1>4a, <1>5, <1>6 DEF Next

\* The addresses that programs reach lie in the memory, also those of p[i], and words and
\* values keep their sizes through every read and write.
THEOREM TypesAlways == Spec => []TypeOK
<1>1. Init => TypeOK
  BY InitTypes
<1>2. TypeOK /\ [Next]_vars => TypeOK'
  BY StepTypes
<1> QED
  BY <1>1, <1>2, PTL DEF Spec

-----------------------------------------------------------------------------
(* The references of the accelerators, after a step of one of them *)

LEMMA PushStep ==
  ASSUME TypeOK, NEW a \in Accs, NEW r \in Refs, refs' = [refs EXCEPT ![a] = <<r>> \o @]
  PROVE  \A b \in Accs : \A n \in 1..Len(refs'[b]) :
           IF b = a /\ n = 1 THEN refs'[b][n] = r
           ELSE \E m \in 1..Len(refs[b]) :
                  m = (IF b = a THEN n - 1 ELSE n) /\ refs'[b][n] = refs[b][m]
<1> TAKE b \in Accs
<1> TAKE n \in 1..Len(refs'[b])
<1>1. refs[b] \in Seq(Refs)
  BY DEF TypeOK
<1>2. CASE b # a
  BY <1>2 DEF TypeOK
<1>3. CASE b = a
  <2>1. refs'[a] = <<r>> \o refs[a]
    BY DEF TypeOK
  <2>2. /\ Len(refs'[a]) = Len(refs[a]) + 1
        /\ refs'[a][1] = r
        /\ \A m \in 1..Len(refs[a]) : refs'[a][m + 1] = refs[a][m]
    BY <1>1, <1>3, <2>1, PushedAndPopped
  <2>3. CASE n = 1
    BY <1>3, <2>2, <2>3
  <2>4. CASE n # 1
    <3>1. n - 1 \in 1..Len(refs[a]) /\ n = (n - 1) + 1
      BY <1>1, <1>3, <2>2, <2>4
    <3>2. refs'[a][(n - 1) + 1] = refs[a][n - 1]
      BY <2>2, <3>1
    <3> QED
      BY <1>3, <2>4, <3>1, <3>2
  <2> QED
    BY <2>3, <2>4
<1> QED
  BY <1>2, <1>3

LEMMA PopStep ==
  ASSUME TypeOK, NEW a \in Accs, refs[a] # <<>>, refs' = [refs EXCEPT ![a] = Tail(@)]
  PROVE  \A b \in Accs : \A n \in 1..Len(refs'[b]) :
           \E m \in 1..Len(refs[b]) :
             m = (IF b = a THEN n + 1 ELSE n) /\ refs'[b][n] = refs[b][m]
<1> TAKE b \in Accs
<1> TAKE n \in 1..Len(refs'[b])
<1>1. refs[b] \in Seq(Refs)
  BY DEF TypeOK
<1>2. CASE b # a
  BY <1>2 DEF TypeOK
<1>3. CASE b = a
  <2>1. refs'[a] = Tail(refs[a])
    BY DEF TypeOK
  <2>2. /\ Len(refs'[a]) = Len(refs[a]) - 1
        /\ \A m \in 1..Len(refs[a]) - 1 : refs'[a][m] = refs[a][m + 1]
    <3>1. refs[a] \in Seq(Refs)
      BY <1>1, <1>3
    <3>2. /\ Len(Tail(refs[a])) = Len(refs[a]) - 1
          /\ \A m \in 1..Len(refs[a]) - 1 : Tail(refs[a])[m] = refs[a][m + 1]
      BY <3>1
    <3> QED
      BY <2>1, <3>2
  <2> QED
    BY <1>1, <1>3, <2>2
<1> QED
  BY <1>2, <1>3

\* A right operand changes neither the word nor the place of the reference.
LEMMA SetStep ==
  ASSUME TypeOK, NEW a \in Accs, refs[a] # <<>>,
         NEW f \in Elems \cup {NoElem}, NEW v \in Values \cup {NoValue},
         NEW ref \in BOOLEAN, SetTop(a, f, v, ref)
  PROVE  /\ \A b \in Accs : Len(refs'[b]) = Len(refs[b])
         /\ \A b \in Accs : \A n \in 1..Len(refs[b]) :
              /\ refs'[b][n].elem = refs[b][n].elem
              /\ refs'[b][n].offset = refs[b][n].offset
              /\ refs'[b][n].buffer = refs[b][n].buffer
<1> DEFINE r == [Head(refs[a]) EXCEPT !.from = f, !.value = v, !.isRef = ref]
<1>1. refs[a] \in Seq(Refs) /\ refs' = [refs EXCEPT ![a] = <<r>> \o Tail(refs[a])]
  BY DEF TypeOK, SetTop
<1>2. /\ Head(refs[a]) = refs[a][1] /\ Head(refs[a]) \in Refs
      /\ Len(refs[a]) >= 1
      /\ Tail(refs[a]) \in Seq(Refs) /\ Len(Tail(refs[a])) = Len(refs[a]) - 1
      /\ \A n \in 1..Len(refs[a]) - 1 : Tail(refs[a])[n] = refs[a][n + 1]
  BY <1>1
<1>3. /\ r \in Refs
      /\ r.elem = refs[a][1].elem /\ r.offset = refs[a][1].offset
      /\ r.buffer = refs[a][1].buffer
  BY <1>2 DEF Refs
<1> HIDE DEF r
<1>4. /\ Len(<<r>> \o Tail(refs[a])) = Len(refs[a])
      /\ (<<r>> \o Tail(refs[a]))[1] = r
      /\ \A n \in 1..Len(refs[a]) - 1 : (<<r>> \o Tail(refs[a]))[n + 1] = refs[a][n + 1]
  BY <1>1, <1>2, <1>3, PushedAndPopped
<1> SUFFICES ASSUME NEW b \in Accs
             PROVE  /\ Len(refs'[b]) = Len(refs[b])
                    /\ \A n \in 1..Len(refs[b]) :
                         /\ refs'[b][n].elem = refs[b][n].elem
                         /\ refs'[b][n].offset = refs[b][n].offset
                         /\ refs'[b][n].buffer = refs[b][n].buffer
             OBVIOUS
<1>5. CASE b # a
  <2>1. refs'[b] = refs[b]
    BY <1>1, <1>5 DEF TypeOK
  <2> QED
    BY <1>5, <2>1
<1>6. CASE b = a
  <2>1. refs'[a] = <<r>> \o Tail(refs[a])
    BY <1>1 DEF TypeOK
  <2>2. Len(refs'[b]) = Len(refs[b])
    BY <1>4, <1>6, <2>1
  <2>3. ASSUME NEW n \in 1..Len(refs[b]), n # 1
        PROVE  refs'[b][n] = refs[b][n]
    <3>1. n - 1 \in 1..Len(refs[a]) - 1 /\ n = (n - 1) + 1
      BY <1>1, <1>6, <2>3
    <3>2. (<<r>> \o Tail(refs[a]))[(n - 1) + 1] = refs[a][(n - 1) + 1]
      BY <1>4, <3>1
    <3> QED
      BY <1>6, <2>1, <3>1, <3>2
  <2>4. refs'[b][1] = r
    BY <1>4, <1>6, <2>1
  <2> QED
    BY <1>3, <1>6, <2>2, <2>3, <2>4
<1> QED
  BY <1>5, <1>6

-----------------------------------------------------------------------------
(* Words and the elements in them *)

\* The bytes of an element near to another one, in what a reference read.
LEMMA NearElement ==
  ASSUME NEW e \in Elems, NEW f \in Near[e], NEW k \in 0..ElemSize - 1
  PROVE  /\ f \in Elems /\ f # e /\ WordOf(f * ElemSize) = WordOf(e * ElemSize)
         /\ \A buffer : Seen(e, buffer)[f][k] = buffer[InWord(f * ElemSize) + k]
BY DEF Near, Seen

\* A reference to an element reads what its neighbours hold.
LEMMA FetchedSeen ==
  ASSUME NEW e \in Elems
  PROVE  Seen(e, Fetched(e * ElemSize)) = [f \in Near[e] |-> Cells[f]]
<1>1. ASSUME NEW f \in Near[e], NEW k \in 0..ElemSize - 1
      PROVE  Fetched(e * ElemSize)[InWord(f * ElemSize) + k] = mem[f * ElemSize + k]
  <2> DEFINE b == f * ElemSize + k
             p == e * ElemSize
  <2>1. f \in Elems /\ WordOf(f * ElemSize) = WordOf(p)
    BY NearElement
  <2>2. b \in Bytes /\ WordOf(b) = WordOf(p) /\ InWord(b) = InWord(f * ElemSize) + k
    BY <2>1, ElementBytes
  <2>3. InWord(b) \in 0..WordBytes - 1 /\ b = WordOf(b) * WordBytes + InWord(b)
    BY <2>2, ByteInWord
  <2> HIDE DEF b, p
  <2>4. Fetched(p)[InWord(b)] = mem[b]
    BY <2>2, <2>3 DEF Fetched
  <2> QED
    BY <2>2, <2>4 DEF b, p
<1>2. \A f \in Near[e] : f \in Elems
  BY DEF Near
<1>3. \A f \in Near[e] : Cells[f] = [k \in 0..ElemSize - 1 |-> mem[f * ElemSize + k]]
  BY <1>2 DEF Cells
<1> QED
  BY <1>1, <1>3 DEF Seen

\* An assignment sets its element, and its neighbours to what the reference has read.
LEMMA AssignCells ==
  ASSUME TypeOK, NEW a \in Accs, Assign(a),
         ~Head(refs[a]).isRef, Head(refs[a]).offset = Head(refs[a]).elem * ElemSize
  PROVE  /\ Head(refs[a]).elem \in Elems /\ Head(refs[a]).value \in Values
         /\ \A f \in Elems :
              Cells'[f] = IF f = Head(refs[a]).elem THEN Head(refs[a]).value
                          ELSE IF f \in Near[Head(refs[a]).elem]
                               THEN Seen(Head(refs[a]).elem, Head(refs[a]).buffer)[f]
                               ELSE Cells[f]
<1> DEFINE r == Head(refs[a])
           w == Ranged(r.buffer, r.offset, r.value)
<1>1. r \in Refs /\ r.value # NoValue
  <2>1. refs[a] # <<>> /\ refs[a] \in Seq(Refs)
    BY DEF Assign, TypeOK
  <2> QED
    BY <2>1 DEF Assign, Ready
<1>2. r.elem \in Elems /\ r.value \in Values /\ r.offset \in Bytes
  BY <1>1 DEF Refs
<1>3. \A b \in Bytes : mem'[b] = IF WordOf(b) = WordOf(r.offset) THEN w[InWord(b)] ELSE mem[b]
  BY DEF Assign
<1>4. w = [x \in 0..WordBytes - 1 |->
             IF x - InWord(r.offset) \in 0..ElemSize - 1 THEN r.value[x - InWord(r.offset)]
             ELSE r.buffer[x]]
  BY DEF Ranged
<1>5. r.offset = r.elem * ElemSize
  OBVIOUS
<1> HIDE DEF r, w
<1>6. /\ InWord(r.offset) \in 0..WordBytes - 1 /\ WordOf(r.offset) \in Int
      /\ r.offset = WordOf(r.offset) * WordBytes + InWord(r.offset)
  BY <1>2, ByteInWord
<1>7. ASSUME NEW f \in Elems, NEW k \in 0..ElemSize - 1
      PROVE  mem'[f * ElemSize + k] =
               IF f = r.elem THEN r.value[k]
               ELSE IF f \in Near[r.elem] THEN r.buffer[InWord(f * ElemSize) + k]
                                          ELSE mem[f * ElemSize + k]
  <2> DEFINE b == f * ElemSize + k
  <2>1. b \in Bytes /\ WordOf(b) = WordOf(f * ElemSize) /\ InWord(b) = InWord(f * ElemSize) + k
    BY ElementBytes
  <2>2. /\ InWord(b) \in 0..WordBytes - 1 /\ WordOf(b) \in Int
        /\ b = WordOf(b) * WordBytes + InWord(b)
    BY <2>1, ByteInWord
  <2>3. /\ r.elem = f => b - r.elem * ElemSize = k
        /\ r.elem # f => b - r.elem * ElemSize \notin 0..ElemSize - 1
    <3>1. b = f * ElemSize + k
      OBVIOUS
    <3> HIDE DEF b
    <3> QED
      BY <1>2, <2>1, <3>1, ElementsApart
  <2>4. b = f * ElemSize + k
    OBVIOUS
  <2> HIDE DEF b
  <2>5. f \in Near[r.elem] <=> f # r.elem /\ WordOf(b) = WordOf(r.offset)
    BY <1>2, <1>5, <2>1 DEF Near
  <2>6. CASE WordOf(b) = WordOf(r.offset)
    <3>1. b - r.elem * ElemSize = InWord(b) - InWord(r.offset)
      <4>1. WordOf(b) * WordBytes \in Int
        BY <2>2, FpgaRefAssumption
      <4> QED
        BY <1>2, <1>5, <1>6, <2>1, <2>2, <2>6, <4>1
    <3>2. mem'[b] = w[InWord(b)]
      BY <1>3, <2>1, <2>6
    <3>3. w[InWord(b)] = IF b - r.elem * ElemSize \in 0..ElemSize - 1
                         THEN r.value[b - r.elem * ElemSize] ELSE r.buffer[InWord(b)]
      BY <1>4, <2>2, <3>1
    <3>4. CASE f = r.elem
      BY <2>3, <2>4, <3>2, <3>3, <3>4
    <3>5. CASE f # r.elem
      BY <2>1, <2>3, <2>4, <2>5, <2>6, <3>2, <3>3, <3>5
    <3> QED
      BY <3>4, <3>5
  <2>7. CASE WordOf(b) # WordOf(r.offset)
    <3>1. f # r.elem
      BY <1>5, <2>1, <2>7
    <3> QED
      BY <1>3, <2>1, <2>4, <2>5, <2>7, <3>1
  <2> QED
    BY <2>6, <2>7
<1>8. Cells' = [f \in Elems |-> [k \in 0..ElemSize - 1 |-> mem'[f * ElemSize + k]]]
  BY DEF Cells
<1>9. ASSUME NEW f \in Elems
      PROVE  Cells'[f] = IF f = r.elem THEN r.value
                         ELSE IF f \in Near[r.elem] THEN Seen(r.elem, r.buffer)[f]
                                                    ELSE Cells[f]
  <2>1. CASE f = r.elem
    BY <1>2, <1>7, <1>8, <2>1 DEF Values
  <2>2. CASE f # r.elem /\ f \in Near[r.elem]
    BY <1>7, <1>8, <2>2 DEF Seen
  <2>3. CASE f # r.elem /\ f \notin Near[r.elem]
    BY <1>7, <1>8, <2>3 DEF Cells
  <2> QED
    BY <2>1, <2>2, <2>3
<1> QED
  BY <1>2, <1>9 DEF r

-----------------------------------------------------------------------------
(* The inductive invariant *)

\* A reference is at the element the program means.
RefsPlaced ==
  \A a \in Accs : \A n \in 1..Len(refs[a]) :
    refs[a][n].offset = refs[a][n].elem * ElemSize

\* A reference has read what its neighbours hold, but those assigned while it waited.
BuffersKept ==
  \A a \in Accs : \A n \in 1..Len(refs[a]) :
    \A f \in Near[refs[a][n].elem] :
      last[f] # NoValue => Seen(refs[a][n].elem, refs[a][n].buffer)[f] = Cells[f]

IInv == TypeOK /\ RefsPlaced /\ BuffersKept /\ LastKept

LEMMA InitIInv == Init => IInv
<1> SUFFICES ASSUME Init PROVE IInv
  OBVIOUS
<1>1. TypeOK
  BY InitTypes
<1>2. \A a \in Accs : Len(refs[a]) = 0
  BY DEF Init
<1>3. LastKept
  BY DEF Init, LastKept
<1> QED
  BY <1>1, <1>2, <1>3 DEF IInv, RefsPlaced, BuffersKept

LEMMA RefInRefs ==
  ASSUME TypeOK, NEW a \in Accs, NEW n \in 1..Len(refs[a])
  PROVE  refs[a][n] \in Refs
BY DEF TypeOK

\* While the memory stays as it is the invariant is about the references: each is where
\* one was, or has just read its word.
LEMMA QuietStep ==
  ASSUME IInv, TypeOK', UNCHANGED <<mem, last>>,
         \A b \in Accs : \A n \in 1..Len(refs'[b]) :
           \/ \E m \in 1..Len(refs[b]) : /\ refs'[b][n].elem = refs[b][m].elem
                                         /\ refs'[b][n].offset = refs[b][m].offset
                                         /\ refs'[b][n].buffer = refs[b][m].buffer
           \/ /\ refs'[b][n].elem \in Elems
              /\ refs'[b][n].offset = refs'[b][n].elem * ElemSize
              /\ refs'[b][n].buffer = Fetched(refs'[b][n].offset)
  PROVE  IInv'
<1>1. RefsPlaced'
  BY DEF IInv, RefsPlaced
<1>2. UNCHANGED Cells
  BY DEF Cells
<1>3. LastKept'
  BY <1>2 DEF IInv, LastKept
<1>4. BuffersKept'
  <2> SUFFICES ASSUME NEW b \in Accs, NEW n \in 1..Len(refs'[b]),
                      NEW f \in Near[refs'[b][n].elem], last'[f] # NoValue
               PROVE  Seen(refs'[b][n].elem, refs'[b][n].buffer)[f] = Cells'[f]
    BY DEF BuffersKept, Near, Seen, WordOf, InWord
  <2>1. CASE \E m \in 1..Len(refs[b]) : /\ refs'[b][n].elem = refs[b][m].elem
                                        /\ refs'[b][n].offset = refs[b][m].offset
                                        /\ refs'[b][n].buffer = refs[b][m].buffer
    BY <1>2, <2>1 DEF IInv, BuffersKept
  <2>2. CASE /\ refs'[b][n].elem \in Elems
             /\ refs'[b][n].offset = refs'[b][n].elem * ElemSize
             /\ refs'[b][n].buffer = Fetched(refs'[b][n].offset)
    <3> DEFINE e == refs'[b][n].elem
    <3>1. e \in Elems /\ f \in Near[e] /\ refs'[b][n].buffer = Fetched(e * ElemSize)
      BY <2>2
    <3> HIDE DEF e
    <3>2. Seen(e, Fetched(e * ElemSize))[f] = Cells[f]
      BY <3>1, FetchedSeen
    <3> QED
      BY <1>2, <3>1, <3>2 DEF e
  <2> QED
    BY <2>1, <2>2
<1> QED
  BY <1>1, <1>3, <1>4 DEF IInv

LEMMA MakeRefStep ==
  ASSUME Plain, IInv, NEW a \in Accs, MakeRef(a)
  PROVE  IInv'
<1>0. PICK e \in Elems : \E p \in Addresses(e) :
        Open(a, [elem |-> e, offset |-> p, buffer |-> Fetched(p),
                 from |-> NoElem, value |-> NoValue, isRef |-> FALSE])
  BY DEF MakeRef
<1>1. PICK p \in Addresses(e) :
        Open(a, [elem |-> e, offset |-> p, buffer |-> Fetched(p),
                 from |-> NoElem, value |-> NoValue, isRef |-> FALSE])
  BY <1>0
<1> DEFINE r == [elem |-> e, offset |-> p, buffer |-> Fetched(p),
                 from |-> NoElem, value |-> NoValue, isRef |-> FALSE]
<1>2. p \in Bytes /\ p = e * ElemSize
  BY Places
<1>3. r \in Refs
  BY <1>2, FetchedType DEF Refs, IInv
<1>4. /\ r.elem = e /\ r.offset = p /\ r.buffer = Fetched(p)
      /\ refs' = [refs EXCEPT ![a] = <<r>> \o @]
  BY <1>1 DEF Open
<1>5. UNCHANGED <<mem, last>>
  BY DEF MakeRef
<1> HIDE DEF r
<1>6. \A b \in Accs : \A n \in 1..Len(refs'[b]) :
        IF b = a /\ n = 1 THEN refs'[b][n] = r
        ELSE \E m \in 1..Len(refs[b]) :
               m = (IF b = a THEN n - 1 ELSE n) /\ refs'[b][n] = refs[b][m]
  BY <1>3, <1>4, PushStep DEF IInv
<1>7. TypeOK'
  BY StepTypes DEF IInv, Next
<1>8. ASSUME NEW b \in Accs, NEW n \in 1..Len(refs'[b])
      PROVE  \/ \E m \in 1..Len(refs[b]) : /\ refs'[b][n].elem = refs[b][m].elem
                                           /\ refs'[b][n].offset = refs[b][m].offset
                                           /\ refs'[b][n].buffer = refs[b][m].buffer
             \/ /\ refs'[b][n].elem \in Elems
                /\ refs'[b][n].offset = refs'[b][n].elem * ElemSize
                /\ refs'[b][n].buffer = Fetched(refs'[b][n].offset)
  <2>1. CASE b = a /\ n = 1
    <3>1. refs'[b][n] = r
      BY <1>6, <2>1
    <3> QED
      BY <1>2, <1>4, <3>1
  <2>2. CASE ~(b = a /\ n = 1)
    <3>1. \E m \in 1..Len(refs[b]) : refs'[b][n] = refs[b][m]
      BY <1>6, <2>2
    <3> QED
      BY <3>1
  <2> QED
    BY <2>1, <2>2
<1> QED
  BY <1>5, <1>7, <1>8, QuietStep

LEMMA SetTopStep ==
  ASSUME IInv, NEW a \in Accs, refs[a] # <<>>, UNCHANGED <<mem, last>>, TypeOK',
         NEW f \in Elems \cup {NoElem}, NEW v \in Values \cup {NoValue},
         NEW ref \in BOOLEAN, SetTop(a, f, v, ref)
  PROVE  IInv'
<1>1. ASSUME NEW b \in Accs, NEW n \in 1..Len(refs'[b])
      PROVE  \E m \in 1..Len(refs[b]) : /\ refs'[b][n].elem = refs[b][m].elem
                                        /\ refs'[b][n].offset = refs[b][m].offset
                                        /\ refs'[b][n].buffer = refs[b][m].buffer
  <2>1. Len(refs'[b]) = Len(refs[b])
    BY SetStep DEF IInv
  <2>2. n \in 1..Len(refs[b])
    BY <2>1
  <2> QED
    BY <2>2, SetStep DEF IInv
<1> QED
  BY <1>1, QuietStep

\* An assignment leaves what the others have read as it is, or forgets what its element
\* held.
LEMMA AssignStep ==
  ASSUME IInv, NEW a \in Accs, Assign(a)
  PROVE  IInv'
<1> DEFINE r == Head(refs[a])
<1>0. TypeOK /\ RefsPlaced /\ BuffersKept /\ LastKept
  BY DEF IInv
<1>1. /\ refs[a] # <<>> /\ refs' = [refs EXCEPT ![a] = Tail(@)]
      /\ r = refs[a][1] /\ 1 \in 1..Len(refs[a]) /\ r \in Refs
  <2>1. refs[a] # <<>> /\ refs[a] \in Seq(Refs)
    BY <1>0 DEF Assign, TypeOK
  <2> QED
    BY <2>1 DEF Assign
<1>2. r.offset = r.elem * ElemSize /\ r.elem \in Elems
  BY <1>0, <1>1 DEF RefsPlaced, Refs
<1>3. \A b \in Accs : \A n \in 1..Len(refs'[b]) :
        \E m \in 1..Len(refs[b]) :
          m = (IF b = a THEN n + 1 ELSE n) /\ refs'[b][n] = refs[b][m]
  BY <1>0, <1>1, PopStep
<1>4. TypeOK'
  BY StepTypes DEF IInv, Next
<1>5. CASE r.isRef
  <2>1. UNCHANGED <<mem, last>>
    BY <1>5 DEF Assign
  <2>2. \A b \in Accs : \A n \in 1..Len(refs'[b]) :
          \E m \in 1..Len(refs[b]) : /\ refs'[b][n].elem = refs[b][m].elem
                                     /\ refs'[b][n].offset = refs[b][m].offset
                                     /\ refs'[b][n].buffer = refs[b][m].buffer
    BY <1>3
  <2> QED
    BY <1>4, <2>1, <2>2, QuietStep
<1>6. CASE ~r.isRef
  <2>1. \A f \in Elems :
          Cells'[f] = IF f = r.elem THEN r.value
                      ELSE IF f \in Near[r.elem] THEN Seen(r.elem, r.buffer)[f] ELSE Cells[f]
    BY <1>0, <1>2, <1>6, AssignCells
  <2>2. \A f \in Elems :
          last'[f] = IF f = r.elem THEN (IF Alone(a) THEN r.value ELSE NoValue) ELSE last[f]
    BY <1>0, <1>6 DEF Assign, TypeOK
  <2>3. \A f \in Near[r.elem] : last[f] # NoValue => Seen(r.elem, r.buffer)[f] = Cells[f]
    BY <1>0, <1>1 DEF BuffersKept
  <2>4. \A b \in Accs : \A n \in 1..Len(refs[b]) :
          Alone(a) /\ (b # a \/ n # 1) => WordOf(refs[b][n].offset) # WordOf(r.offset)
    BY DEF Alone
  <2> HIDE DEF r
  <2>5. \A f \in Elems : f # r.elem /\ last'[f] # NoValue => Cells'[f] = Cells[f]
    BY <2>1, <2>2, <2>3
  <2>6. LastKept'
    <3>1. ASSUME NEW f \in Elems, last'[f] # NoValue PROVE Cells'[f] = last'[f]
      <4>1. CASE f = r.elem
        BY <2>1, <2>2, <3>1, <4>1
      <4>2. CASE f # r.elem
        BY <1>0, <2>2, <2>5, <3>1, <4>2 DEF LastKept
      <4> QED
        BY <4>1, <4>2
    <3> QED
      BY <3>1 DEF LastKept
  <2>7. RefsPlaced'
    BY <1>0, <1>3 DEF RefsPlaced
  <2>8. BuffersKept'
    <3> SUFFICES ASSUME NEW b \in Accs, NEW n \in 1..Len(refs'[b]),
                        NEW f \in Near[refs'[b][n].elem], last'[f] # NoValue
                 PROVE  Seen(refs'[b][n].elem, refs'[b][n].buffer)[f] = Cells'[f]
      BY DEF BuffersKept, Near, Seen, WordOf, InWord
    <3>1. PICK m \in 1..Len(refs[b]) :
            m = (IF b = a THEN n + 1 ELSE n) /\ refs'[b][n] = refs[b][m]
      BY <1>3
    <3> DEFINE q == refs[b][m]
    <3>2. q \in Refs /\ q.offset = q.elem * ElemSize
      BY <1>0, RefInRefs DEF RefsPlaced
    <3>3. f \in Near[q.elem] /\ q.elem \in Elems
      BY <3>1, <3>2 DEF Refs
    <3>4. f \in Elems /\ WordOf(f * ElemSize) = WordOf(q.offset)
      BY <3>2, <3>3 DEF Near
    <3>5. f # r.elem
      <4> SUFFICES ASSUME f = r.elem PROVE FALSE
        OBVIOUS
      <4>1. Alone(a)
        BY <2>2, <3>4
      <4>2. b # a \/ m # 1
        BY <3>1
      <4> QED
        BY <1>2, <2>4, <3>4, <4>1, <4>2
    <3>6. last[f] # NoValue /\ Cells'[f] = Cells[f]
      BY <2>2, <2>5, <3>4, <3>5
    <3>7. Seen(q.elem, q.buffer)[f] = Cells[f]
      BY <1>0, <3>3, <3>6 DEF BuffersKept
    <3> QED
      BY <3>1, <3>6, <3>7
  <2> QED
    BY <1>4, <2>6, <2>7, <2>8 DEF IInv
<1> QED
  BY <1>5, <1>6

LEMMA NextIInv ==
  ASSUME Plain
  PROVE  IInv /\ [Next]_vars => IInv'
<1> SUFFICES ASSUME IInv, [Next]_vars PROVE IInv'
  OBVIOUS
<1>0. TypeOK'
  BY StepTypes DEF IInv
<1>1. ASSUME NEW a \in Accs, MakeRef(a) PROVE IInv'
  BY <1>1, MakeRefStep
<1>2. ASSUME NEW a \in Accs, Compute(a) PROVE IInv'
  BY <1>0, <1>2, SetTopStep, FpgaRefAssumption DEF Compute
<1>3. ASSUME NEW a \in Accs, ReadOperand(a) PROVE IInv'
  <2>1. PICK f \in Elems, v \in Values : SetTop(a, f, v, FALSE)
    BY <1>3 DEF ReadOperand, Typed
  <2> QED
    BY <1>0, <1>3, <2>1, SetTopStep DEF ReadOperand
<1>4. ASSUME NEW a \in Accs, LeaveOperand(a) PROVE IInv'
  <2>1. PICK f \in Elems : SetTop(a, f, NoValue, TRUE)
    BY <1>4 DEF LeaveOperand
  <2> QED
    BY <1>0, <1>4, <2>1, SetTopStep DEF LeaveOperand
<1>5. ASSUME NEW a \in Accs, Assign(a) PROVE IInv'
  BY <1>5, AssignStep
<1>6. CASE UNCHANGED vars
  <2>1. UNCHANGED <<mem, last>> /\ UNCHANGED refs
    BY <1>6 DEF vars
  <2> QED
    BY <1>0, <2>1, QuietStep
<1> QED
  BY <1>1, <1>2, <1>3, <1>4, <1>5, <1>6 DEF Next

LEMMA IInvAlways ==
  ASSUME Plain
  PROVE  Spec => []IInv
<1>1. Init => IInv
  BY InitIInv
<1>2. IInv /\ [Next]_vars => IInv'
  BY NextIInv
<1> QED
  BY <1>1, <1>2, PTL DEF Spec

\* An element keeps the value last assigned to it, whatever is read and written back
\* around it, but after an assignment for which another reference to its word waited.
THEOREM LastKeptAlways ==
  ASSUME Plain
  PROVE  Spec => []LastKept
<1>1. IInv => LastKept
  BY DEF IInv
<1> QED
  BY <1>1, IInvAlways, PTL

-----------------------------------------------------------------------------
(* The words written back implement assignments to elements *)

Call(r) == [elem |-> r.elem, seen |-> Seen(r.elem, r.buffer), from |-> r.from,
            value |-> r.value, isRef |-> r.isRef]
Calls == {Call(r) : r \in Refs}

LEMMA MeantSeq ==
  ASSUME NEW s \in Seq(Refs)
  PROVE  /\ Meant(s) \in Seq(Calls)
         /\ Len(Meant(s)) = Len(s)
         /\ \A n \in 1..Len(s) : Meant(s)[n] = Call(s[n])
<1>1. \A n \in 1..Len(s) : s[n] \in Refs /\ Call(s[n]) \in Calls
  BY DEF Calls
<1>2. Meant(s) = [n \in 1..Len(s) |-> Call(s[n])]
  BY DEF Meant, Call
<1> QED
  BY <1>1, <1>2

LEMMA MeantPush ==
  ASSUME NEW s \in Seq(Refs), NEW r \in Refs
  PROVE  Meant(<<r>> \o s) = <<Call(r)>> \o Meant(s)
<1> DEFINE t == <<r>> \o s
           u == <<Call(r)>> \o Meant(s)
<1>1. /\ t \in Seq(Refs) /\ Len(t) = Len(s) + 1 /\ t[1] = r
      /\ \A n \in 1..Len(s) : t[n + 1] = s[n]
  BY PushedAndPopped
<1>2. /\ Meant(s) \in Seq(Calls) /\ Len(Meant(s)) = Len(s)
      /\ \A n \in 1..Len(s) : Meant(s)[n] = Call(s[n])
  BY MeantSeq
<1>3. Call(r) \in Calls
  BY DEF Calls
<1>4. /\ u \in Seq(Calls) /\ Len(u) = Len(s) + 1 /\ u[1] = Call(r)
      /\ \A n \in 1..Len(s) : u[n + 1] = Meant(s)[n]
  BY <1>2, <1>3, PushedAndPopped
<1> HIDE DEF t, u
<1>5. /\ Meant(t) \in Seq(Calls) /\ Len(Meant(t)) = Len(t)
      /\ \A n \in 1..Len(t) : Meant(t)[n] = Call(t[n])
  BY <1>1, MeantSeq
<1>6. ASSUME NEW n \in 1..Len(t) PROVE Meant(t)[n] = u[n]
  <2>1. CASE n = 1
    BY <1>1, <1>4, <1>5, <2>1
  <2>2. CASE n # 1
    <3>1. n - 1 \in 1..Len(s) /\ n = (n - 1) + 1
      BY <1>1, <2>2
    <3>2. t[n] = s[n - 1] /\ u[n] = Meant(s)[n - 1]
      BY <1>1, <1>4, <3>1
    <3> QED
      BY <1>2, <1>5, <3>1, <3>2
  <2> QED
    BY <2>1, <2>2
<1>7. Meant(t) = u
  BY <1>1, <1>4, <1>5, <1>6
<1> QED
  BY <1>7 DEF t, u

LEMMA MeantPop ==
  ASSUME NEW s \in Seq(Refs), s # <<>>
  PROVE  /\ Meant(s) # <<>>
         /\ Head(Meant(s)) = Call(Head(s))
         /\ Meant(Tail(s)) = Tail(Meant(s))
<1>1. /\ Head(s) = s[1] /\ Len(s) >= 1
      /\ Tail(s) \in Seq(Refs) /\ Len(Tail(s)) = Len(s) - 1
      /\ \A n \in 1..Len(s) - 1 : Tail(s)[n] = s[n + 1]
  OBVIOUS
<1>2. /\ Meant(s) \in Seq(Calls) /\ Len(Meant(s)) = Len(s)
      /\ \A n \in 1..Len(s) : Meant(s)[n] = Call(s[n])
  BY MeantSeq
<1>3. /\ Meant(Tail(s)) \in Seq(Calls) /\ Len(Meant(Tail(s))) = Len(s) - 1
      /\ \A n \in 1..Len(s) - 1 : Meant(Tail(s))[n] = Call(Tail(s)[n])
  BY <1>1, MeantSeq
<1>4. Meant(s) # <<>> /\ Head(Meant(s)) = Call(Head(s))
  <2>1. Meant(s) # <<>> /\ Head(Meant(s)) = Meant(s)[1]
    BY <1>1, <1>2
  <2> QED
    BY <1>1, <1>2, <2>1
<1>5. /\ Tail(Meant(s)) \in Seq(Calls) /\ Len(Tail(Meant(s))) = Len(s) - 1
      /\ \A n \in 1..Len(s) - 1 : Tail(Meant(s))[n] = Meant(s)[n + 1]
  BY <1>2, <1>4
<1>6. ASSUME NEW n \in 1..Len(s) - 1 PROVE Meant(Tail(s))[n] = Tail(Meant(s))[n]
  <2>1. n + 1 \in 1..Len(s)
    BY <1>1
  <2> QED
    BY <1>1, <1>2, <1>3, <1>5, <2>1
<1>7. Meant(Tail(s)) = Tail(Meant(s))
  BY <1>3, <1>5, <1>6
<1> QED
  BY <1>4, <1>7

\* What the assignments under way become when one accelerator's do.
AbsCalls == [a \in Accs |-> Meant(refs[a])]

LEMMA AbsCallsStep ==
  ASSUME TypeOK, NEW a \in Accs, NEW s, refs' = [refs EXCEPT ![a] = s]
  PROVE  AbsCalls' = [AbsCalls EXCEPT ![a] = Meant(s)]
<1>1. \A b \in Accs : refs'[b] = IF b = a THEN s ELSE refs[b]
  BY DEF TypeOK
<1>2. AbsCalls' = [b \in Accs |-> Meant(refs'[b])]
  BY DEF AbsCalls, Meant, Seen, Near, WordOf, InWord
<1>3. AbsCalls = [b \in Accs |-> AbsCalls[b]] /\ \A b \in Accs : AbsCalls[b] = Meant(refs[b])
  BY DEF AbsCalls
<1>4. \A b \in Accs : Meant(refs'[b]) = IF b = a THEN Meant(s) ELSE AbsCalls[b]
  BY <1>1, <1>3
<1> QED
  BY <1>2, <1>3, <1>4

\* An assignment under way, and whether its right operand is evaluated.
LEMMA TopCall ==
  ASSUME TypeOK, NEW a \in Accs, refs[a] # <<>>
  PROVE  /\ AbsCalls[a] # <<>>
         /\ Head(AbsCalls[a]) = Call(Head(refs[a]))
         /\ Meant(Tail(refs[a])) = Tail(AbsCalls[a])
         /\ Head(refs[a]) \in Refs /\ Tail(refs[a]) \in Seq(Refs)
         /\ Store!Ready(Head(AbsCalls[a])) <=> Ready(Head(refs[a]))
<1>1. refs[a] \in Seq(Refs) /\ AbsCalls[a] = Meant(refs[a])
  BY DEF TypeOK, AbsCalls
<1>2. /\ AbsCalls[a] # <<>>
      /\ Head(AbsCalls[a]) = Call(Head(refs[a]))
      /\ Meant(Tail(refs[a])) = Tail(AbsCalls[a])
  BY <1>1, MeantPop
<1>3. Head(refs[a]) \in Refs /\ Tail(refs[a]) \in Seq(Refs)
  BY <1>1
<1>4. /\ Call(Head(refs[a])).value = Head(refs[a]).value
      /\ Call(Head(refs[a])).isRef = Head(refs[a]).isRef
  BY DEF Call
<1> QED
  BY <1>2, <1>3, <1>4 DEF Store!Ready, Ready

LEMMA NoCall ==
  ASSUME NEW a \in Accs, refs[a] = <<>>
  PROVE  AbsCalls[a] = <<>>
BY DEF AbsCalls, Meant

LEMMA InitImplements == Init => Store!Init
<1> SUFFICES ASSUME Init PROVE Store!Init
  OBVIOUS
<1>1. Cells \in [Elems -> Computed]
  <2>1. \A e \in Elems : Cells[e] \in Computed
    BY DEF Init
  <2>2. Cells = [e \in Elems |-> Cells[e]]
    BY DEF Cells
  <2> QED
    BY <2>1, <2>2
<1>2. AbsCalls = [a \in Accs |-> <<>>]
  <2>1. \A a \in Accs : AbsCalls[a] = <<>>
    BY NoCall DEF Init
  <2> QED
    BY <2>1 DEF AbsCalls
<1> QED
  BY <1>1, <1>2 DEF Store!Init, AbsCalls

LEMMA MakeRefImplements ==
  ASSUME Plain, TypeOK, NEW a \in Accs, MakeRef(a)
  PROVE  Store!Begin(a)
<1>0. PICK e \in Elems : \E p \in Addresses(e) :
        Open(a, [elem |-> e, offset |-> p, buffer |-> Fetched(p),
                 from |-> NoElem, value |-> NoValue, isRef |-> FALSE])
  BY DEF MakeRef
<1>1. PICK p \in Addresses(e) :
        Open(a, [elem |-> e, offset |-> p, buffer |-> Fetched(p),
                 from |-> NoElem, value |-> NoValue, isRef |-> FALSE])
  BY <1>0
<1> DEFINE r == [elem |-> e, offset |-> p, buffer |-> Fetched(p),
                 from |-> NoElem, value |-> NoValue, isRef |-> FALSE]
<1>2. p \in Bytes /\ p = e * ElemSize
  BY Places
<1>3. r \in Refs
  BY <1>2, FetchedType DEF Refs
<1>4. refs' = [refs EXCEPT ![a] = <<r>> \o refs[a]]
  BY <1>1 DEF Open
<1>5. Call(r) = [elem |-> e, seen |-> [f \in Near[e] |-> Cells[f]],
                 from |-> NoElem, value |-> NoValue, isRef |-> FALSE]
  BY <1>2, FetchedSeen DEF Call
<1> HIDE DEF r
<1>6. AbsCalls' = [AbsCalls EXCEPT ![a] = <<Call(r)>> \o AbsCalls[a]]
  <2>1. refs[a] \in Seq(Refs) /\ AbsCalls[a] = Meant(refs[a])
    BY DEF TypeOK, AbsCalls
  <2>2. Meant(<<r>> \o refs[a]) = <<Call(r)>> \o AbsCalls[a]
    BY <1>3, <2>1, MeantPush
  <2> QED
    BY <1>4, <2>2, AbsCallsStep
<1>7. AbsCalls[a] # <<>> => ~Store!Ready(Head(AbsCalls[a]))
  <2> SUFFICES ASSUME AbsCalls[a] # <<>> PROVE ~Store!Ready(Head(AbsCalls[a]))
    OBVIOUS
  <2>1. refs[a] # <<>>
    BY NoCall
  <2> QED
    BY <2>1, TopCall DEF MakeRef
<1>8. UNCHANGED Cells
  BY DEF MakeRef, Cells
<1> QED
  BY <1>5, <1>6, <1>7, <1>8 DEF Store!Begin, AbsCalls

\* A right operand is that of the assignment under way.
LEMMA RightImplements ==
  ASSUME TypeOK, NEW a \in Accs, refs[a] # <<>>,
         NEW f \in Elems \cup {NoElem}, NEW v \in Values \cup {NoValue},
         NEW ref \in BOOLEAN, SetTop(a, f, v, ref)
  PROVE  Store!Right(a, f, v, ref)
<1> DEFINE r == [Head(refs[a]) EXCEPT !.from = f, !.value = v, !.isRef = ref]
<1>1. Head(refs[a]) \in Refs /\ Tail(refs[a]) \in Seq(Refs)
  BY TopCall
<1>2. refs' = [refs EXCEPT ![a] = <<r>> \o Tail(refs[a])]
  BY DEF SetTop
<1>3. /\ r \in Refs
      /\ Call(r) = [elem |-> Call(Head(refs[a])).elem, seen |-> Call(Head(refs[a])).seen,
                     from |-> f, value |-> v, isRef |-> ref]
  <2> DEFINE h == Head(refs[a])
  <2>1. /\ r \in Refs /\ r.elem = h.elem /\ r.buffer = h.buffer
        /\ r.from = f /\ r.value = v /\ r.isRef = ref
    BY <1>1 DEF Refs
  <2> HIDE DEF h, r
  <2>2. Call(h).elem = h.elem /\ Call(h).seen = Seen(h.elem, h.buffer)
    BY DEF Call
  <2> QED
    BY <2>1, <2>2 DEF Call, h
<1> HIDE DEF r
<1>4. Meant(<<r>> \o Tail(refs[a])) = <<Call(r)>> \o Meant(Tail(refs[a]))
  BY <1>1, <1>3, MeantPush
<1>5. AbsCalls' = [AbsCalls EXCEPT ![a] = <<Call(r)>> \o Tail(AbsCalls[a])]
  BY <1>2, <1>4, TopCall, AbsCallsStep
<1> QED
  BY <1>3, <1>5, TopCall DEF Store!Right, AbsCalls

LEMMA OperandImplements ==
  ASSUME TypeOK, NEW a \in Accs, refs[a] # <<>>, ~Ready(Head(refs[a])), UNCHANGED mem,
         \/ \E v \in Computed : SetTop(a, NoElem, v, FALSE)
         \/ \E f \in Elems : SetTop(a, f, Cells[f], FALSE) \/ SetTop(a, f, NoValue, TRUE)
  PROVE  Store!Operand(a)
<1>1. \/ \E v \in Computed : Store!Right(a, NoElem, v, FALSE)
      \/ \E f \in Elems : \/ Store!Right(a, f, Cells[f], FALSE)
                          \/ Store!Right(a, f, NoValue, TRUE)
  <2>1. \A v \in Computed : v \in Values
    BY FpgaRefAssumption
  <2>2. \A f \in Elems : Cells[f] \in Values
    BY CellsType DEF TypeOK
  <2> QED
    BY <2>1, <2>2, RightImplements
<1>2. UNCHANGED Cells
  BY DEF Cells
<1> QED
  BY <1>1, <1>2, TopCall DEF Store!Operand, AbsCalls

\* The value read from an element is the element's.
LEMMA ReadsCell ==
  ASSUME Plain, TypeOK, NEW f \in Elems, NEW p \in Addresses(f), NEW v \in Typed(Fetched(p), p)
  PROVE  v \in Values /\ v = Cells[f]
<1>1. p = f * ElemSize
  BY Places
<1>2. v \in Values
  BY DEF Typed
<1>3. ASSUME NEW k \in 0..ElemSize - 1 PROVE v[k] = mem[f * ElemSize + k]
  <2> DEFINE b == f * ElemSize + k
  <2>1. b \in Bytes /\ WordOf(b) = WordOf(p) /\ InWord(b) = InWord(p) + k
    BY <1>1, ElementBytes
  <2>2. InWord(b) \in 0..WordBytes - 1 /\ b = WordOf(b) * WordBytes + InWord(b)
    BY <2>1, ByteInWord
  <2>3. InWord(p) + k < WordBytes
    BY <2>1, <2>2, FpgaRefAssumption
  <2>4. v[k] = Fetched(p)[InWord(p) + k]
    BY <2>3 DEF Typed
  <2> HIDE DEF b
  <2>5. Fetched(p)[InWord(p) + k] = mem[WordOf(p) * WordBytes + (InWord(p) + k)]
    BY <2>1, <2>2 DEF Fetched
  <2> QED
    BY <2>1, <2>2, <2>4, <2>5 DEF b
<1> QED
  BY <1>2, <1>3 DEF Cells, Values

LEMMA AssignImplements ==
  ASSUME IInv, NEW a \in Accs, Assign(a)
  PROVE  Store!End(a)
<1> DEFINE r == Head(refs[a])
           call == Head(AbsCalls[a])
<1>0. TypeOK /\ refs[a] # <<>> /\ Ready(r) /\ refs' = [refs EXCEPT ![a] = Tail(refs[a])]
  BY DEF IInv, Assign
<1>1. /\ AbsCalls[a] # <<>> /\ call = Call(r) /\ Meant(Tail(refs[a])) = Tail(AbsCalls[a])
      /\ r \in Refs /\ Store!Ready(call)
  BY <1>0, TopCall
<1>2. /\ call.elem = r.elem /\ call.seen = Seen(r.elem, r.buffer)
      /\ call.value = r.value /\ call.isRef = r.isRef
  BY <1>1 DEF Call
<1>3. AbsCalls' = [AbsCalls EXCEPT ![a] = Tail(AbsCalls[a])]
  BY <1>0, <1>1, AbsCallsStep
<1>4. CASE r.isRef
  <2>1. UNCHANGED Cells
    BY <1>4 DEF Assign, Cells
  <2> HIDE DEF r
  <2> QED
    BY <1>1, <1>2, <1>3, <1>4, <2>1 DEF Store!End, AbsCalls
<1>5. CASE ~r.isRef
  <2>1. r.offset = r.elem * ElemSize
    <3>1. r = refs[a][1] /\ 1 \in 1..Len(refs[a])
      BY <1>0 DEF TypeOK
    <3> QED
      BY <3>1 DEF IInv, RefsPlaced
  <2>2. \A f \in Elems :
          Cells'[f] = IF f = r.elem THEN r.value
                      ELSE IF f \in Near[r.elem] THEN Seen(r.elem, r.buffer)[f] ELSE Cells[f]
    BY <1>0, <1>5, <2>1, AssignCells
  <2>3. Cells' = [f \in Elems |-> Cells'[f]]
    BY DEF Cells
  <2> HIDE DEF r, call
  <2>4. Cells' = [e \in Elems |-> IF e = call.elem THEN call.value
                                  ELSE IF e \in Near[call.elem] THEN call.seen[e] ELSE Cells[e]]
    BY <1>2, <2>2, <2>3
  <2>5. \E back \in SUBSET Near[call.elem] :
          Cells' = [e \in Elems |-> IF e = call.elem THEN call.value
                                    ELSE IF e \in back THEN call.seen[e] ELSE Cells[e]]
    BY <2>4
  <2> QED
    BY <1>1, <1>2, <1>3, <1>5, <2>5 DEF Store!End, AbsCalls, call
<1> QED
  BY <1>4, <1>5

LEMMA NextImplements ==
  ASSUME Plain
  PROVE  IInv /\ [Next]_vars => [Store!Next]_<<Cells, AbsCalls>>
<1> SUFFICES ASSUME IInv, [Next]_vars PROVE [Store!Next]_<<Cells, AbsCalls>>
  OBVIOUS
<1>1. ASSUME NEW a \in Accs, MakeRef(a) PROVE Store!Next
  BY <1>1, MakeRefImplements DEF IInv, Store!Next
<1>2. ASSUME NEW a \in Accs, Compute(a) PROVE Store!Next
  <2>1. Store!Operand(a)
    BY <1>2, OperandImplements DEF IInv, Compute
  <2> QED
    BY <2>1 DEF Store!Next
<1>3. ASSUME NEW a \in Accs, ReadOperand(a) PROVE Store!Next
  <2>1. PICK f \in Elems : \E p \in Addresses(f) : \E v \in Typed(Fetched(p), p) :
          SetTop(a, f, v, FALSE)
    BY <1>3 DEF ReadOperand
  <2>2. SetTop(a, f, Cells[f], FALSE)
    BY <2>1, ReadsCell DEF IInv
  <2>3. Store!Operand(a)
    BY <1>3, <2>2, OperandImplements DEF IInv, ReadOperand
  <2> QED
    BY <2>3 DEF Store!Next
<1>4. ASSUME NEW a \in Accs, LeaveOperand(a) PROVE Store!Next
  <2>1. Store!Operand(a)
    BY <1>4, OperandImplements DEF IInv, LeaveOperand
  <2> QED
    BY <2>1 DEF Store!Next
<1>5. ASSUME NEW a \in Accs, Assign(a) PROVE Store!Next
  BY <1>5, AssignImplements DEF Store!Next
<1>6. CASE UNCHANGED vars
  <2>1. UNCHANGED mem /\ UNCHANGED refs
    BY <1>6 DEF vars
  <2>2. UNCHANGED Cells
    BY <2>1 DEF Cells
  <2>3. UNCHANGED AbsCalls
    BY <2>1 DEF AbsCalls, Meant, Seen, Near, WordOf, InWord
  <2> QED
    BY <2>2, <2>3
<1> QED
  BY <1>1, <1>2, <1>3, <1>4, <1>5, <1>6 DEF Next

\* The words that are read and written back implement assignments to elements, with
\* neighbours that may fall back to what they were when the assignment began, whoever
\* assigns to one word at a time.
THEOREM RefsImplement ==
  ASSUME Plain
  PROVE  Spec => ImplementsElementStore
<1>1. Init => Store!Init
  BY InitImplements
<1>2. IInv /\ [Next]_vars => [Store!Next]_<<Cells, AbsCalls>>
  BY NextImplements
<1> QED
  BY <1>1, <1>2, IInvAlways, PTL DEF Spec, ImplementsElementStore, Store!Spec, AbsCalls

--------------------------------------------------------------------------
(* Time: the repetitions and sleeps of FpgaPeriodic *)

\* The wrapper is in a repetition: in the user function, asleep in it, or waiting.
Repeating == pc \in {"body", "sleep", "delay"}

\* The delay after a repetition that another is to follow ends no sooner than a period after
\* it began; when the loop goes on that time has passed, and no loop goes on once the task
\* has cancelled itself.
PeriodKept ==
  /\ cycles = Cycles(period)
  /\ cancelled => numReps = 0
  /\ Repeating /\ Due(rep, numReps) /\ ~cancelled => since + left >= cycles
  /\ pc = "loop" /\ Again /\ ~cancelled => since >= cycles

\* What has passed of a sleep, and what is left of it, are no less than what was asked.
SleepKept == pc = "sleep" => slept + wake >= Cycles(usec)

TimeInv == TimeTypeOK /\ WaitsForTheNext /\ PeriodKept /\ SleepKept

\* Unsigned ints: what a product leaves, and the counts that a tick changes.
LEMMA Wrapping ==
  /\ \A n \in Nat : Wrapped(n) \in UInts
  /\ \A n \in UInts : Wrapped(n) = n
  /\ 0 \in UInts /\ 1 \in UInts /\ Forever \in UInts
  /\ Forever >= 1 /\ Long = Limit /\ Limit \in Nat
  /\ UInts \subseteq Nat /\ \A n \in UInts : n < Limit
  /\ 0 \in 0..Long /\ Long \in 0..Long
BY FpgaPeriodicAssumption DEF Wrapped, UInts, Forever, Long

\* The cycles of a time are an unsigned int, and its product when that fits.
LEMMA CyclesType ==
  ASSUME freq \in UInts, NEW us \in UInts
  PROVE  /\ us * freq \in Nat /\ Cycles(us) \in UInts
         /\ Fits(us) => Cycles(us) = us * freq
<1>1. us * freq \in Nat
  <2>1. us \in Nat /\ freq \in Nat
    BY Wrapping
  <2> QED
    BY <2>1
<1> QED
  BY <1>1, Wrapping DEF Cycles, Fits

\* At the start nothing waits.
LEMMA InitTime == TimeInit => TimeInv
<1> SUFFICES ASSUME TimeInit PROVE TimeInv
  OBVIOUS
<1>1. freq \in Freqs /\ freq \in UInts
  BY FpgaPeriodicAssumption DEF TimeInit
<1>2. TimeTypeOK
  BY <1>1, Wrapping DEF TimeInit, TimeTypeOK
<1>3. Cycles(0) = 0
  <2>1. 0 * freq = 0
    BY <1>1, Wrapping
  <2> QED
    BY <2>1, Wrapping DEF Cycles
<1>4. PeriodKept
  BY <1>3 DEF TimeInit, PeriodKept, Repeating
<1>5. WaitsForTheNext /\ SleepKept
  BY DEF TimeInit, WaitsForTheNext, SleepKept
<1> QED
  BY <1>2, <1>4, <1>5 DEF TimeInv

\* The types, one by one.
LEMMA TimeTypes ==
  ASSUME TimeInv
  PROVE  /\ freq \in Freqs /\ freq \in UInts
         /\ period \in UInts /\ cycles \in UInts /\ rep \in UInts
         /\ numReps \in UInts /\ left \in UInts /\ usec \in UInts
         /\ wake \in UInts /\ since \in 0..Limit /\ slept \in 0..Limit
         /\ cancelled \in BOOLEAN
BY FpgaPeriodicAssumption, Wrapping DEF TimeInv, TimeTypeOK

\* The number of a repetition, and the next one, are unsigned ints.
LEMMA NextRep ==
  ASSUME TimeInv
  PROVE  /\ rep \in Nat /\ numReps \in Nat
         /\ Wrapped(rep + 1) \in UInts /\ Wrapped(rep + 1) \in Nat
<1>1. rep \in Nat /\ numReps \in Nat
  <2>1. rep \in UInts /\ numReps \in UInts
    BY TimeTypes
  <2> QED
    BY <2>1 DEF UInts
<1>2. rep + 1 \in Nat
  BY <1>1
<1>3. Wrapped(rep + 1) \in UInts
  BY <1>2, Wrapping
<1> QED
  BY <1>1, <1>3 DEF UInts

\* A command starts with the time of a period behind it.
LEMMA StartTime ==
  ASSUME TimeInv, Start
  PROVE  TimeInv'
<1> USE DEF Start
<1>1. /\ freq \in UInts /\ freq' = freq /\ freq \in Freqs
      /\ left \in UInts /\ usec \in UInts /\ wake \in UInts
      /\ slept \in 0..Limit
  BY TimeTypes
<1>2. period' \in UInts /\ numReps' \in UInts
  BY FpgaPeriodicAssumption, Wrapping
<1>3. cycles' = Cycles(period') /\ Cycles(period') \in UInts
  BY <1>1, <1>2, CyclesType
<1>4. TimeTypeOK'
  BY <1>1, <1>2, <1>3, Wrapping DEF TimeTypeOK
<1>5. PeriodKept'
  <2>1. since' = Limit /\ cycles' < Limit /\ cycles' \in Nat /\ Limit \in Nat
    BY <1>3, Wrapping
  <2>2. cycles' = Cycles(period)'
    BY <1>1 DEF Cycles
  <2> QED
    BY <2>1, <2>2 DEF PeriodKept, Repeating
<1>6. WaitsForTheNext' /\ SleepKept'
  BY DEF WaitsForTheNext, SleepKept
<1> QED
  BY <1>4, <1>5, <1>6 DEF TimeInv

\* A repetition begins with a whole period left, if another is to follow.
LEMMA RepeatTime ==
  ASSUME TimeInv, Repeat
  PROVE  TimeInv'
<1> USE DEF Repeat
<1>1. /\ cycles \in UInts /\ cycles = Cycles(period) /\ Limit \in Nat
      /\ cycles \in Nat /\ 0 \in UInts
  BY TimeTypes, Wrapping DEF TimeInv, PeriodKept
<1>2. TimeTypeOK'
  <2>1. left' \in UInts /\ since' \in 0..Long
    BY <1>1, Wrapping
  <2> QED
    BY <2>1 DEF TimeInv, TimeTypeOK
<1>3. left' > 0 => left' = cycles /\ Due(rep, numReps)
  OBVIOUS
<1>4. WaitsForTheNext'
  <2>1. Due(rep, numReps) => numReps = Forever \/ Wrapped(rep + 1) # numReps
    <3>1. Wrapped(rep + 1) \in Nat /\ numReps \in Nat
      BY NextRep
    <3> QED
      BY <3>1 DEF Due
  <2> QED
    BY <1>1, <1>3, <2>1 DEF WaitsForTheNext, Wrapped, Forever
<1>5. PeriodKept'
  <2>1. cycles' = Cycles(period)'
    BY <1>1 DEF Cycles, Wrapped
  <2>2. cancelled' => numReps' = 0
    BY DEF TimeInv, PeriodKept
  <2>3. Due(rep, numReps)' => since' + left' >= cycles'
    BY <1>1 DEF Due, Wrapped, Forever
  <2> QED
    BY <2>1, <2>2, <2>3 DEF PeriodKept
<1>6. SleepKept'
  BY DEF SleepKept
<1> QED
  BY <1>2, <1>4, <1>5, <1>6 DEF TimeInv

\* A task that ends waits for nothing.
LEMMA FinishTime ==
  ASSUME TimeInv, Finish
  PROVE  TimeInv'
<1> USE DEF Finish
<1>1. TimeTypeOK'
  BY DEF TimeInv, TimeTypeOK
<1>2. WaitsForTheNext' /\ SleepKept'
  BY DEF WaitsForTheNext, SleepKept
<1>3. PeriodKept'
  BY DEF TimeInv, PeriodKept, Repeating, Cycles, Wrapped
<1> QED
  BY <1>1, <1>2, <1>3 DEF TimeInv

\* Who has cancelled itself waits for no time that it must keep.
LEMMA CancelTime ==
  ASSUME TimeInv, Cancel
  PROVE  TimeInv'
<1> USE DEF Cancel
<1>1. TimeTypeOK'
  BY Wrapping DEF TimeInv, TimeTypeOK
<1>2. WaitsForTheNext' /\ SleepKept'
  BY DEF TimeInv, WaitsForTheNext, SleepKept
<1>3. PeriodKept'
  BY DEF TimeInv, PeriodKept, Cycles, Wrapped
<1> QED
  BY <1>1, <1>2, <1>3 DEF TimeInv

\* A sleep begins with all of its cycles left.
LEMMA SleepTime ==
  ASSUME TimeInv, Sleep
  PROVE  TimeInv'
<1> USE DEF Sleep
<1>1. usec' \in UInts /\ freq \in UInts
  BY FpgaPeriodicAssumption, TimeTypes
<1>2. wake' = Cycles(usec') /\ wake' \in UInts /\ wake' \in Nat
  BY <1>1, CyclesType, Wrapping
<1>3. TimeTypeOK'
  BY <1>1, <1>2, Wrapping DEF TimeInv, TimeTypeOK
<1>4. WaitsForTheNext'
  BY DEF TimeInv, WaitsForTheNext, Wrapped, Forever
<1>5. PeriodKept'
  BY DEF TimeInv, PeriodKept, Repeating, Cycles, Wrapped, Due, Forever
<1>6. SleepKept'
  <2>1. Cycles(usec)' = Cycles(usec')
    BY DEF Cycles
  <2> QED
    BY <1>2, <2>1 DEF SleepKept
<1> QED
  BY <1>3, <1>4, <1>5, <1>6 DEF TimeInv

\* Waking up, and returning from the user function, change no time.
LEMMA WakeReturnTime ==
  ASSUME TimeInv, Wake \/ Return
  PROVE  TimeInv'
<1>1. /\ Repeating /\ Repeating' /\ pc' \in {"body", "delay"}
      /\ UNCHANGED <<freq, period, cycles, rep, numReps, left, usec, wake, since, slept, cancelled>>
  BY DEF Wake, Return, Repeating
<1>2. TimeTypeOK'
  BY <1>1 DEF TimeInv, TimeTypeOK
<1>3. WaitsForTheNext' /\ SleepKept'
  BY <1>1 DEF TimeInv, WaitsForTheNext, SleepKept, Repeating, Wrapped, Forever
<1>4. PeriodKept'
  BY <1>1 DEF TimeInv, PeriodKept, Cycles, Wrapped, Due, Forever
<1> QED
  BY <1>2, <1>3, <1>4 DEF TimeInv

\* When the delay is over the next repetition, if any, may begin.
LEMMA EndDelayTime ==
  ASSUME TimeInv, EndDelay
  PROVE  TimeInv'
<1> USE DEF EndDelay
<1>1. rep' = Wrapped(rep + 1) /\ rep' \in UInts /\ left = 0
  <2>1. Wrapped(rep + 1) \in UInts
    BY NextRep
  <2> QED
    BY <2>1
<1>2. TimeTypeOK'
  BY <1>1 DEF TimeInv, TimeTypeOK
<1>3. WaitsForTheNext' /\ SleepKept'
  BY DEF WaitsForTheNext, SleepKept
<1>4. PeriodKept'
  <2>1. since \in Nat
    BY TimeTypes, Wrapping
  <2>2. Again' => Due(rep, numReps)
    BY DEF Again, Due, Forever
  <2>3. Again' /\ ~cancelled => since >= cycles
    BY <1>1, <2>1, <2>2 DEF TimeInv, PeriodKept, Repeating
  <2>4. cycles' = Cycles(period)' /\ (cancelled' => numReps' = 0)
    BY DEF TimeInv, PeriodKept, Cycles, Wrapped
  <2> QED
    BY <2>3, <2>4 DEF PeriodKept, Repeating
<1> QED
  BY <1>2, <1>3, <1>4 DEF TimeInv

\* A tick moves what has passed and what is left of a wait together, until nothing is left
\* or history has stopped counting.
LEMMA TickTime ==
  ASSUME TimeInv, Tick
  PROVE  TimeInv'
<1> USE DEF Tick
<1>1. /\ left \in Nat /\ wake \in Nat /\ since \in 0..Limit /\ slept \in 0..Limit
      /\ left < Limit /\ wake < Limit /\ cycles \in Nat /\ cycles < Limit
      /\ Limit \in Nat /\ freq \in UInts /\ usec \in UInts
  BY TimeTypes, Wrapping
<1>2. /\ left' = IF left = 0 THEN 0 ELSE left - 1
      /\ wake' = IF wake = 0 THEN 0 ELSE wake - 1
      /\ since' = IF since = Limit THEN Limit ELSE since + 1
      /\ slept' = IF slept = Limit THEN Limit ELSE slept + 1
      /\ UNCHANGED <<freq, pc, period, cycles, rep, numReps, usec, cancelled>>
  BY Wrapping DEF Down, Up
<1> HIDE DEF Tick
<1>3. TimeTypeOK'
  <2>1. left' \in UInts /\ wake' \in UInts
    BY <1>1, <1>2 DEF UInts
  <2>2. since' \in 0..Long /\ slept' \in 0..Long
    BY <1>1, <1>2 DEF Long
  <2> QED
    BY <1>2, <2>1, <2>2 DEF TimeInv, TimeTypeOK
<1>4. WaitsForTheNext'
  <2> SUFFICES ASSUME Repeating', left' > 0
               PROVE  /\ since' + left' = cycles'
                      /\ cancelled' \/ numReps' = Forever' \/ Wrapped(rep + 1)' # numReps'
    BY DEF WaitsForTheNext, Repeating
  <2>1. Repeating /\ left > 0
    BY <1>1, <1>2 DEF Repeating
  <2>2. /\ since + left = cycles
        /\ cancelled \/ numReps = Forever \/ Wrapped(rep + 1) # numReps
    BY <2>1 DEF TimeInv, WaitsForTheNext, Repeating
  <2>3. since' + left' = cycles'
    BY <1>1, <1>2, <2>1, <2>2
  <2> QED
    BY <1>2, <2>2, <2>3 DEF Wrapped, Forever
<1>5. PeriodKept'
  <2>1. cycles' = Cycles(period)' /\ (cancelled' => numReps' = 0)
    BY <1>2 DEF TimeInv, PeriodKept, Cycles, Wrapped
  <2>2. since' >= since /\ (since + left >= cycles => since' + left' >= cycles)
    BY <1>1, <1>2
  <2>3. (Repeating /\ Due(rep, numReps) /\ ~cancelled)' => since' + left' >= cycles'
    BY <1>2, <2>2 DEF TimeInv, PeriodKept, Repeating, Due, Wrapped, Forever
  <2>4. (pc = "loop" /\ Again /\ ~cancelled)' => since' >= cycles'
    <3>1. (pc = "loop" /\ Again /\ ~cancelled)' => since >= cycles
      BY <1>2 DEF TimeInv, PeriodKept, Again, Forever
    <3> QED
      BY <1>1, <1>2, <2>2, <3>1
  <2> QED
    BY <2>1, <2>3, <2>4 DEF PeriodKept
<1>6. SleepKept'
  <2> SUFFICES ASSUME pc' = "sleep" PROVE slept' + wake' >= Cycles(usec)'
    BY DEF SleepKept
  <2>1. slept + wake >= Cycles(usec) /\ Cycles(usec)' = Cycles(usec)
    BY <1>2 DEF TimeInv, SleepKept, Cycles, Wrapped
  <2>2. Cycles(usec) \in Nat /\ Cycles(usec) < Limit
    BY <1>1, CyclesType, Wrapping
  <2> HIDE DEF Cycles
  <2> QED
    BY <1>1, <1>2, <2>1, <2>2
<1> QED
  BY <1>3, <1>4, <1>5, <1>6 DEF TimeInv

\* Each step keeps the sums.
LEMMA NextTime == TimeInv /\ [TimeNext]_timeVars => TimeInv'
<1> SUFFICES ASSUME TimeInv, [TimeNext]_timeVars PROVE TimeInv'
  OBVIOUS
<1>1. CASE UNCHANGED timeVars
  BY <1>1 DEF TimeInv, PeriodKept, SleepKept, Repeating, TimeTypeOK, WaitsForTheNext,
     Cycles, Wrapped, Due, Again, Forever, timeVars
<1>2. CASE TimeNext
  BY <1>2, StartTime, RepeatTime, FinishTime, CancelTime, SleepTime, WakeReturnTime,
     EndDelayTime, TickTime DEF TimeNext, Wrapper
<1> QED
  BY <1>1, <1>2

\* Repeating and waking up find the time they wait for behind them.
LEMMA StepOnTime ==
  ASSUME TimeInv, [TimeNext]_timeVars
  PROVE  /\ pc = "loop" /\ pc' = "body" =>
              ~cancelled /\ (Fits(period) => since >= period * freq)
         /\ pc = "sleep" /\ pc' = "body" =>
              (Fits(usec) => slept >= usec * freq)
<1>1. /\ freq \in UInts /\ period \in UInts /\ usec \in UInts
      /\ slept \in Nat /\ since \in Nat
  BY TimeTypes, Wrapping
<1>2. /\ Fits(period) => Cycles(period) = period * freq
      /\ Fits(usec) => Cycles(usec) = usec * freq
  BY <1>1, CyclesType
<1>3. ASSUME pc = "loop", pc' = "body"
      PROVE  ~cancelled /\ (Fits(period) => since >= period * freq)
  <2>1. Repeat
    BY <1>3 DEF TimeNext, Wrapper, Start, Finish, Wake, EndDelay,
       Cancel, Sleep, Return, Tick, timeVars
  <2>2. Again
    BY <2>1 DEF Repeat
  <2>3. ~cancelled
    <3>1. cancelled => numReps = 0
      BY DEF TimeInv, PeriodKept
    <3>2. ~(rep < 0) /\ Forever # 0
      BY NextRep, Wrapping
    <3>3. cancelled => ~Again
      BY <3>1, <3>2 DEF Again
    <3> QED
      BY <2>2, <3>3
  <2> QED
    BY <1>2, <1>3, <2>2, <2>3 DEF TimeInv, PeriodKept
<1>4. ASSUME pc = "sleep", pc' = "body", Fits(usec)
      PROVE  slept >= usec * freq
  <2>1. Wake
    BY <1>4 DEF TimeNext, Wrapper, Start, Repeat, Finish, EndDelay,
       Cancel, Sleep, Return, Tick, timeVars
  <2>2. wake = 0 /\ slept + wake >= Cycles(usec)
    BY <1>4, <2>1 DEF TimeInv, SleepKept, Wake
  <2> QED
    BY <1>1, <1>2, <1>4, <2>2
<1> QED
  BY <1>3, <1>4

\* So what has passed and what is left of a wait add up in every behaviour.
THEOREM TimeInvAlways ==
  TimeSpec => []TimeInv
<1>1. TimeInit => TimeInv
  BY InitTime
<1>2. TimeInv /\ [TimeNext]_timeVars => TimeInv'
  BY NextTime
<1> QED
  BY <1>1, <1>2, PTL DEF TimeSpec

\* Counters, products and times stay unsigned ints.
THEOREM TimeTypesAlways ==
  TimeSpec => []TimeTypeOK
<1>1. TimeInv => TimeTypeOK
  BY DEF TimeInv
<1> QED
  BY <1>1, TimeInvAlways, PTL

\* A wait after a repetition is for the next one and ends a period after this one began.
THEOREM WaitsForTheNextAlways ==
  TimeSpec => []WaitsForTheNext
<1>1. TimeInv => WaitsForTheNext
  BY DEF TimeInv
<1> QED
  BY <1>1, TimeInvAlways, PTL

\* Repetitions begin a period apart or more, none after a cancellation, and sleeps are not
\* cut short, unless the product of the time and the frequency wraps.
THEOREM OnTimeAlways ==
  TimeSpec => OnTime
<1>1. TimeInv /\ [TimeNext]_timeVars =>
        [/\ pc = "loop" /\ pc' = "body" =>
              ~cancelled /\ (Fits(period) => since >= period * freq)
         /\ pc = "sleep" /\ pc' = "body" =>
              (Fits(usec) => slept >= usec * freq)]_timeVars
  BY StepOnTime
<1> QED
  BY <1>1, TimeInvAlways, PTL DEF TimeSpec, OnTime
==========================================================================
