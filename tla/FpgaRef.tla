----------------------------- MODULE FpgaRef -----------------------------
(***************************************************************************)
(* mcxx_ptr_t and mcxx_ref_t (nanox-fpga-utils.hpp), which replace the     *)
(* pointers of FPGA tasks that create tasks when their wrapper has a       *)
(* shared memory port.  A pointer is a byte address.  What it points to is *)
(* an mcxx_ref_t, which reads the word around the element when it is made  *)
(* and writes the whole word back when it is assigned.  Accelerators       *)
(* assign to the elements of one array at the same time.                   *)
(*                                                                         *)
(* A value of an element is the function from its bytes to what they hold. *)
(***************************************************************************)
EXTENDS Integers, Sequences, FiniteSets

CONSTANTS Accs,
          WordBytes,    \* sizeof(ap_uint<fpga_memory_port_width>)
          ElemSize,     \* sizeof(T)
          NumWords,     \* bound: words of the memory
          NumElems,     \* bound: elements of the array, which begins with the memory
          ByteValues,   \* what a byte may hold
          Computed,     \* bound: the values programs begin with and compute
          NoValue, NoElem,
          MaxOpen,      \* bound: references that wait to be assigned
          Indexes       \* the i of the p[i] of the programs

MemBytes == NumWords * WordBytes
Bytes == 0..MemBytes - 1
Elems == 0..NumElems - 1
Values == [0..ElemSize - 1 -> ByteValues]
Words == [0..WordBytes - 1 -> ByteValues]

ASSUME FpgaRefAssumption ==
  /\ {ElemSize, WordBytes} \subseteq Nat \ {0}
  /\ {NumWords, NumElems, MaxOpen} \subseteq Nat
  /\ NumElems * ElemSize <= MemBytes
  /\ WordBytes % ElemSize = 0
  \* raw, through which a value goes, has eight bytes
  /\ ElemSize <= 8
  /\ NoValue \notin Values /\ NoElem \notin Elems
  /\ Computed \subseteq Values /\ Indexes \subseteq Nat

VARIABLES mem,  \* bytes of the memory
          refs, \* accelerator -> its mcxx_ref_t that wait to be assigned, the newest first
          last  \* history: element -> the value last assigned to it, or NoValue when
                \* another reference to its word was waiting then

vars == <<mem, refs, last>>

\* A reference, the element the program means by it, and the right operand: its value,
\* or that it is left a reference, and the element it comes from.
Refs == [elem : Elems, offset : Bytes, buffer : Words,
         from : Elems \cup {NoElem}, value : Values \cup {NoValue}, isRef : BOOLEAN]

\* What the elements hold.
Cells == [e \in Elems |-> [k \in 0..ElemSize - 1 |-> mem[e * ElemSize + k]]]

Init == /\ mem \in [Bytes -> ByteValues]
        /\ \A e \in Elems : Cells[e] \in Computed
        /\ refs = [a \in Accs |-> <<>>]
        /\ last = Cells

-----------------------------------------------------------------------------
\* Where *(p + i) is: operator + counts in elements.
Plus(p, i) == p + i * ElemSize

\* Where p[i] is: operator[] counts in bytes.
Subscript(p, i) == p + i

\* The addresses of an element: from any pointer before it in the array.
Addresses(e) ==
  {Plus(b * ElemSize, e - b) : b \in 0..e}
    \cup {Subscript(b * ElemSize, e - b) : b \in {c \in 0..e : e - c \in Indexes}}

WordOf(offset) == offset \div WordBytes
InWord(offset) == offset % WordBytes

\* Mutant: always the first word.
MutFetched(offset) == [x \in 0..WordBytes - 1 |-> mem[x]]

\* The word around an address (the constructor of mcxx_ref_t).
Fetched(offset) == [x \in 0..WordBytes - 1 |-> mem[WordOf(offset) * WordBytes + x]]

\* What operator T may give of a word: the bytes of its range, and any for those
\* beyond its end.
Typed(word, offset) ==
  {v \in Values : \A k \in 0..ElemSize - 1 :
     InWord(offset) + k < WordBytes => v[k] = word[InWord(offset) + k]}

\* Mutant: the range begins with the word.
MutRanged(word, offset, v) ==
  [x \in 0..WordBytes - 1 |-> IF x \in 0..ElemSize - 1 THEN v[x] ELSE word[x]]

\* The word with a value in the range of an address.
Ranged(word, offset, v) ==
  [x \in 0..WordBytes - 1 |->
     IF x - InWord(offset) \in 0..ElemSize - 1 THEN v[x - InWord(offset)] ELSE word[x]]

-----------------------------------------------------------------------------
\* The references there are, by accelerator and place.
Waiting == {w \in Accs \X (1..MaxOpen) : w[2] <= Len(refs[w[1]])}

\* The right operand is evaluated.
Ready(r) == r.value # NoValue \/ r.isRef

Open(a, r) == refs' = [refs EXCEPT ![a] = <<r>> \o @]

SetTop(a, f, v, ref) ==
  refs' = [refs EXCEPT ![a] =
             <<[Head(@) EXCEPT !.from = f, !.value = v, !.isRef = ref]>> \o Tail(@)]

\* The left operand of an assignment, *p or p[i]: also in the function that computes
\* the right operand of another one.
MakeRef(a) ==
  /\ Cardinality(Waiting) < MaxOpen
  /\ refs[a] # <<>> => ~Ready(Head(refs[a]))
  /\ \E e \in Elems : \E p \in Addresses(e) :
       Open(a, [elem |-> e, offset |-> p, buffer |-> Fetched(p),
                from |-> NoElem, value |-> NoValue, isRef |-> FALSE])
  /\ UNCHANGED <<mem, last>>

\* A right operand that is computed,
Compute(a) ==
  /\ refs[a] # <<>>
  /\ ~Ready(Head(refs[a]))
  /\ \E v \in Computed : SetTop(a, NoElem, v, FALSE)
  /\ UNCHANGED <<mem, last>>

\* one that is read from an element (operator T),
ReadOperand(a) ==
  /\ refs[a] # <<>>
  /\ ~Ready(Head(refs[a]))
  /\ \E f \in Elems : \E p \in Addresses(f) : \E v \in Typed(Fetched(p), p) :
       SetTop(a, f, v, FALSE)
  /\ UNCHANGED <<mem, last>>

\* and one that is left a reference: *p = *q.
LeaveOperand(a) ==
  /\ refs[a] # <<>>
  /\ ~Ready(Head(refs[a]))
  /\ \E f \in Elems : SetTop(a, f, NoValue, TRUE)
  /\ UNCHANGED <<mem, last>>

\* No other reference waits to write the word of the newest one of a back.
Alone(a) ==
  \A b \in Accs : \A n \in 1..Len(refs[b]) :
    b # a \/ n # 1 => WordOf(refs[b][n].offset) # WordOf(Head(refs[a]).offset)

\* operator=(const T), which writes the word back.  Between two references C++ takes
\* the copy assignment it declares by itself instead: that copies the members of one
\* temporary to the other.
Assign(a) ==
  LET r == Head(refs[a])
      word == Ranged(r.buffer, r.offset, r.value) IN
  /\ refs[a] # <<>>
  /\ Ready(r)
  /\ mem' = IF r.isRef THEN mem
            ELSE [b \in Bytes |->
                    IF WordOf(b) = WordOf(r.offset) THEN word[InWord(b)] ELSE mem[b]]
  /\ last' = IF r.isRef THEN last
             ELSE [last EXCEPT ![r.elem] = IF Alone(a) THEN r.value ELSE NoValue]
  /\ refs' = [refs EXCEPT ![a] = Tail(@)]

Next == \E a \in Accs : MakeRef(a) \/ Compute(a) \/ ReadOperand(a) \/ LeaveOperand(a)
                      \/ Assign(a)

Spec == Init /\ [][Next]_vars

-----------------------------------------------------------------------------
TypeOK ==
  /\ mem \in [Bytes -> ByteValues]
  /\ refs \in [Accs -> Seq(Refs)]
  /\ last \in [Elems -> Values \cup {NoValue}]

\* An element keeps the value that was last assigned to it through other assignments
\* to its word, which write it back from what they read earlier; if another reference to
\* the word was waiting when it was assigned, until the next assignment to it.
LastKept == \A e \in Elems : last[e] # NoValue => Cells[e] = last[e]

\* The elements in the word of another one.
Near == [e \in Elems |-> {f \in Elems \ {e} : WordOf(f * ElemSize) = WordOf(e * ElemSize)}]

\* What a reference has read of them.
Seen(e, buffer) ==
  [f \in Near[e] |-> [k \in 0..ElemSize - 1 |-> buffer[InWord(f * ElemSize) + k]]]

Meant(s) == [n \in 1..Len(s) |->
               [elem |-> s[n].elem, seen |-> Seen(s[n].elem, s[n].buffer),
                from |-> s[n].from, value |-> s[n].value, isRef |-> s[n].isRef]]

Store == INSTANCE ElementStore
           WITH cells <- Cells, calls <- [a \in Accs |-> Meant(refs[a])]

\* The pointers that mcxx_ptr_t replaces name elements: an assignment changes the one it
\* names, to the value of its right operand, takes at most its neighbours in the word
\* back to what they were when it began, and touches no other.
ImplementsElementStore == Store!Spec

\* The pointers that mcxx_ptr_t replaces have more meaning: an assignment takes effect,
Ended(a) == refs[a] # <<>> /\ refs'[a] = Tail(refs[a])

TakesEffect ==
  [][\A a \in Accs : Ended(a) =>
       LET r == Head(refs[a])
       IN  Cells'[r.elem] = IF r.isRef THEN Cells[r.from] ELSE r.value]_vars

\* and an element changes by an assignment to it.
OnlyTheNamed ==
  [][\A e \in Elems :
       Cells'[e] # Cells[e] => \E a \in Accs : Ended(a) /\ Head(refs[a]).elem = e]_vars
=============================================================================
