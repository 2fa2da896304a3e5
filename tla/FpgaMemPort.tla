------------------------------ MODULE FpgaMemPort -------------------------------
(***************************************************************************)
(* Copies through the shared memory port of a wrapper                      *)
(* (__mcxx_memcpy_port_in and __mcxx_memcpy_port_out in                    *)
(* nanox-fpga-utils.hpp).  The port is wider than the elements of the      *)
(* arrays: a copy goes word by word, and an array may begin and end inside *)
(* of a word that also holds data of others.  A part of a word is changed  *)
(* by reading the word and storing it whole.  Several wrappers copy at the *)
(* same time.  Memory is a function from byte addresses to values.         *)
(***************************************************************************)
EXTENDS Integers

CONSTANTS Accs,       \* wrappers copying at the same time
          WordBytes,  \* fpga_memory_port_width, in bytes
          RawBytes,   \* bytes of the integer elements go through (cast_tmp.raw)
          ElemSizes,  \* sizes of the elements of arrays
          MemBytes,   \* bound: size of the memory
          MaxLen      \* bound: elements of an array

ASSUME FpgaMemPortAssumption ==
  /\ {WordBytes, RawBytes} \subseteq Nat \ {0}
  /\ ElemSizes \subseteq Nat \ {0}
  \* "Memory port width ... is not multiple of parameter ... width" is an error
  /\ \A e \in ElemSizes : WordBytes % e = 0
  /\ MemBytes \in Nat /\ MemBytes % WordBytes = 0
  /\ MaxLen \in Nat

VARIABLES unaligned,  \* fpga_unaligned_memory_port
          limits,     \* fpga_check_limits_memory_port
          copy,       \* arguments of each wrapper's copy: direction, element, array
          j,          \* word of its loop
          local,      \* bytes of its local array, before the first and after the last too
          mem,        \* bytes of the memory
          held,       \* the word a wrapper has read to change a part of it
          exposed     \* history: bytes stored while another wrapper held their word

vars == <<unaligned, limits, copy, j, local, mem, held, exposed>>

Junk == <<"junk">>  \* what an uninitialized or overrun byte holds
Zero == <<"zero">>
NoWord == [x \in {} |-> Junk]
MemInit(b) == <<"mem", b>>
LocalInit(a, b) == <<"local", a, b>>

Bytes == 0..MemBytes - 1
LocalBytes == -WordBytes..MaxLen * WordBytes + WordBytes

\* The bytes of memory of an array.
Array(c) == c.addr..c.addr + c.len * c.elem - 1

Copies ==
  {c \in [out : BOOLEAN, elem : ElemSizes, addr : Bytes, len : 0..MaxLen] :
     /\ c.addr % c.elem = 0
     /\ Array(c) \subseteq Bytes}

\* What the options demand: without support for unaligned arrays they begin with a
\* word, and without checks of the limits they are whole words.
Permitted(c, un, lim) ==
  /\ ~un => c.addr % WordBytes = 0
  /\ ~un /\ ~lim => (c.len * c.elem) % WordBytes = 0

Init ==
  /\ unaligned \in BOOLEAN
  /\ limits \in BOOLEAN
  /\ copy \in [Accs -> {c \in Copies : Permitted(c, unaligned, limits)}]
  \* tasks that run at the same time do not write what another one uses
  /\ \A a, b \in Accs :
       a # b /\ copy[a].out => Array(copy[a]) \cap Array(copy[b]) = {}
  /\ j = [a \in Accs |-> 0]
  /\ local = [a \in Accs |-> [b \in LocalBytes |-> LocalInit(a, b)]]
  /\ mem = [b \in Bytes |-> MemInit(b)]
  /\ held = [a \in Accs |-> NoWord]
  /\ exposed = {}

--------------------------------------------------------------------------------
\* Elements in a word (n_elems_read) and the offset of the array in its first (__o).
PerWord(c) == WordBytes \div c.elem

Offset(c) == IF unaligned THEN (c.addr % WordBytes) \div c.elem ELSE 0

MutWordsMore(c) ==
  IF c.len = 0 THEN 0
  ELSE ((c.len + Offset(c)) * c.elem) \div WordBytes + 1

MutWords(c) ==
  IF c.len = 0 THEN 0
  ELSE (c.len * c.elem - 1) \div WordBytes + 1

\* Turns of the loop over words.
Words(c) ==
  IF c.len = 0 THEN 0
  ELSE ((c.len + Offset(c)) * c.elem - 1) \div WordBytes + 1

\* The elements a turn leaves alone (limits_skip): with support for unaligned arrays
\* or for limits only.
Skipped(c, w, k) ==
  /\ unaligned \/ limits
  /\ \/ unaligned /\ w = 0 /\ k < Offset(c)
     \/ w * PerWord(c) + k >= c.len + Offset(c)

\* Byte of the local array for byte x of word w.
LocalByte(c, w, x) == (w * PerWord(c) - Offset(c)) * c.elem + x

FirstByte(c, w) == (c.addr \div WordBytes + w) * WordBytes

\* An element passes through a 64 bit integer, which holds the first bytes of a wider
\* one: rest is what the others become.
ThroughRaw(c, x, v, rest) == IF x % c.elem < RawBytes THEN v ELSE rest

MemAt(b) == IF b \in Bytes THEN mem[b] ELSE Junk

\* One turn of __mcxx_memcpy_port_in: the elements of a word that are not skipped.
TurnIn(a) ==
  LET c == copy[a]
      moved == {x \in 0..WordBytes - 1 : ~Skipped(c, j[a], x \div c.elem)} IN
  /\ ~c.out
  /\ j[a] < Words(c)
  /\ local' = [local EXCEPT ![a] = [b \in LocalBytes |->
       LET x == b - LocalByte(c, j[a], 0) IN
       IF x \in moved THEN ThroughRaw(c, x, MemAt(FirstByte(c, j[a]) + x), Junk)
       ELSE @[b]]]
  /\ j' = [j EXCEPT ![a] = @ + 1]
  /\ UNCHANGED <<unaligned, limits, copy, mem, held, exposed>>

MutWritten(c, w) == 0..WordBytes - 1

\* The bytes of word w that the range bit_l..bit_f covers.
Written(c, w) ==
  LET rem == c.len + Offset(c) - w * PerWord(c)
      first == IF unaligned /\ w = 0 THEN Offset(c) * c.elem ELSE 0
      last == IF rem >= PerWord(c) THEN WordBytes - 1 ELSE rem * c.elem - 1
  IN IF unaligned \/ limits THEN first..last ELSE 0..WordBytes - 1

\* A range of a word is assigned, not the word.
Partial == unaligned \/ limits

Holds(a, b) == /\ held[a] # NoWord
               /\ b - FirstByte(copy[a], j[a]) \in 0..WordBytes - 1

\* One turn of __mcxx_memcpy_port_out fills a buffer with the elements not skipped and
\* assigns it to a range of the word: the word is read ...
ReadWord(a) ==
  LET c == copy[a] IN
  /\ c.out
  /\ j[a] < Words(c)
  /\ Partial /\ held[a] = NoWord
  /\ held' = [held EXCEPT ![a] =
       [x \in 0..WordBytes - 1 |-> mem[FirstByte(c, j[a]) + x]]]
  /\ UNCHANGED <<unaligned, limits, copy, j, local, mem, exposed>>

\* ... and stored with its range changed.  Without the options the buffer is the word.
TurnOut(a) ==
  LET c == copy[a]
      first == FirstByte(c, j[a])
      buffer == [x \in 0..WordBytes - 1 |->
        IF Skipped(c, j[a], x \div c.elem) THEN Junk
        ELSE ThroughRaw(c, x, local[a][LocalByte(c, j[a], x)], Zero)]
      word == [x \in 0..WordBytes - 1 |->
        IF x \in Written(c, j[a]) THEN buffer[x] ELSE held[a][x]] IN
  /\ c.out
  /\ j[a] < Words(c)
  /\ Partial => held[a] # NoWord
  /\ mem' = [b \in Bytes |->
       IF b - first \in 0..WordBytes - 1 THEN word[b - first] ELSE mem[b]]
  /\ held' = [held EXCEPT ![a] = NoWord]
  /\ exposed' = exposed \cup
       {b \in Bytes : /\ b - first \in Written(c, j[a])
                      /\ \E o \in Accs \ {a} : Holds(o, b)}
  /\ j' = [j EXCEPT ![a] = @ + 1]
  /\ UNCHANGED <<unaligned, limits, copy, local>>

Next == \E a \in Accs : TurnIn(a) \/ ReadWord(a) \/ TurnOut(a)

Spec == Init /\ [][Next]_vars

--------------------------------------------------------------------------------
\* The loops stay within the words of the memory, a word is held only in a turn of a
\* copy out, and the options do not change.
TypeOK ==
  /\ unaligned \in BOOLEAN /\ limits \in BOOLEAN
  /\ copy \in [Accs -> Copies]
  /\ \A a \in Accs : j[a] \in 0..Words(copy[a])
  /\ \A a \in Accs : j[a] > 0 => FirstByte(copy[a], j[a] - 1) + WordBytes <= MemBytes
  /\ \A a \in Accs : held[a] # NoWord => copy[a].out /\ j[a] < Words(copy[a])
  /\ exposed \subseteq Bytes

Done(a) == j[a] = Words(copy[a])

\* Byte i of the local array is in its place in memory.
InPlace(a, i) ==
  LET b == copy[a].addr + i IN
  IF copy[a].out THEN mem[b] = LocalInit(a, i) ELSE local[a][i] = MemInit(b)

\* What the option for unaligned arrays promises: a copy that is over has moved its
\* array.
Moved == \A a \in Accs : Done(a) => \A b \in Array(copy[a]) : InPlace(a, b - copy[a].addr)

\* A copy that is over has moved the bytes of its array to their places, and they are
\* still there, wherever in a word the array begins and ends and whatever the other
\* wrappers copy.  It does so for the bytes that the integer elements go through holds,
\* and, of a copy out, for those that it did not store while another wrapper was
\* between the read and the store of the same word.
CopyComplete ==
  \A a \in Accs : Done(a) =>
    \A b \in Array(copy[a]) :
      \/ (b - copy[a].addr) % copy[a].elem >= RawBytes
      \/ copy[a].out /\ b \in exposed
      \/ InPlace(a, b - copy[a].addr)

\* What byte b of the memory may be: what it was, or what the copy out of its array
\* stores.
MayBe(b, v) ==
  \/ v = MemInit(b)
  \/ \E a \in Accs :
       /\ copy[a].out /\ b \in Array(copy[a])
       /\ v = ThroughRaw(copy[a], b - copy[a].addr, LocalInit(a, b - copy[a].addr), Zero)

\* At no moment does a copy put anything in memory that is not of the array of a copy
\* out, at its place, although it stores words it shares with other arrays and had read
\* before; nor touches a byte outside of its local array.
NothingElse ==
  /\ \A b \in Bytes : MayBe(b, mem[b])
  /\ \A a \in Accs : \A b \in LocalBytes :
       local[a][b] # LocalInit(a, b) => ~copy[a].out /\ b \in 0..copy[a].len * copy[a].elem - 1
================================================================================
