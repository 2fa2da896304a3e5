---------------------------- MODULE MCFpgaRef ---------------------------
(* Elements of two bytes, and accelerators that are alike, for FpgaRef. *)
EXTENDS FpgaRef, TLC

\* Two values that differ in one byte.
MCComputed == {[k \in 0..ElemSize - 1 |-> IF k = 0 THEN b ELSE 1] : b \in ByteValues}

Alike == Permutations(Accs)
=============================================================================
