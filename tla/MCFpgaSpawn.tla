------------------------------- MODULE MCFpgaSpawn ------------------------------
(* Instances of FpgaSpawn for TLC.                                           *)
EXTENDS FpgaSpawn

\* A child with one argument, and one that also has a dependence and a copy.
MCShapes == {[deps |-> 0, copies |-> 0, args |-> 1],
             [deps |-> 1, copies |-> 1, args |-> 1]}
================================================================================
