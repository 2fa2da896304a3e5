-------------------------- MODULE ElementStore --------------------------
(* What the pointers to an array in shared memory promise to those that     *)
(* assign to its elements: an assignment names an element, has its right     *)
(* operand evaluated (perhaps from another element, perhaps by a function    *)
(* that assigns too), and then changes that element.  Elements that lie      *)
(* near to it may go back to what they were when the assignment began.  One  *)
(* whose right operand is left a reference changes nothing.                  *)
EXTENDS Naturals, Sequences

CONSTANTS Accs, Elems, Values, NoValue, NoElem,
          Computed,  \* the values that right operands compute
          Near       \* element -> those near to it

VARIABLES cells,  \* element -> its value
          calls   \* accelerator -> assignments under way, the innermost first

Init == /\ cells \in [Elems -> Computed]
        /\ calls = [a \in Accs |-> <<>>]

\* The right operand is evaluated.
Ready(call) == call.value # NoValue \/ call.isRef

Begin(a) ==
  /\ calls[a] # <<>> => ~Ready(Head(calls[a]))
  /\ \E e \in Elems :
       calls' = [calls EXCEPT ![a] =
                   <<[elem |-> e, seen |-> [f \in Near[e] |-> cells[f]],
                      from |-> NoElem, value |-> NoValue, isRef |-> FALSE]>> \o @]
  /\ UNCHANGED cells

Right(a, f, v, ref) ==
  LET call == Head(calls[a]) IN
  calls' = [calls EXCEPT ![a] =
              <<[elem |-> call.elem, seen |-> call.seen,
                 from |-> f, value |-> v, isRef |-> ref]>> \o Tail(@)]

\* The right operand: a value that is computed, or that of an element, or a reference
\* to an element.
Operand(a) ==
  /\ calls[a] # <<>>
  /\ ~Ready(Head(calls[a]))
  /\ \/ \E v \in Computed : Right(a, NoElem, v, FALSE)
     \/ \E f \in Elems : Right(a, f, cells[f], FALSE) \/ Right(a, f, NoValue, TRUE)
  /\ UNCHANGED cells

End(a) ==
  LET call == Head(calls[a]) IN
  /\ calls[a] # <<>>
  /\ Ready(call)
  /\ \/ call.isRef /\ UNCHANGED cells
     \/ /\ ~call.isRef
        /\ \E back \in SUBSET Near[call.elem] :
             cells' = [e \in Elems |-> IF e = call.elem THEN call.value
                                      ELSE IF e \in back THEN call.seen[e] ELSE cells[e]]
  /\ calls' = [calls EXCEPT ![a] = Tail(@)]

Next == \E a \in Accs : Begin(a) \/ Operand(a) \/ End(a)

Spec == Init /\ [][Next]_<<cells, calls>>
=============================================================================
