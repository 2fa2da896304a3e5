------------------------- MODULE AtomicLocation -------------------------
(* What "omp atomic" promises of one location of the shared memory: an      *)
(* update is called, evaluates its operand once, and takes effect in one    *)
(* step on whatever value the location has then.                            *)
CONSTANTS Threads, Values, NoValue, Idle, Kinds, Apply(_, _, _)

VARIABLES value,  \* of the location
          call    \* thread -> Idle, or the update it has called

Init == /\ value \in Values
        /\ call = [t \in Threads |-> Idle]

Call(t) ==
  /\ call[t] = Idle
  /\ \E k \in Kinds, a \in Values \cup {NoValue} :
       call' = [call EXCEPT ![t] = [kind |-> k, arg |-> a]]
  /\ UNCHANGED value

Operand(t) ==
  /\ call[t] # Idle
  /\ call[t].arg = NoValue
  /\ \E a \in Values : call' = [call EXCEPT ![t] = [kind |-> call[t].kind, arg |-> a]]
  /\ UNCHANGED value

Effect(t) ==
  /\ call[t] # Idle
  /\ call[t].arg # NoValue
  /\ value' = Apply(call[t].kind, value, call[t].arg)
  /\ call' = [call EXCEPT ![t] = Idle]

Next == \E t \in Threads : Call(t) \/ Operand(t) \/ Effect(t)

Spec == Init /\ [][Next]_<<value, call>>
=============================================================================
