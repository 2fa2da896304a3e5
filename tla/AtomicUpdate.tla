-------------------------- MODULE AtomicUpdate --------------------------
(***************************************************************************)
(* What the atomic constructs on one location become                       *)
(* (tl/omp/lowering-common/tl-omp-lowering-atomics.cpp, and the visitor of *)
(* omp/nanox-nodecl/tl-lower-atomic.cpp that dispatches on it): a builtin  *)
(* of the native compiler, a loop around a compare-and-swap, or a critical *)
(* region.  Threads update the location at the same time.                  *)
(*                                                                         *)
(* A statement is a record [kind, lhs, rhs]: the kind of its expression    *)
(* and the types of the location and of the operand.  Values stand for the *)
(* contents of the location, bit by bit: the swap compares the bits, also  *)
(* those of a floating point number.                                       *)
(***************************************************************************)
EXTENDS Naturals

CONSTANTS Threads,
          Locations,    \* each the statements that update one location
          Values, NoValue,
          One,          \* the operand of an increment
          Apply(_, _, _), \* kind of expression, value, operand -> new value
          NoThread, NoStatement, Idle,
          MaxUpdates    \* bound: updates of a thread

Increments == {"preincrement", "postincrement", "predecrement", "postdecrement"}
Fetchable == {"add_assignment", "minus_assignment", "bitwise_and_assignment",
              "bitwise_or_assignment", "bitwise_xor_assignment"}
Exchangeable == Fetchable \cup {"mul_assignment", "div_assignment",
                  "bitwise_shl_assignment", "arithmetic_shr_assignment",
                  "bitwise_shr_assignment"}
Kinds == Increments \cup Exchangeable \cup {"assignment"}
Numeric == {"integral", "floating"}
Statements == [kind : Kinds, lhs : Numeric \cup {"other"}, rhs : Numeric \cup {"other"}]

ASSUME LocationsAssumption == \A l \in Locations : l \subseteq Statements
ASSUME ValuesAssumption == /\ One \in Values
                           /\ NoValue \notin Values
                           /\ \A k \in Kinds, v, a \in Values : Apply(k, v, a) \in Values
ASSUME OthersAssumption == NoThread \notin Threads /\ MaxUpdates \in Nat
ASSUME IdleAssumption == \A k \in Kinds, a \in Values \cup {NoValue} :
                           [kind |-> k, arg |-> a] # Idle

VARIABLES updates,  \* the statements of the location
          x,        \* its value
          lock,     \* the thread in nanos_default_critical_lock
          pc, stmt, \* thread -> where it is, and in which statement
          temp,     \* thread -> __temp or __tmp
          old, new, \* thread -> __oldval and __newval
          done      \* thread -> updates finished

vars == <<updates, x, lock, pc, stmt, temp, old, new, done>>

-----------------------------------------------------------------------------
(* allowed_expression_atomic and the choice made of its answer *)

Allowed(s) == /\ s.lhs \in Numeric
              /\ \/ s.kind \in Increments
                 \/ s.kind \in Exchangeable /\ s.rhs \in Numeric

UsesBuiltin(s) == s.lhs = "integral" /\ s.kind \in Increments \cup Fetchable

Lowering(s) == IF ~Allowed(s) THEN "critical"
               ELSE IF UsesBuiltin(s) THEN "builtin" ELSE "exchange"

\* Where a statement goes when it has its operand.
Operate(s) == IF Lowering(s) = "builtin" THEN "fetch" ELSE "load"

-----------------------------------------------------------------------------

Goto(t, p) == pc' = [pc EXCEPT ![t] = p]

\* The statement ends, and what is local to its block with it.
Forget(t) == /\ stmt' = [stmt EXCEPT ![t] = NoStatement]
             /\ temp' = [temp EXCEPT ![t] = NoValue]
             /\ old' = [old EXCEPT ![t] = NoValue]
             /\ new' = [new EXCEPT ![t] = NoValue]

Finish(t) == /\ Goto(t, "idle")
             /\ Forget(t)
             /\ done' = [done EXCEPT ![t] = @ + 1]

\* The thread reaches one of the statements.
Start(t) ==
  /\ pc[t] = "idle"
  /\ done[t] < MaxUpdates
  /\ \E s \in updates :
       /\ stmt' = [stmt EXCEPT ![t] = s]
       /\ \/ /\ Lowering(s) = "critical"
             /\ Goto(t, "lock")
             /\ temp' = [temp EXCEPT ![t] = NoValue]
          \/ /\ Lowering(s) # "critical"
             /\ s.kind \in Increments
             /\ Goto(t, Operate(s))
             /\ temp' = [temp EXCEPT ![t] = One]
          \/ /\ Lowering(s) # "critical"
             /\ s.kind \notin Increments
             /\ Goto(t, "operand")
             /\ temp' = [temp EXCEPT ![t] = NoValue]
  /\ UNCHANGED <<updates, x, lock, old, new, done>>

\* type __temp = rhs, before the loop, or before the builtin.
Operand(t) ==
  /\ pc[t] = "operand"
  /\ \E a \in Values : temp' = [temp EXCEPT ![t] = a]
  /\ Goto(t, Operate(stmt[t]))
  /\ UNCHANGED <<updates, x, lock, stmt, old, new, done>>

\* __sync_<op>_and_fetch
Fetch(t) ==
  /\ pc[t] = "fetch"
  /\ x' = Apply(stmt[t].kind, x, temp[t])
  /\ Finish(t)
  /\ UNCHANGED <<updates, lock>>

\* The body of the loop reads the location once: the read is volatile.
Load(t) ==
  /\ pc[t] = "load"
  /\ old' = [old EXCEPT ![t] = x]
  /\ new' = [new EXCEPT ![t] = Apply(stmt[t].kind, x, temp[t])]
  /\ Goto(t, "swap")
  /\ UNCHANGED <<updates, x, lock, stmt, temp, done>>

\* Mutants: the swap compares nothing; the loop does not read again.
MutSwapBlind(t) ==
  /\ pc[t] = "swap"
  /\ x' = new[t]
  /\ Finish(t)
  /\ UNCHANGED <<updates, lock>>
MutSwapHoisted(t) ==
  /\ pc[t] = "swap"
  /\ \/ /\ x = old[t]
        /\ x' = new[t]
        /\ Finish(t)
     \/ /\ x # old[t]
        /\ UNCHANGED <<x, pc, stmt, temp, old, new, done>>
  /\ UNCHANGED <<updates, lock>>

\* while (!__sync_bool_compare_and_swap(...))
Swap(t) ==
  /\ pc[t] = "swap"
  /\ \/ /\ x = old[t]
        /\ x' = new[t]
        /\ Finish(t)
     \/ /\ x # old[t]
        /\ Goto(t, "load")
        /\ UNCHANGED <<x, stmt, temp, old, new, done>>
  /\ UNCHANGED <<updates, lock>>

\* emit_critical_region: nanos_set_lock, the statement, nanos_unset_lock.
Enter(t) ==
  /\ pc[t] = "lock"
  /\ lock = NoThread
  /\ lock' = t
  /\ Goto(t, "region")
  /\ UNCHANGED <<updates, x, stmt, temp, old, new, done>>

Compute(t) ==
  /\ pc[t] = "region"
  /\ \E a \in Values :
       /\ temp' = [temp EXCEPT ![t] = a]
       /\ new' = [new EXCEPT ![t] = Apply(stmt[t].kind, x, a)]
  /\ Goto(t, "store")
  /\ UNCHANGED <<updates, x, lock, stmt, old, done>>

Store(t) ==
  /\ pc[t] = "store"
  /\ x' = new[t]
  /\ Goto(t, "unlock")
  /\ UNCHANGED <<updates, lock, stmt, temp, old, new, done>>

Leave(t) ==
  /\ pc[t] = "unlock"
  /\ lock' = NoThread
  /\ Finish(t)
  /\ UNCHANGED <<updates, x>>

Init ==
  /\ updates \in Locations
  /\ x \in Values
  /\ lock = NoThread
  /\ pc = [t \in Threads |-> "idle"]
  /\ stmt = [t \in Threads |-> NoStatement]
  /\ temp = [t \in Threads |-> NoValue]
  /\ old = [t \in Threads |-> NoValue]
  /\ new = [t \in Threads |-> NoValue]
  /\ done = [t \in Threads |-> 0]

\* A step of an update that has begun.
Step(t) == \/ Operand(t) \/ Fetch(t) \/ Load(t) \/ Swap(t)
           \/ Enter(t) \/ Compute(t) \/ Store(t) \/ Leave(t)

Next == \E t \in Threads : Start(t) \/ Step(t)

Spec == Init /\ [][Next]_vars /\ \A t \in Threads : WF_vars(Step(t))

-----------------------------------------------------------------------------
(* Properties *)

Places == {"idle", "operand", "fetch", "load", "swap", "lock", "region",
           "store", "unlock"}

\* The state has its types.
TypeOK ==
  /\ updates \in Locations
  /\ x \in Values
  /\ lock \in Threads \cup {NoThread}
  /\ pc \in [Threads -> Places]
  /\ stmt \in [Threads -> Statements \cup {NoStatement}]
  /\ temp \in [Threads -> Values \cup {NoValue}]
  /\ old \in [Threads -> Values \cup {NoValue}]
  /\ new \in [Threads -> Values \cup {NoValue}]
  /\ done \in [Threads -> 0..MaxUpdates]

\* The update a thread has called and that has not taken effect.
CallOf == [t \in Threads |->
             IF pc[t] \in {"idle", "unlock"} THEN Idle
             ELSE [kind |-> stmt[t].kind, arg |-> temp[t]]]

Abstract == INSTANCE AtomicLocation WITH value <- x, call <- CallOf

\* Every update is atomic: the location only changes by an update applied to
\* the value it has, with an operand evaluated once, however the exchange was
\* retried.  Builtins and exchanges may be mixed on a location; critical regions
\* may not be mixed with them (Separate), which the code does not prevent.
ImplementsAtomicLocation == Abstract!Spec

\* Every update ends: a swap that fails means that another one succeeded, and
\* there are only so many.
UpdatesEnd == \A t \in Threads : pc[t] # "idle" ~> pc[t] = "idle"

\* No location is updated both inside of critical regions and without them.
Separate ==
  \A l \in Locations : \/ \A s \in l : Lowering(s) = "critical"
                       \/ \A s \in l : Lowering(s) # "critical"
=============================================================================
