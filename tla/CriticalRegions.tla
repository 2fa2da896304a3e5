---------------------------- MODULE CriticalRegions ----------------------------
(***************************************************************************)
(* What a lock promises to the code that uses it: a critical region named  *)
(* after a lock is held by at most one accelerator.  Nothing here says how *)
(* the lock is requested, refused or retried.                              *)
(***************************************************************************)
CONSTANTS Accs,   \* accelerators that run tasks
          Locks   \* names of the critical regions

VARIABLE held     \* held[a]: the regions accelerator a is inside of

Init == held = [a \in Accs |-> {}]

Enter(a, l) ==
  /\ \A b \in Accs : l \notin held[b]
  /\ held' = [held EXCEPT ![a] = @ \cup {l}]

Leave(a, l) ==
  /\ l \in held[a]
  /\ held' = [held EXCEPT ![a] = @ \ {l}]

Next == \E a \in Accs, l \in Locks : Enter(a, l) \/ Leave(a, l)

Spec == Init /\ [][Next]_held

\* No two accelerators are inside the region of one lock.
Exclusion == \A a, b \in Accs : a # b => held[a] \cap held[b] = {}
================================================================================
