-------------------------------- MODULE ForkJoin --------------------------------
(***************************************************************************)
(* What task creation and taskwait promise: a parent opens child tasks,    *)
(* each completes once, and a join of the parent ends only when none of    *)
(* its children is open.                                                   *)
(***************************************************************************)
CONSTANTS Parents,  \* tasks that create children
          Children  \* names of the children

VARIABLES open,     \* open[p]: children of p that have not completed
          joining   \* parents inside a taskwait

vars == <<open, joining>>

Init ==
  /\ open = [p \in Parents |-> {}]
  /\ joining = {}

Spawn(p, c) ==
  /\ p \notin joining
  /\ \A q \in Parents : c \notin open[q]
  /\ open' = [open EXCEPT ![p] = @ \cup {c}]
  /\ UNCHANGED joining

Complete(p, c) ==
  /\ c \in open[p]
  /\ open' = [open EXCEPT ![p] = @ \ {c}]
  /\ UNCHANGED joining

BeginJoin(p) ==
  /\ p \notin joining
  /\ joining' = joining \cup {p}
  /\ UNCHANGED open

EndJoin(p) ==
  /\ p \in joining
  /\ open[p] = {}
  /\ joining' = joining \ {p}
  /\ UNCHANGED open

Next ==
  \E p \in Parents :
    \/ \E c \in Children : Spawn(p, c) \/ Complete(p, c)
    \/ BeginJoin(p)
    \/ EndJoin(p)

Spec == Init /\ [][Next]_vars
================================================================================
