----------------------------- MODULE MCFpgaWrapper ------------------------------
(* Instances of FpgaWrapper for TLC.                                         *)
EXTENDS FpgaWrapper

CONSTANTS x, y, z  \* three memory regions

Scalar(n) == <<n, 0, <<>>>>

Task(arg, in, out, parent) ==
  [arg |-> arg, in |-> in, out |-> out, parent |-> parent, comp |-> TRUE,
   periodic |-> FALSE, reps |-> 1, cancelAt |-> -1]

\* A producer of x, two tasks that use x at the same time (one of them periodic and
\* cancelled in its second repetition), a periodic task that updates x when both
\* are done, and a command that only moves data.
MCTasks == <<
  Task(<<x, y, Scalar(7)>>, {}, {1}, 100),
  [Task(<<x, y, Scalar(8)>>, {1, 2}, {2}, 101)
     EXCEPT !.periodic = TRUE, !.reps = Forever, !.cancelAt = 1],
  Task(<<x, z, Scalar(9)>>, {1}, {2}, 100),
  [Task(<<x, z, Scalar(9)>>, {1}, {1}, 101) EXCEPT !.periodic = TRUE, !.reps = 2],
  [Task(<<y, x, Scalar(7)>>, {1}, {1}, 100) EXCEPT !.comp = FALSE] >>

\* One task whose arguments may arrive in any order.
MCOneTask == <<Task(<<x, y, Scalar(7)>>, {1, 2}, {2}, 100)>>
================================================================================
