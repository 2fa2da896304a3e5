--------------------------- MODULE MCTaskSync ---------------------------
(* Small programs for TaskSync: a few slots, the edges between them and    *)
(* the code of the task of the first slot.                                 *)
EXTENDS TaskSync

CONSTANTS First,      \* what the first slot may hold
          Slots,      \* what the other slots may hold
          Inside,     \* what the code of the first slot's task may hold
          Shapes,     \* the slots that follow each slot, in order
          Length      \* slots of a program

Symbol(s) == [sym |-> s, form |-> "symbol", restrict |-> FALSE]
Pointed(s) == [sym |-> s, form |-> "shaping", restrict |-> FALSE]
Dep(d, r) == [dep |-> d, ref |-> r]

\* The contents of a slot: the kind of its node and its dependences.
Plain(k) == [kind |-> k, env |-> << >>, expr |-> FALSE]
Create(e) == [kind |-> "create", env |-> e, expr |-> FALSE]
OutX == Create(<<Dep("out", Symbol("x"))>>)
InX == Create(<<Dep("in", Symbol("x"))>>)
InXOutY == Create(<<Dep("in", Symbol("x")), Dep("out", Symbol("y"))>>)
InOutP == Create(<<Dep("inout", Pointed("p"))>>)
FromExpr == [Create(<<Dep("out", Symbol("x"))>>) EXCEPT !.expr = TRUE]
WaitOnX == [kind |-> "waiton", env |-> <<Dep("inout", Symbol("x"))>>, expr |-> FALSE]

AllFirst == {OutX, InXOutY, InOutP, FromExpr, WaitOnX}
AllSlots == {Plain("taskwait"), Plain("barrier"), OutX, InX, InOutP, WaitOnX}
AllInside == {Plain("code"), OutX}

\* The slot after the last one stands for the exit.
Line    == <<<<2>>, <<3>>, <<4>>>>
Skip    == <<<<2, 3>>, <<3>>, <<4>>>>
DoWhile == <<<<2>>, <<3>>, <<4, 1>>>>
While   == <<<<2, 3>>, <<1>>, <<4>>>>
OwnLoop == <<<<2>>, <<3, 2>>, <<4>>>>
Nested  == <<<<2>>, <<3>>, <<4, 1, 2>>>>
AllShapes == {Line, Skip, DoWhile, While, OwnLoop, Nested}

\* For the run about straight line code.
SomeTasks == {OutX, InX, InXOutY}
JustCode == {Plain("code")}
Straight == {Line}
TasksOrWait == SomeTasks \cup {Plain("taskwait")}

\* The nodes: 0 the root, 1 and 2 its entry and exit, 3..5 the graph node, the
\* entry and the exit of the context the slots lie in, 10 * i the node of slot
\* i, followed by its task, its entry and its exit; 14 a node inside the task
\* of slot 1, followed by a task, its entry and its exit.
Node(i) == 10 * i
ProgramOf(line, inside, shape) ==
  LET creates == {i \in 1..Length : line[i].kind = "create"}
      nested == 1 \in creates
      deep == nested /\ inside.kind = "create"
      tasks == {Node(i) + 1 : i \in creates} \cup (IF deep THEN {15} ELSE {})
      slotOf(n) == IF n = 14 THEN inside ELSE line[n \div 10]
      nodes == 0..5 \cup {Node(i) : i \in 1..Length} \cup (IF nested THEN {14} ELSE {})
               \cup UNION {{t, t + 1, t + 2} : t \in tasks}
      kind(n) == CASE n \in {0, 3} -> "graph"
                   [] n \in {1, 4} -> "entry"
                   [] n \in {2, 5} -> "exit"
                   [] n \in tasks -> "task"
                   [] n - 1 \in tasks -> "entry"
                   [] n - 2 \in tasks -> "exit"
                   [] OTHER -> slotOf(n).kind
      next(n) == CASE n = 1 -> <<3>>
                   [] n = 3 -> <<2>>
                   [] n = 4 -> <<Node(1)>>
                   [] n = 12 -> <<14>>
                   [] n = 14 -> <<13>>
                   [] n - 1 \in tasks -> <<n + 1>>
                   [] n % 10 = 0 /\ n > 0 ->
                        [j \in DOMAIN shape[n \div 10] |->
                           IF shape[n \div 10][j] > Length THEN 5
                           ELSE Node(shape[n \div 10][j])]
                   [] OTHER -> << >>
      owner(n) == CASE n \in 0..5 \/ n % 10 \in {0, 1} -> 0
                    [] n \in {16, 17} -> 15
                    [] OTHER -> 10 * (n \div 10) + 1
  IN  [kind |-> [n \in nodes |-> kind(n)],
       succ |-> [n \in nodes |-> next(n)],
       entry |-> [n \in {0, 3} \cup tasks |-> n + 1],
       exit |-> [n \in {0, 3} \cup tasks |-> n + 2],
       task |-> [n \in {t - 1 : t \in tasks} |-> n + 1],
       env |-> [n \in tasks \cup {m \in nodes : kind(m) = "waiton"} |->
                  IF n \in tasks THEN slotOf(n - 1).env ELSE slotOf(n).env],
       expr |-> {t \in tasks : slotOf(t - 1).expr},
       owner |-> [n \in nodes |-> owner(n)],
       root |-> 0]

\* The program of a slot 1 that creates no task is the same whatever inside.
MCPrograms ==
  {ProgramOf(line, inside, shape) :
     line \in {l \in [1..Length -> First \cup Slots] :
                 l[1] \in First /\ \A i \in 2..Length : l[i] \in Slots},
     inside \in Inside, shape \in Shapes}
=============================================================================
