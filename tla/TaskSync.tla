---------------------------- MODULE TaskSync ----------------------------
(***************************************************************************)
(* The analysis that finds where the tasks of a function synchronise       *)
(* (tl/analysis/pcfg/tl-task-sync.cpp).  It walks the control flow graph   *)
(* depth first, pass after pass, propagating the set of tasks that may     *)
(* still be alive at every node, until no outgoing set changes; it records *)
(* for each task its points of synchronisation, and turns them into edges  *)
(* of the graph at the end.                                                *)
(*                                                                         *)
(* The recursion of the walk is an agenda: the visits still owed, the next *)
(* one first.  A "leave" entry is the rest of the visit of a graph node,   *)
(* after the nodes inside it.                                              *)
(*                                                                         *)
(* A program is a record:                                                  *)
(*   kind   node -> what the node is                                       *)
(*   succ   node -> its successors, in order, task edges left out          *)
(*   entry, exit   graph or task node -> the node its inside starts and    *)
(*          ends with                                                      *)
(*   task   creation node -> the task node it creates                      *)
(*   env    task or waiton node -> its dependences, in clause order        *)
(*   expr   the tasks made of a TaskExpression                             *)
(*   root   the graph node of the whole function                           *)
(*   owner  node -> the task or the root whose code it is (not in the code)*)
(* with the nodes that can be reached, which are those the walk sees.      *)
(* A dependence is a record [dep, ref]; a reference is a record            *)
(* [sym, form, restrict].                                                  *)
(***************************************************************************)
EXTENDS Integers, Sequences, FiniteSets, Functions

CONSTANTS Programs,
          PostSync   \* the virtual node tasks that outlive the function go to

NodeKinds == {"code", "entry", "exit", "graph", "task", "create", "taskwait",
              "barrier", "waiton"}

\* The least set with the members of start and, with x, those of step[x].
Spread(start, step) ==
  LET walk[i \in 0..Cardinality(DOMAIN step)] ==
        IF i = 0 THEN [seen |-> start, front |-> start]
        ELSE LET w == walk[i - 1]
                 new == (UNION {step[x] : x \in w.front}) \ w.seen
             IN  [seen |-> w.seen \cup new, front |-> new]
  IN  walk[Cardinality(DOMAIN step)].seen

\* A graph as the construction of the control flow graph leaves it: a graph or
\* a task has an entry, which no edge leads to, and an exit of its own; edges
\* stay in the code of a task or of the function.
IsProgram(p) ==
  LET nodes == DOMAIN p.kind
      having(k) == {n \in nodes : p.kind[n] = k}
      inner == having("graph") \cup having("task")
      onward == [n \in nodes |->
                   Range(p.succ[n])
                   \cup {p.entry[g] : g \in inner \cap {n}}
                   \cup {p.task[c] : c \in having("create") \cap {n}}]
  IN  /\ IsFiniteSet(nodes)
      /\ p.kind \in [nodes -> NodeKinds]
      /\ p.succ \in [nodes -> Seq(nodes)]
      /\ p.entry \in [inner -> nodes]
      /\ p.exit \in [inner -> nodes]
      /\ p.task \in [having("create") -> having("task")]
      /\ p.root \in having("graph")
      /\ PostSync \notin nodes
      /\ \A g \in inner : p.kind[p.entry[g]] = "entry" /\ p.kind[p.exit[g]] = "exit"
      /\ \A g, h \in inner : p.entry[g] = p.entry[h] \/ p.exit[g] = p.exit[h] => g = h
      /\ \A c, d \in having("create") : p.task[c] = p.task[d] => c = d
      /\ \A n \in nodes : \A m \in Range(p.succ[n]) :
           p.kind[m] # "entry" /\ p.owner[m] = p.owner[n]
      /\ p.owner \in [nodes -> having("task") \cup {p.root}]
      /\ p.owner[p.root] = p.root
      /\ \A g \in having("graph") : \A n \in {p.entry[g], p.exit[g]} :
           p.owner[n] = p.owner[g]
      /\ \A t \in having("task") : \A n \in {p.entry[t], p.exit[t]} : p.owner[n] = t
      /\ \A c \in having("create") : p.owner[p.task[c]] = p.owner[c]
      /\ nodes \subseteq Spread({p.root}, onward)

ASSUME ProgramsAssumption == \A p \in Programs : IsProgram(p)

VARIABLES prog,       \* the graph under analysis
          phase,      \* "passes", "connect", "post", "done"
          agenda,     \* what the recursion still has to do
          visited,    \* nodes seen in this pass
          changed,    \* an outgoing set changed in this pass
          nextDomain, \* next_domain_id
          liveIn, liveOut,  \* node -> alive tasks, each with its domain
          points,     \* points_of_sync: task -> {<<node, kind>>}
          dead,       \* dead_tasks_before_sync
          edges       \* synchronisation edges <<task, node, kind>>

vars == <<prog, phase, agenda, visited, changed, nextDomain, liveIn, liveOut,
          points, dead, edges>>

-----------------------------------------------------------------------------
(* The graph *)
Nodes == DOMAIN prog.kind
OfKind(k) == {n \in Nodes : prog.kind[n] = k}
Tasks == OfKind("task")
Creations == OfKind("create")
Preds(n) == {p \in Nodes : \E i \in DOMAIN prog.succ[p] : prog.succ[p][i] = n}

-----------------------------------------------------------------------------
(* Dependences *)

Refs(e, deps) == {e[i].ref : i \in {j \in DOMAIN e : e[j].dep \in deps}}
Reads(n)    == Refs(prog.env[n], {"in", "inout", "commutative"})
Writes(n)   == Refs(prog.env[n], {"out", "inout", "commutative"})

\* Disjunction of ternary values.
Some(values) == IF "yes" \in values THEN "yes"
                ELSE IF "unknown" \in values THEN "unknown" ELSE "no"

may_have_dependence(s, t) ==
  CASE "invalid" \in {s.form, t.form} -> "unknown"
    [] s.form = "symbol" /\ t.form = "symbol" ->
         IF s.sym = t.sym THEN "yes" ELSE "no"
    [] s.form = "shaping" /\ t.form = "shaping" ->
         IF ~s.restrict THEN "unknown"
         ELSE IF s.sym = t.sym THEN "yes" ELSE "no"
    [] s.form = "subobject" /\ t.form = "subobject" /\ s.sym # t.sym -> "no"
    [] OTHER -> "unknown"

\* Does task s synchronise when task t is created?
TaskRel(s, t) ==
  IF {s, t} \cap prog.expr # {} THEN "unknown"
  ELSE Some({may_have_dependence(r, w) : r \in Reads(s), w \in Writes(t)}
            \cup {may_have_dependence(w, r) : w \in Writes(s),
                  r \in Reads(t) \cup Writes(t)})

\* all_targets_are_inputs.  What one dependence of the source has matched so
\* far is kept from one dependence of the target to the next.
OnlyInputsMatch(s, t) ==
  ~ \E w \in Writes(s), i \in DOMAIN prog.env[t] :
      /\ prog.env[t][i].ref \in Writes(t)
      /\ \E j \in 1..i : may_have_dependence(w, prog.env[t][j].ref) # "no"

\* Mutants: a maybe is enough to expire; an unrelated task expires too.
MutExpiringMaybe(alive, t) == {s \in alive : /\ {s, t} \cap prog.expr = {}
                                             /\ TaskRel(s, t) # "no"
                                             /\ OnlyInputsMatch(s, t)}
MutExpiringUnrelated(alive, t) == {s \in alive : /\ {s, t} \cap prog.expr = {}
                                                 /\ OnlyInputsMatch(s, t)}

\* The tasks of the set alive that t's creation turns into dead ones.
Expiring(alive, t) == {s \in alive : /\ {s, t} \cap prog.expr = {}
                                     /\ TaskRel(s, t) = "yes"
                                     /\ OnlyInputsMatch(s, t)}

\* Do the dependences of task s and of the wait w match?
Matches(s, w) == Some({may_have_dependence(a, b) :
                         a \in Refs(prog.env[s], {"in", "out", "inout"}),
                         b \in Refs(prog.env[w], {"inout"})})

\* Does task s synchronise at the taskwait with dependences w?
WaitRel(s, w) ==
  CASE s \in prog.expr -> "unknown"
    [] s \notin prog.expr /\ s \in dead -> "no"
    [] OTHER -> Matches(s, w)

-----------------------------------------------------------------------------
(* What is recorded for the alive tasks of a node *)

\* Mutant: any recorded point will do.
MutAddPoint(known, p, kind) == IF known # {} THEN known ELSE {<<p, kind>>}

AddPoint(known, p, kind) ==
  IF \E q \in known : q[1] = p THEN known ELSE known \cup {<<p, kind>>}

KindOf(rel) == IF rel = "yes" THEN "static" ELSE "maybe"

\* The relation of an alive item with node n of domain d, rel being that of
\* tasks of the same domain.
ItemRel(item, d, rel) == IF item[2] = d THEN rel[item[1]] ELSE "no"

\* set_sync_relationship for every item of alive: the tasks that may
\* synchronise get the point p ...
PointsAfterSync(alive, d, rel, p) ==
  [s \in Tasks |->
     IF <<s, d>> \in alive /\ rel[s] # "no"
     THEN AddPoint(points[s], p, KindOf(rel[s]))
     ELSE points[s]]

\* ... and only those that certainly do are not alive afterwards.  keep_alive
\* is false in every call: compute_task_sync_relationship decides it in a
\* parameter of its own.
AliveAfterSync(alive, d, rel) == {item \in alive : ItemRel(item, d, rel) # "yes"}

\* A taskwait, or a barrier, synchronises with the tasks of waited.
PointsAfterWait(waited, n) ==
  [s \in Tasks |->
     CASE s \notin waited -> points[s]
       [] s \in waited \ dead -> points[s] \cup {<<n, "static">>}
       [] s \in waited \cap dead -> IF \E q \in points[s] : points[s] = {q}
                                    THEN {<<q[1], "static">> : q \in points[s]}
                                    ELSE points[s]]

-----------------------------------------------------------------------------
(* One visit of compute_task_synchronizations_rec *)

NewIn(n) == IF prog.kind[n] = "entry" THEN liveIn[n]
            ELSE liveIn[n] \cup UNION {liveOut[p] : p \in Preds(n)}

\* The visits the exit edges of n owe; a creation's task edge comes first.
Onward(n, d) ==
  LET visits == [i \in DOMAIN prog.succ[n] |-> <<"visit", prog.succ[n][i], d>>]
  IN  IF prog.kind[n] = "create"
      THEN <<<<"visit", prog.task[n], d>>>> \o visits
      ELSE visits

\* The visit of node n, next on the agenda, is the first one of this pass.
Arrive(n, kind) ==
  /\ Head(agenda)[1] = "visit"
  /\ n \notin visited
  /\ prog.kind[n] = kind
  /\ visited' = visited \cup {n}

\* Mutants: only the last visit of the pass counts; a node with alive tasks
\* always counts as changed.
MutDepartLast(n, d, out) ==
  /\ liveOut' = [liveOut EXCEPT ![n] = out]
  /\ changed' = (out # liveOut[n])
  /\ agenda' = Onward(n, d) \o Tail(agenda)
  /\ UNCHANGED <<prog, phase, edges>>
MutDepartAlive(n, d, out) ==
  /\ liveOut' = [liveOut EXCEPT ![n] = out]
  /\ changed' = (changed \/ out # {})
  /\ agenda' = Onward(n, d) \o Tail(agenda)
  /\ UNCHANGED <<prog, phase, edges>>

\* The visit of a node with nothing inside ends: its outgoing set is out.
Depart(n, d, out) ==
  /\ liveOut' = [liveOut EXCEPT ![n] = out]
  /\ changed' = (changed \/ out # liveOut[n])
  /\ agenda' = Onward(n, d) \o Tail(agenda)
  /\ UNCHANGED <<prog, phase, edges>>

Revisit(n) ==
  /\ Head(agenda)[1] = "visit"
  /\ n \in visited
  /\ agenda' = Tail(agenda)
  /\ UNCHANGED <<prog, phase, visited, changed, nextDomain, liveIn, liveOut,
                 points, dead, edges>>

VisitTask(n, d) ==
  /\ Arrive(n, "task")
  /\ liveIn' = [liveIn EXCEPT ![n] = NewIn(n)]
  /\ nextDomain' = nextDomain + 1
  /\ agenda' = <<<<"visit", prog.entry[n], nextDomain>>>>
                 \o Onward(n, d) \o Tail(agenda)
  /\ UNCHANGED <<prog, phase, changed, liveOut, points, dead, edges>>

VisitGraph(n, d) ==
  /\ Arrive(n, "graph")
  /\ liveIn' = [liveIn EXCEPT ![n] = NewIn(n), ![prog.entry[n]] = NewIn(n)]
  /\ agenda' = <<<<"visit", prog.entry[n], d>>, <<"leave", n, d>>>> \o Tail(agenda)
  /\ UNCHANGED <<prog, phase, changed, nextDomain, liveOut, points, dead, edges>>

LeaveGraph(n, d) ==
  /\ Head(agenda)[1] = "leave"
  /\ Depart(n, d, liveOut[prog.exit[n]])
  /\ UNCHANGED <<visited, nextDomain, liveIn, points, dead>>

VisitBarrier(n, d) ==
  /\ Arrive(n, "barrier")
  /\ liveIn' = [liveIn EXCEPT ![n] = NewIn(n)]
  /\ points' = PointsAfterWait({item[1] : item \in NewIn(n)}, n)
  /\ Depart(n, d, {})
  /\ UNCHANGED <<nextDomain, dead>>

\* A taskwait without dependences, or a call of a function that waits.
VisitTaskwait(n, d) ==
  /\ Arrive(n, "taskwait")
  /\ liveIn' = [liveIn EXCEPT ![n] = NewIn(n)]
  /\ points' = PointsAfterWait({s \in Tasks : <<s, d>> \in NewIn(n)}, n)
  /\ Depart(n, d, {item \in NewIn(n) : item[2] # d})
  /\ UNCHANGED <<nextDomain, dead>>

VisitWaiton(n, d) ==
  LET rel == [s \in Tasks |-> WaitRel(s, n)]
  IN  /\ Arrive(n, "waiton")
      /\ liveIn' = [liveIn EXCEPT ![n] = NewIn(n)]
      /\ points' = PointsAfterSync(NewIn(n), d, rel, n)
      /\ Depart(n, d, liveOut[n] \cup AliveAfterSync(NewIn(n), d, rel))
      /\ UNCHANGED <<nextDomain, dead>>

\* The creation of task t: what is alive where t ends is alive after it too.
VisitCreation(n, d) ==
  LET t == prog.task[n]
      rel == [s \in Tasks |-> TaskRel(s, t)]
  IN  /\ Arrive(n, "create")
      /\ liveIn' = [liveIn EXCEPT ![n] = NewIn(n)]
      /\ points' = PointsAfterSync(NewIn(n), d, rel, t)
      /\ dead' = dead \cup Expiring({s \in Tasks : <<s, d>> \in NewIn(n)}, t)
      /\ Depart(n, d, liveOut[n] \cup AliveAfterSync(NewIn(n), d, rel)
                      \cup {<<t, d>>} \cup liveIn[prog.exit[t]])
      /\ UNCHANGED nextDomain

\* Every other node, the entries and the exits included.
VisitOther(n, d) ==
  /\ \E k \in {"code", "entry", "exit"} : Arrive(n, k)
  /\ liveIn' = [liveIn EXCEPT ![n] = NewIn(n)]
  /\ Depart(n, d, NewIn(n))
  /\ UNCHANGED <<nextDomain, points, dead>>

Visit ==
  /\ phase = "passes"
  /\ agenda # << >>
  /\ LET n == Head(agenda)[2]
         d == Head(agenda)[3]
     IN  \/ Revisit(n)
         \/ VisitTask(n, d)
         \/ VisitGraph(n, d)
         \/ LeaveGraph(n, d)
         \/ VisitBarrier(n, d)
         \/ VisitTaskwait(n, d)
         \/ VisitWaiton(n, d)
         \/ VisitCreation(n, d)
         \/ VisitOther(n, d)

-----------------------------------------------------------------------------
(* compute_task_synchronization_labels *)

Walk == <<<<"visit", prog.root, 0>>>>

\* A pass is over: another one unless nothing changed.
EndPass ==
  /\ phase = "passes"
  /\ agenda = << >>
  /\ visited' = {}
  /\ IF changed
     THEN /\ changed' = FALSE
          /\ nextDomain' = 1
          /\ agenda' = Walk
          /\ UNCHANGED phase
     ELSE /\ phase' = "connect"
          /\ UNCHANGED <<changed, nextDomain, agenda>>
  /\ UNCHANGED <<prog, liveIn, liveOut, points, dead, edges>>

Connect ==
  /\ phase = "connect"
  /\ phase' = "post"
  /\ edges' = UNION {{<<s, p[1], p[2]>> : p \in points[s]} : s \in Tasks}
  /\ UNCHANGED <<prog, agenda, visited, changed, nextDomain, liveIn, liveOut,
                 points, dead>>

AliveAtEnd == {item[1] : item \in liveIn[prog.exit[prog.root]]}

\* purge_exit_live_in_tasks_rec: dead tasks do not outlive the function, and
\* the one edge of a dead task becomes static.
Purged(es) ==
  {<<e[1], e[2],
     IF e[1] \in AliveAtEnd \cap dead /\ (\A f \in es : f[1] = e[1] => f = e)
     THEN "static" ELSE e[3]>> : e \in es}

ConnectPost ==
  /\ phase = "post"
  /\ phase' = "done"
  /\ edges' = Purged(edges) \cup {<<s, PostSync, "post">> : s \in AliveAtEnd \ dead}
  /\ UNCHANGED <<prog, agenda, visited, changed, nextDomain, liveIn, liveOut,
                 points, dead>>

Init ==
  /\ prog \in Programs
  /\ phase = "passes"
  /\ agenda = Walk
  /\ visited = {}
  /\ changed = FALSE
  /\ nextDomain = 1
  /\ liveIn = [n \in Nodes |-> {}]
  /\ liveOut = [n \in Nodes |-> {}]
  /\ points = [s \in Tasks |-> {}]
  /\ dead = {}
  /\ edges = {}

Next == Visit \/ EndPass \/ Connect \/ ConnectPost

Spec == Init /\ [][Next]_vars /\ WF_vars(Next)

-----------------------------------------------------------------------------
(* What the analysis promises *)

Kinds == {"static", "maybe"}
Items == Tasks \X Nat

Entries == ({"visit"} \X Nodes \X Nat) \cup ({"leave"} \X OfKind("graph") \X Nat)

\* The state has its types; only a graph node is ever left.
TypeOK ==
  /\ phase \in {"passes", "connect", "post", "done"}
  /\ agenda \in Seq(Entries)
  /\ visited \subseteq Nodes
  /\ changed \in BOOLEAN
  /\ nextDomain \in Nat
  /\ liveIn \in [Nodes -> SUBSET Items]
  /\ liveOut \in [Nodes -> SUBSET Items]
  /\ points \in [Tasks -> SUBSET (Nodes \X Kinds)]
  /\ dead \subseteq Tasks
  /\ edges \subseteq Tasks \X (Nodes \cup {PostSync}) \X (Kinds \cup {"post"})

(* A reference definition of the tasks alive at a node: those with a walk
   from their creation to it on which nothing synchronises them for certain.
   A position is a node and the side, "in" or "out", of it.  A taskwait with
   dependences does not stop a task that has expired, and whether one has
   when it comes there depends on the order of the visits: expired is the set
   of the tasks that pass such a wait. *)

SameCode(t, n) == \E c \in Creations : /\ prog.task[c] = t
                                       /\ prog.owner[c] = prog.owner[n]

Outlives(t, n, expired) ==
  CASE prog.kind[n] = "barrier"  -> FALSE
    [] prog.kind[n] = "taskwait" -> ~SameCode(t, n)
    [] prog.kind[n] = "waiton"   ->
         SameCode(t, n) /\ Matches(t, n) = "yes" => t \in expired \cup prog.expr
    [] prog.kind[n] = "create"   ->
         SameCode(t, n) => TaskRel(t, prog.task[n]) # "yes"
    [] OTHER -> TRUE

Positions == Nodes \X {"in", "out"}

\* The positions that follow position q in the program.
Ways(q) ==
  LET n == q[1]
  IN  IF q[2] = "in"
      THEN (CASE prog.kind[n] = "graph" -> {<<prog.entry[n], "in">>}
              [] prog.kind[n] = "task"  -> {}
              [] OTHER -> {<<n, "out">>})
      ELSE {<<m, "in">> : m \in Range(prog.succ[n])}
           \cup {<<g, "out">> : g \in {h \in OfKind("graph") : prog.exit[h] = n}}
           \cup {<<c, "out">> : c \in {b \in Creations : prog.exit[prog.task[b]] = n}}

\* Those a task that is at q goes on to.
Forward(t, q, expired) ==
  IF q[2] = "in" /\ ~Outlives(t, q[1], expired) THEN {} ELSE Ways(q)

Born(t) == {<<c, "out">> : c \in {b \in Creations : prog.task[b] = t}}

Reached(t, expired) ==
  Spread(Born(t), [q \in Positions |-> Forward(t, q, expired)])

Alive(set) == {item[1] : item \in set}

\* When the passes end, the alive tasks of every node are exactly those some
\* walk leaves alive there, whatever the order of the visits was: a pass too
\* few loses tasks, a stale domain or set keeps false ones.  Of the expired
\* tasks there are no fewer than if waits with dependences stopped them, and no
\* more than if they did not.
AliveExact ==
  phase = "connect" =>
    LET least == [t \in Tasks |-> Reached(t, {})]
        most  == [t \in Tasks |-> IF t \in dead THEN Reached(t, dead) ELSE least[t]]
    IN  \A n \in Nodes, t \in Tasks :
          /\ <<n, "in">> \in least[t] => t \in Alive(liveIn[n])
          /\ t \in Alive(liveIn[n]) => <<n, "in">> \in most[t]
          /\ <<n, "out">> \in least[t] => t \in Alive(liveOut[n])
          /\ t \in Alive(liveOut[n]) => <<n, "out">> \in most[t]

\* At the end, a task a walk brings alive to a node of its own code that may
\* synchronise it has an edge to it.  Tasks that expired are left out of the
\* waits without dependences.
EverySyncFound ==
  phase = "done" =>
    LET reached == [t \in Tasks |-> Reached(t, {})]
        linked(t, p) == \E e \in edges : e[1] = t /\ e[2] = p
    IN  \A n \in Nodes, t \in Tasks :
          <<n, "in">> \in reached[t] =>
            CASE prog.kind[n] = "create" ->
                   SameCode(t, n) /\ TaskRel(t, prog.task[n]) # "no"
                     => linked(t, prog.task[n])
              [] prog.kind[n] = "waiton" ->
                   SameCode(t, n) /\ WaitRel(t, n) # "no" => linked(t, n)
              [] prog.kind[n] = "taskwait" ->
                   SameCode(t, n) /\ t \notin dead => linked(t, n)
              [] prog.kind[n] = "barrier" -> t \notin dead => linked(t, n)
              [] OTHER -> TRUE

\* Does task s synchronise for certain at p?
Certain(s, p) ==
  CASE prog.kind[p] = "task" -> TaskRel(s, p) = "yes"
    [] prog.kind[p] = "waiton" -> Matches(s, p) = "yes"
    [] OTHER -> prog.kind[p] \in {"taskwait", "barrier"}

\* A synchronisation is only called static when the dependences, or a wait,
\* make it certain: neither the waits nor the purge at the end, that turn the
\* one synchronisation of an expired task into a static one, promote a maybe.
StaticIsCertain ==
  /\ \A s \in Tasks : \A q \in points[s] : q[2] = "static" => Certain(s, q[1])
  /\ \A e \in edges : e[3] = "static" => Certain(e[1], e[2])

\* Does some walk lead from the creation c to the end of the function?
Returns(c) ==
  <<prog.exit[prog.root], "in">> \in
    Spread({<<c, "out">>}, [q \in Positions |-> Ways(q)])

\* No task is forgotten: at the end each one whose creation does not loop for
\* ever has an edge to where it synchronises or to the virtual node after the
\* function.
EveryTaskSyncs ==
  phase = "done" =>
    \A c \in Creations :
      Returns(c) => \A t \in Alive(liveOut[c]) : \E e \in edges : e[1] = t

\* The passes end, on graphs with cycles and nested tasks too.
Terminates == <>(phase = "done")

-----------------------------------------------------------------------------
(* What the comments of the analysis say and it does not do *)

\* The nodes that task s is ordered before by synchronisation edges.
After(s) ==
  LET reach[i \in 0..Cardinality(Tasks)] ==
        LET r == IF i = 0 THEN {} ELSE reach[i - 1]
        IN  r \cup {e[2] : e \in {f \in edges : f[1] \in r \cup {s}}}
  IN  reach[Cardinality(Tasks)]

\* The nodes a walk from n reaches without a wait.
Later(n) ==
  LET ahead(set) == UNION {Range(prog.succ[m]) : m \in set}
      reach[i \in 0..Cardinality(Nodes)] ==
        IF i = 0 THEN ahead({n})
        ELSE LET r == reach[i - 1]
             IN  r \cup ahead({m \in r : prog.kind[m] \notin {"taskwait", "barrier"}})
  IN  reach[Cardinality(Nodes)]

\* A task created later in straight line code, with a certain dependence on
\* an earlier task of the same code, is ordered after it (635-640: a task
\* synchronised with an input dependence is kept alive for later ones).
DependencesOrdered ==
  phase = "done" =>
    \A n, m \in Creations :
      (/\ prog.owner[m] = prog.owner[n]
       /\ m \in Later(n)
       /\ TaskRel(prog.task[n], prog.task[m]) = "yes")
        => prog.task[m] \in After(prog.task[n])
=============================================================================
