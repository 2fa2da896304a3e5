---------------------------- MODULE TaskSyncProofs ----------------------------
(***************************************************************************)
(* For any set of programs: the state of the analysis has its types, a     *)
(* synchronisation is only called static when it is certain, and what the  *)
(* analysis promises of the alive tasks, of their synchronisations and of  *)
(* the tasks without one holds.                                            *)
(*                                                                         *)
(* The argument has four parts.  IInv: an expired task always has a static *)
(* synchronisation, so promoting its only one changes nothing.  WalkInv:   *)
(* the order of the visits is the same in every pass, so that a domain     *)
(* stands for one code; a pass drops no node.  LiveInv: an alive task has  *)
(* come along a walk of the reference, and a pass without a change has     *)
(* propagated and recorded all that its nodes have.  At the end of such a  *)
(* pass the positions where a task is alive are closed under the steps of  *)
(* the reference, of which it is the least solution.                       *)
(***************************************************************************)
EXTENDS TaskSync, FiniteSetTheorems, WellFoundedInduction, TLAPS

\* The kind recorded for a task and a task it synchronises with is the one
\* their dependences give.
PointKinds ==
  \A s \in Tasks : \A q \in points[s] :
    prog.kind[q[1]] = "task" => q[2] = KindOf(TaskRel(s, q[1]))

\* Expired tasks have a static synchronisation.
DeadHaveStatic ==
  \A s \in dead : \E q \in points[s] : q[2] = "static"

\* The edges made before the tasks that outlive the function are treated.
EdgesHaveStatic ==
  phase = "post" => \A s \in dead : \E e \in edges : e[1] = s /\ e[3] = "static"

\* The inductive invariant.
IInv ==
  /\ prog \in Programs
  /\ TypeOK
  /\ StaticIsCertain
  /\ PointKinds
  /\ DeadHaveStatic
  /\ EdgesHaveStatic

\* The shape of the program, in the words of the state.
LEMMA Shape ==
  ASSUME prog \in Programs
  PROVE  /\ prog.kind \in [Nodes -> NodeKinds]
         /\ prog.succ \in [Nodes -> Seq(Nodes)]
         /\ \A n \in Nodes : prog.kind[n] \in {"graph", "task"} =>
               prog.entry[n] \in Nodes /\ prog.exit[n] \in Nodes
         /\ \A n \in Nodes : prog.kind[n] = "create" =>
               /\ prog.task[n] \in Nodes
               /\ prog.kind[prog.task[n]] = "task"
               /\ prog.task[n] \in Tasks
         /\ prog.root \in Nodes /\ prog.kind[prog.root] = "graph"
         /\ PostSync \notin Nodes
<1>1. IsProgram(prog)
  BY ProgramsAssumption
<1>2. /\ prog.kind \in [Nodes -> NodeKinds]
      /\ prog.succ \in [Nodes -> Seq(Nodes)]
      /\ prog.root \in Nodes /\ prog.kind[prog.root] = "graph"
      /\ PostSync \notin Nodes
  BY <1>1 DEF IsProgram, Nodes
<1>3. \A n \in Nodes : prog.kind[n] \in {"graph", "task"} =>
        prog.entry[n] \in Nodes /\ prog.exit[n] \in Nodes
  BY <1>1 DEF IsProgram, Nodes
<1>4. \A n \in Nodes : prog.kind[n] = "create" =>
        prog.task[n] \in Nodes /\ prog.kind[prog.task[n]] = "task"
  BY <1>1 DEF IsProgram, Nodes
<1>5. \A n \in Nodes : prog.kind[n] = "task" => n \in Tasks
  BY DEF Tasks, OfKind
<1> QED
  BY <1>2, <1>3, <1>4, <1>5

\* Initially nothing is recorded.
LEMMA InitIInv == Init => IInv
<1> SUFFICES ASSUME Init PROVE IInv
  OBVIOUS
<1>1. prog \in Programs
  BY DEF Init
<1>2. TypeOK
  <2>1. <<"visit", prog.root, 0>> \in Entries
    BY <1>1, Shape DEF Entries
  <2>2. agenda \in Seq(Entries)
    BY <2>1 DEF Init, Walk
  <2> QED
    BY <2>2 DEF Init, TypeOK, Items
<1>3. StaticIsCertain /\ PointKinds /\ DeadHaveStatic /\ EdgesHaveStatic
  BY DEF Init, StaticIsCertain, PointKinds, DeadHaveStatic, EdgesHaveStatic
<1> QED
  BY <1>1, <1>2, <1>3 DEF IInv

-----------------------------------------------------------------------------
(* The agenda *)

\* The visit under way is of a node, in a domain that has a number.
LEMMA HeadTypes ==
  ASSUME TypeOK, agenda # << >>
  PROVE  /\ Head(agenda)[2] \in Nodes
         /\ Head(agenda)[3] \in Nat
         /\ Tail(agenda) \in Seq(Entries)
         /\ Head(agenda)[1] = "leave" => prog.kind[Head(agenda)[2]] = "graph"
<1>1. agenda \in Seq(Entries)
  BY DEF TypeOK
<1>2. Head(agenda) \in Entries /\ Tail(agenda) \in Seq(Entries)
  BY <1>1
<1> QED
  BY <1>2 DEF Entries, OfKind

\* The visits a node owes are entries of the agenda.
LEMMA OnwardTypes ==
  ASSUME prog \in Programs, NEW n \in Nodes, NEW d \in Nat
  PROVE  Onward(n, d) \in Seq(Entries)
<1> DEFINE visits == [i \in DOMAIN prog.succ[n] |-> <<"visit", prog.succ[n][i], d>>]
<1>1. visits \in Seq(Entries)
  <2>1. prog.succ[n] \in Seq(Nodes)
    BY Shape
  <2>2. PICK k \in Nat : DOMAIN prog.succ[n] = 1..k
    BY <2>1
  <2>3. \A i \in 1..k : prog.succ[n][i] \in Nodes
    BY <2>1, <2>2
  <2>4. visits \in [1..k -> Entries]
    BY <2>2, <2>3 DEF Entries
  <2> QED
    BY <2>4
<1>2. CASE prog.kind[n] = "create"
  <2>1. <<"visit", prog.task[n], d>> \in Entries
    BY <1>2, Shape DEF Entries
  <2>2. Onward(n, d) = <<<<"visit", prog.task[n], d>>>> \o visits
    BY <1>2 DEF Onward
  <2> QED
    BY <1>1, <2>1, <2>2
<1>3. CASE prog.kind[n] # "create"
  BY <1>1, <1>3 DEF Onward
<1> QED
  BY <1>2, <1>3

-----------------------------------------------------------------------------
(* The points of synchronisation *)

Rels == {"yes", "unknown", "no"}

\* What the invariant says of points p and expired tasks e.
GoodPoints(p, e) ==
  /\ p \in [Tasks -> SUBSET (Nodes \X Kinds)]
  /\ \A s \in Tasks : \A q \in p[s] : q[2] = "static" => Certain(s, q[1])
  /\ \A s \in Tasks : \A q \in p[s] :
       prog.kind[q[1]] = "task" => q[2] = KindOf(TaskRel(s, q[1]))
  /\ \A s \in e : \E q \in p[s] : q[2] = "static"

\* The invariant says it of the points and the expired tasks of the state.
LEMMA StateGood == IInv => GoodPoints(points, dead)
BY DEF IInv, TypeOK, StaticIsCertain, PointKinds, DeadHaveStatic, GoodPoints

\* A disjunction of ternary values is a ternary value.
LEMMA SomeType == \A v : Some(v) \in Rels
BY DEF Some, Rels

\* So are the relations of a task with a task and with a taskwait.
LEMMA RelTypes ==
  \A s, t : TaskRel(s, t) \in Rels /\ WaitRel(s, t) \in Rels
<1> SUFFICES ASSUME NEW s, NEW t
             PROVE  TaskRel(s, t) \in Rels /\ WaitRel(s, t) \in Rels
  OBVIOUS
<1>1. TaskRel(s, t) \in Rels
  <2> DEFINE v == {may_have_dependence(r, w) : r \in Reads(s), w \in Writes(t)}
                  \cup {may_have_dependence(w, r) : w \in Writes(s),
                        r \in Reads(t) \cup Writes(t)}
  <2>1. Some(v) \in Rels
    BY SomeType
  <2>2. "unknown" \in Rels
    BY DEF Rels
  <2>3. TaskRel(s, t) = IF {s, t} \cap prog.expr # {} THEN "unknown" ELSE Some(v)
    BY DEF TaskRel
  <2> HIDE DEF v
  <2> QED
    BY <2>1, <2>2, <2>3
<1>2. WaitRel(s, t) \in Rels
  <2>1. Matches(s, t) \in Rels
    BY SomeType DEF Matches
  <2>2. "unknown" \in Rels /\ "no" \in Rels
    BY DEF Rels
  <2>3. CASE s \in prog.expr
    BY <2>2, <2>3 DEF WaitRel
  <2>4. CASE s \notin prog.expr /\ s \in dead
    BY <2>2, <2>4 DEF WaitRel
  <2>5. CASE s \notin prog.expr /\ s \notin dead
    <3>1. WaitRel(s, t) = Matches(s, t)
      BY <2>5 DEF WaitRel
    <3> QED
      BY <2>1, <3>1
  <2> QED
    BY <2>3, <2>4, <2>5
<1> QED
  BY <1>1, <1>2

\* A taskwait with dependences certainly synchronises a task only when their
\* dependences make it certain.
LEMMA WaitRelCertain ==
  ASSUME NEW s, NEW n, prog.kind[n] = "waiton", WaitRel(s, n) = "yes"
  PROVE  Certain(s, n)
<1>1. WaitRel(s, n) = IF s \in prog.expr THEN "unknown"
                      ELSE IF s \in dead THEN "no" ELSE Matches(s, n)
  <2>1. CASE s \in prog.expr
    BY <2>1 DEF WaitRel
  <2>2. CASE s \notin prog.expr /\ s \in dead
    BY <2>2 DEF WaitRel
  <2>3. CASE s \notin prog.expr /\ s \notin dead
    BY <2>3 DEF WaitRel
  <2> QED
    BY <2>1, <2>2, <2>3
<1>2. Matches(s, n) = "yes"
  BY <1>1
<1> QED
  BY <1>2 DEF Certain

\* A synchronisation with tasks or with a taskwait with dependences keeps
\* what was recorded, and records what the relation says.
LEMMA SyncPoints ==
  ASSUME NEW e, GoodPoints(points, e), NEW alive, NEW d,
         NEW rel \in [Tasks -> Rels], NEW p \in Nodes,
         \/ /\ prog.kind[p] = "task"
            /\ \A s \in Tasks : rel[s] = TaskRel(s, p)
         \/ /\ prog.kind[p] = "waiton"
            /\ \A s \in Tasks : rel[s] = "yes" => Certain(s, p)
  PROVE  GoodPoints(PointsAfterSync(alive, d, rel, p), e \cap Tasks)
<1> DEFINE P == PointsAfterSync(alive, d, rel, p)
<1>1. ASSUME NEW s \in Tasks
      PROVE  P[s] = points[s] \/ P[s] = points[s] \cup {<<p, KindOf(rel[s])>>}
  BY <1>1 DEF PointsAfterSync, AddPoint
<1>2. \A s \in Tasks : KindOf(rel[s]) \in Kinds
  BY DEF KindOf, Kinds
<1>3. P \in [Tasks -> SUBSET (Nodes \X Kinds)]
  <2>1. ASSUME NEW s \in Tasks PROVE P[s] \in SUBSET (Nodes \X Kinds)
    BY <1>1, <1>2, <2>1 DEF GoodPoints
  <2> QED
    BY <2>1 DEF PointsAfterSync
<1>4. ASSUME NEW s \in Tasks, KindOf(rel[s]) = "static" PROVE Certain(s, p)
  <2>1. rel[s] = "yes"
    BY <1>4 DEF KindOf
  <2> QED
    BY <2>1 DEF Certain
<1>5. ASSUME NEW s \in Tasks, NEW q \in P[s], q[2] = "static" PROVE Certain(s, q[1])
  <2>1. CASE q \in points[s]
    BY <1>5, <2>1 DEF GoodPoints
  <2>2. CASE q = <<p, KindOf(rel[s])>>
    BY <1>4, <1>5, <2>2
  <2> QED
    BY <1>1, <1>5, <2>1, <2>2
<1>6. ASSUME NEW s \in Tasks, NEW q \in P[s], prog.kind[q[1]] = "task"
      PROVE  q[2] = KindOf(TaskRel(s, q[1]))
  <2>1. CASE q \in points[s]
    BY <1>6, <2>1 DEF GoodPoints
  <2>2. CASE q = <<p, KindOf(rel[s])>>
    BY <1>6, <2>2
  <2> QED
    BY <1>1, <1>6, <2>1, <2>2
<1>7. ASSUME NEW s \in e \cap Tasks PROVE \E q \in P[s] : q[2] = "static"
  BY <1>1, <1>7 DEF GoodPoints
<1> QED
  BY <1>3, <1>5, <1>6, <1>7 DEF GoodPoints

\* A wait without dependences keeps it too.
LEMMA WaitPoints ==
  ASSUME GoodPoints(points, dead), dead \subseteq Tasks,
         NEW waited, NEW n \in Nodes, prog.kind[n] \in {"taskwait", "barrier"}
  PROVE  GoodPoints(PointsAfterWait(waited, n), dead)
<1> DEFINE P == PointsAfterWait(waited, n)
<1>1. ASSUME NEW s \in Tasks
      PROVE  \/ P[s] = points[s]
             \/ P[s] = points[s] \cup {<<n, "static">>} /\ s \notin dead
             \/ /\ s \in dead
                /\ \E q \in points[s] : points[s] = {q} /\ P[s] = {<<q[1], "static">>}
  <2>1. CASE s \notin waited
    BY <2>1 DEF PointsAfterWait
  <2>2. CASE s \in waited \ dead
    BY <2>2 DEF PointsAfterWait
  <2>3. CASE s \in waited \cap dead
    <3>1. P[s] = IF \E q \in points[s] : points[s] = {q}
                 THEN {<<q[1], "static">> : q \in points[s]} ELSE points[s]
      BY <2>3 DEF PointsAfterWait
    <3>2. CASE \E q \in points[s] : points[s] = {q}
      <4>1. PICK q \in points[s] : points[s] = {q}
        BY <3>2
      <4>2. P[s] = {<<q[1], "static">>}
        BY <3>1, <3>2, <4>1
      <4> QED
        BY <2>3, <4>1, <4>2
    <3> QED
      BY <3>1, <3>2
  <2> QED
    BY <2>1, <2>2, <2>3
<1>2. ASSUME NEW s \in dead, NEW q \in points[s], points[s] = {q},
             P[s] = {<<q[1], "static">>}
      PROVE  P[s] = points[s]
  <2>1. q[2] = "static"
    BY <1>2 DEF GoodPoints
  <2>2. q \in Nodes \X Kinds
    BY <1>2 DEF GoodPoints
  <2>3. q = <<q[1], "static">>
    BY <2>1, <2>2
  <2> QED
    BY <1>2, <2>3
<1>3. ASSUME NEW s \in Tasks
      PROVE  P[s] = points[s] \/ P[s] = points[s] \cup {<<n, "static">>}
  BY <1>1, <1>2, <1>3
<1>4. P \in [Tasks -> SUBSET (Nodes \X Kinds)]
  <2>1. ASSUME NEW s \in Tasks PROVE P[s] \in SUBSET (Nodes \X Kinds)
    BY <1>3, <2>1 DEF GoodPoints, Kinds
  <2> QED
    BY <2>1 DEF PointsAfterWait
<1>5. ASSUME NEW s \in Tasks, NEW q \in P[s], q[2] = "static" PROVE Certain(s, q[1])
  <2>1. CASE q \in points[s]
    BY <1>5, <2>1 DEF GoodPoints
  <2>2. CASE q = <<n, "static">>
    BY <2>2 DEF Certain
  <2> QED
    BY <1>3, <1>5, <2>1, <2>2
<1>6. ASSUME NEW s \in Tasks, NEW q \in P[s], prog.kind[q[1]] = "task"
      PROVE  q[2] = KindOf(TaskRel(s, q[1]))
  <2>1. CASE q \in points[s]
    BY <1>6, <2>1 DEF GoodPoints
  <2>2. CASE q = <<n, "static">>
    BY <1>6, <2>2
  <2> QED
    BY <1>3, <1>6, <2>1, <2>2
<1>7. ASSUME NEW s \in dead PROVE \E q \in P[s] : q[2] = "static"
  BY <1>3, <1>7 DEF GoodPoints
<1> QED
  BY <1>4, <1>5, <1>6, <1>7 DEF GoodPoints

\* A task that the creation of t makes expire is recorded as static there.
LEMMA ExpiringHaveStatic ==
  ASSUME GoodPoints(points, dead), NEW alive, NEW d, NEW t \in Tasks,
         NEW rel \in [Tasks -> Rels], \A s \in Tasks : rel[s] = TaskRel(s, t),
         NEW s \in Tasks, <<s, d>> \in alive, TaskRel(s, t) = "yes"
  PROVE  \E q \in PointsAfterSync(alive, d, rel, t)[s] : q[2] = "static"
<1> DEFINE P == PointsAfterSync(alive, d, rel, t)
<1>1. P[s] = AddPoint(points[s], t, "static")
  <2>1. rel[s] = "yes" /\ KindOf(rel[s]) = "static"
    BY DEF KindOf
  <2>2. P[s] = IF <<s, d>> \in alive /\ rel[s] # "no"
               THEN AddPoint(points[s], t, KindOf(rel[s])) ELSE points[s]
    BY DEF PointsAfterSync
  <2>3. P[s] = AddPoint(points[s], t, KindOf(rel[s]))
    BY <2>1, <2>2
  <2> QED
    BY <2>1, <2>3
<1>2. CASE \E q \in points[s] : q[1] = t
  <2>1. PICK q \in points[s] : q[1] = t
    BY <1>2
  <2>2. prog.kind[t] = "task"
    BY DEF Tasks, OfKind
  <2>3. q[2] = KindOf(TaskRel(s, t))
    BY <2>1, <2>2 DEF GoodPoints
  <2>4. q[2] = "static"
    BY <2>3 DEF KindOf
  <2>5. P[s] = points[s]
    BY <1>1, <1>2 DEF AddPoint
  <2> QED
    BY <2>4, <2>5
<1>3. CASE ~ \E q \in points[s] : q[1] = t
  <2>1. P[s] = points[s] \cup {<<t, "static">>}
    BY <1>1, <1>3 DEF AddPoint
  <2>2. <<t, "static">> \in P[s] /\ <<t, "static">>[2] = "static"
    BY <2>1
  <2> QED
    BY <2>2
<1> QED
  BY <1>2, <1>3

-----------------------------------------------------------------------------
(* The steps of a pass *)

\* While the program stays, so do its nodes, tasks and relations.
LEMMA SameProgram ==
  ASSUME prog' = prog
  PROVE  /\ Nodes' = Nodes /\ Tasks' = Tasks /\ Items' = Items /\ Entries' = Entries
         /\ \A s, p : Certain(s, p)' = Certain(s, p)
         /\ \A s, p : TaskRel(s, p)' = TaskRel(s, p)
BY DEF Nodes, Tasks, OfKind, Items, Entries, Certain, Matches, TaskRel, Reads, Writes, Refs

\* What a visit must establish for the invariant to hold after it.
LEMMA StepInv ==
  ASSUME IInv, prog' = prog, phase' = "passes", edges' = edges,
         agenda' \in Seq(Entries), visited' \subseteq Nodes,
         changed' \in BOOLEAN, nextDomain' \in Nat,
         liveIn' \in [Nodes -> SUBSET Items], liveOut' \in [Nodes -> SUBSET Items],
         dead' \subseteq Tasks, GoodPoints(points', dead')
  PROVE  IInv'
<1>1. prog' \in Programs
  BY DEF IInv
<1>2. TypeOK'
  BY SameProgram DEF IInv, TypeOK, GoodPoints
<1>3. StaticIsCertain'
  <2>1. ASSUME NEW s \in Tasks', NEW q \in points'[s], q[2] = "static"
        PROVE  Certain(s, q[1])'
    BY <2>1, SameProgram DEF GoodPoints
  <2>2. ASSUME NEW e \in edges', e[3] = "static" PROVE Certain(e[1], e[2])'
    BY <2>2, SameProgram DEF IInv, StaticIsCertain
  <2> QED
    BY <2>1, <2>2 DEF StaticIsCertain
<1>4. PointKinds'
  <2>1. ASSUME NEW s \in Tasks', NEW q \in points'[s], prog'.kind[q[1]] = "task"
        PROVE  q[2] = KindOf(TaskRel(s, q[1])')
    BY <2>1, SameProgram DEF GoodPoints
  <2> QED
    BY <2>1 DEF PointKinds, KindOf
<1>5. DeadHaveStatic'
  BY DEF DeadHaveStatic, GoodPoints
<1>6. EdgesHaveStatic'
  BY DEF EdgesHaveStatic
<1> QED
  BY <1>1, <1>2, <1>3, <1>4, <1>5, <1>6 DEF IInv

\* What is alive before a node are tasks with their domains.
LEMMA NewInType ==
  ASSUME IInv, NEW n \in Nodes
  PROVE  NewIn(n) \in SUBSET Items
<1>1. /\ liveIn \in [Nodes -> SUBSET Items] /\ liveOut \in [Nodes -> SUBSET Items]
  BY DEF IInv, TypeOK
<1>2. Preds(n) \subseteq Nodes
  BY DEF Preds
<1> QED
  BY <1>1, <1>2 DEF NewIn

\* Concatenations on the agenda.
LEMMA AgendaTypes ==
  ASSUME NEW a \in Seq(Entries), NEW b \in Seq(Entries), NEW x \in Entries,
         NEW y \in Entries
  PROVE  /\ a \o b \in Seq(Entries)
         /\ <<x>> \o a \o b \in Seq(Entries)
         /\ <<x, y>> \o a \in Seq(Entries)
<1>1. a \o b \in Seq(Entries) /\ <<x>> \in Seq(Entries) /\ <<x, y>> \in Seq(Entries)
  OBVIOUS
<1>2. <<x>> \o a \in Seq(Entries)
  BY <1>1
<1> QED
  BY <1>1, <1>2

\* A node with nothing inside ends its visit.
LEMMA DepartTypes ==
  ASSUME IInv, phase = "passes", agenda # << >>, NEW n \in Nodes, NEW d \in Nat,
         NEW out \in SUBSET Items, Depart(n, d, out)
  PROVE  /\ prog' = prog /\ phase' = "passes" /\ edges' = edges
         /\ agenda' \in Seq(Entries)
         /\ changed' \in BOOLEAN
         /\ liveOut' \in [Nodes -> SUBSET Items]
<1>1. Tail(agenda) \in Seq(Entries) /\ Onward(n, d) \in Seq(Entries)
  BY HeadTypes, OnwardTypes DEF IInv
<1>2. agenda' \in Seq(Entries)
  BY <1>1 DEF Depart
<1>3. liveOut' \in [Nodes -> SUBSET Items] /\ changed' \in BOOLEAN
  BY DEF Depart, IInv, TypeOK
<1> QED
  BY <1>2, <1>3 DEF Depart

\* A node is visited for the first time, with what is alive before it.
LEMMA ArriveTypes ==
  ASSUME IInv, NEW n \in Nodes, NEW k, Arrive(n, k),
         liveIn' = [liveIn EXCEPT ![n] = NewIn(n)]
  PROVE  visited' \subseteq Nodes /\ liveIn' \in [Nodes -> SUBSET Items]
<1>1. NewIn(n) \in SUBSET Items
  BY NewInType
<1> QED
  BY <1>1 DEF Arrive, IInv, TypeOK

\* Every visit of a pass keeps the invariant.
LEMMA VisitKeeps ==
  ASSUME IInv, Visit
  PROVE  IInv'
<1> DEFINE n == Head(agenda)[2]
           d == Head(agenda)[3]
<1>1. phase = "passes" /\ agenda # << >>
  BY DEF Visit
<1>2. n \in Nodes /\ d \in Nat /\ Tail(agenda) \in Seq(Entries)
  BY <1>1, HeadTypes DEF IInv
<1>3. \/ Revisit(n) \/ VisitTask(n, d) \/ VisitGraph(n, d) \/ LeaveGraph(n, d)
      \/ VisitBarrier(n, d) \/ VisitTaskwait(n, d) \/ VisitWaiton(n, d)
      \/ VisitCreation(n, d) \/ VisitOther(n, d)
  BY DEF Visit
<1>4. GoodPoints(points, dead) /\ dead \subseteq Tasks
  BY StateGood DEF IInv, TypeOK
<1>5. /\ visited \subseteq Nodes /\ changed \in BOOLEAN /\ nextDomain \in Nat
      /\ liveIn \in [Nodes -> SUBSET Items] /\ liveOut \in [Nodes -> SUBSET Items]
  BY DEF IInv, TypeOK
<1>6. NewIn(n) \in SUBSET Items
  BY <1>2, NewInType
<1>7. prog \in Programs
  BY DEF IInv
<1> HIDE DEF n, d
<1>8. CASE Revisit(n)
  <2>1. /\ prog' = prog /\ phase' = "passes" /\ edges' = edges
        /\ agenda' \in Seq(Entries) /\ visited' \subseteq Nodes
        /\ changed' \in BOOLEAN /\ nextDomain' \in Nat
        /\ liveIn' \in [Nodes -> SUBSET Items] /\ liveOut' \in [Nodes -> SUBSET Items]
        /\ dead' \subseteq Tasks /\ GoodPoints(points, dead)
        /\ points' = points /\ dead' = dead
    BY <1>1, <1>2, <1>4, <1>5, <1>8 DEF Revisit
  <2>2. GoodPoints(points', dead')
    BY <2>1
  <2> QED
    BY <2>1, <2>2, StepInv
<1>9. CASE VisitTask(n, d)
  <2>1. prog.kind[n] = "task"
    BY <1>9 DEF VisitTask, Arrive
  <2>2. <<"visit", prog.entry[n], nextDomain>> \in Entries
    BY <1>2, <1>5, <1>7, <2>1, Shape DEF Entries
  <2>3. Onward(n, d) \in Seq(Entries)
    BY <1>2, <1>7, OnwardTypes
  <2>4. agenda' \in Seq(Entries)
    BY <1>2, <1>9, <2>2, <2>3, AgendaTypes DEF VisitTask
  <2>5. visited' \subseteq Nodes /\ liveIn' \in [Nodes -> SUBSET Items]
    BY <1>2, <1>9, ArriveTypes DEF VisitTask
  <2>6. /\ prog' = prog /\ phase' = "passes" /\ edges' = edges
        /\ changed' \in BOOLEAN /\ nextDomain' \in Nat
        /\ liveOut' \in [Nodes -> SUBSET Items]
        /\ points' = points /\ dead' = dead
    BY <1>1, <1>5, <1>9 DEF VisitTask
  <2>7. GoodPoints(points', dead') /\ dead' \subseteq Tasks
    BY <1>4, <2>6
  <2> QED
    BY <2>4, <2>5, <2>6, <2>7, StepInv
<1>10. CASE VisitGraph(n, d)
  <2>1. prog.kind[n] = "graph"
    BY <1>10 DEF VisitGraph, Arrive
  <2>2. prog.entry[n] \in Nodes
    BY <1>2, <1>7, <2>1, Shape
  <2>3. <<"visit", prog.entry[n], d>> \in Entries /\ <<"leave", n, d>> \in Entries
    BY <1>2, <2>1, <2>2 DEF Entries, OfKind
  <2>4. agenda' \in Seq(Entries)
    BY <1>2, <1>10, <2>3, AgendaTypes DEF VisitGraph
  <2>5. visited' \subseteq Nodes /\ liveIn' \in [Nodes -> SUBSET Items]
    BY <1>2, <1>5, <1>6, <1>10, <2>2 DEF VisitGraph, Arrive
  <2>6. /\ prog' = prog /\ phase' = "passes" /\ edges' = edges
        /\ changed' \in BOOLEAN /\ nextDomain' \in Nat
        /\ liveOut' \in [Nodes -> SUBSET Items]
        /\ points' = points /\ dead' = dead
    BY <1>1, <1>5, <1>10 DEF VisitGraph
  <2>7. GoodPoints(points', dead') /\ dead' \subseteq Tasks
    BY <1>4, <2>6
  <2> QED
    BY <2>4, <2>5, <2>6, <2>7, StepInv
<1>11. CASE LeaveGraph(n, d)
  <2>1. prog.kind[n] = "graph"
    BY <1>1, <1>11, HeadTypes DEF LeaveGraph, n, IInv
  <2>2. prog.exit[n] \in Nodes
    BY <1>2, <1>7, <2>1, Shape
  <2>3. liveOut[prog.exit[n]] \in SUBSET Items
    BY <1>5, <2>2
  <2>4. Depart(n, d, liveOut[prog.exit[n]])
    BY <1>11 DEF LeaveGraph
  <2>5. /\ prog' = prog /\ phase' = "passes" /\ edges' = edges
        /\ agenda' \in Seq(Entries)
        /\ changed' \in BOOLEAN
        /\ liveOut' \in [Nodes -> SUBSET Items]
    BY <1>1, <1>2, <2>3, <2>4, DepartTypes
  <2>6. /\ visited' \subseteq Nodes /\ nextDomain' \in Nat
        /\ liveIn' \in [Nodes -> SUBSET Items]
        /\ points' = points /\ dead' = dead
    BY <1>5, <1>11 DEF LeaveGraph
  <2>7. GoodPoints(points', dead') /\ dead' \subseteq Tasks
    BY <1>4, <2>6
  <2> QED
    BY <2>5, <2>6, <2>7, StepInv
<1>12. ASSUME NEW k \in {"barrier", "taskwait"}, NEW w, NEW out \in SUBSET Items,
              Arrive(n, k), liveIn' = [liveIn EXCEPT ![n] = NewIn(n)],
              points' = PointsAfterWait(w, n), Depart(n, d, out),
              nextDomain' = nextDomain, dead' = dead
       PROVE  IInv'
  <2>1. prog.kind[n] \in {"taskwait", "barrier"}
    BY <1>12 DEF Arrive
  <2>2. GoodPoints(points', dead') /\ dead' \subseteq Tasks
    BY <1>2, <1>4, <1>12, <2>1, WaitPoints
  <2>3. visited' \subseteq Nodes /\ liveIn' \in [Nodes -> SUBSET Items]
    BY <1>2, <1>12, ArriveTypes
  <2>4. /\ prog' = prog /\ phase' = "passes" /\ edges' = edges
        /\ agenda' \in Seq(Entries)
        /\ changed' \in BOOLEAN
        /\ liveOut' \in [Nodes -> SUBSET Items]
    BY <1>1, <1>2, <1>12, DepartTypes
  <2>5. nextDomain' \in Nat
    BY <1>5, <1>12
  <2> QED
    BY <2>2, <2>3, <2>4, <2>5, StepInv
<1>16. CASE VisitBarrier(n, d)
  <2>1. /\ Arrive(n, "barrier")
        /\ liveIn' = [liveIn EXCEPT ![n] = NewIn(n)]
        /\ points' = PointsAfterWait({item[1] : item \in NewIn(n)}, n)
        /\ Depart(n, d, {})
        /\ nextDomain' = nextDomain /\ dead' = dead
    BY <1>16 DEF VisitBarrier
  <2>2. {} \in SUBSET Items /\ "barrier" \in {"barrier", "taskwait"}
    OBVIOUS
  <2> QED
    BY <1>12, <2>1, <2>2
<1>17. CASE VisitTaskwait(n, d)
  <2> DEFINE w == {s \in Tasks : <<s, d>> \in NewIn(n)}
             out == {item \in NewIn(n) : item[2] # d}
  <2>1. /\ Arrive(n, "taskwait")
        /\ liveIn' = [liveIn EXCEPT ![n] = NewIn(n)]
        /\ points' = PointsAfterWait(w, n)
        /\ Depart(n, d, out)
        /\ nextDomain' = nextDomain /\ dead' = dead
    BY <1>17 DEF VisitTaskwait
  <2>2. out \in SUBSET Items /\ "taskwait" \in {"barrier", "taskwait"}
    BY <1>6
  <2> HIDE DEF w, out
  <2> QED
    BY <1>12, <2>1, <2>2
<1>13. CASE VisitWaiton(n, d)
  <2> DEFINE rel == [s \in Tasks |-> WaitRel(s, n)]
             out == liveOut[n] \cup AliveAfterSync(NewIn(n), d, rel)
  <2>1. rel \in [Tasks -> Rels]
    BY RelTypes
  <2>2. prog.kind[n] = "waiton"
    BY <1>13 DEF VisitWaiton, Arrive
  <2>3. \A s \in Tasks : rel[s] = "yes" => Certain(s, n)
    BY <2>2, WaitRelCertain
  <2>4. out \in SUBSET Items
    BY <1>2, <1>5, <1>6 DEF AliveAfterSync
  <2>5. /\ Arrive(n, "waiton")
        /\ liveIn' = [liveIn EXCEPT ![n] = NewIn(n)]
        /\ points' = PointsAfterSync(NewIn(n), d, rel, n)
        /\ Depart(n, d, out)
        /\ nextDomain' = nextDomain /\ dead' = dead
    BY <1>13 DEF VisitWaiton
  <2> HIDE DEF rel, out
  <2>6. GoodPoints(points', dead \cap Tasks)
    BY <1>2, <1>4, <2>1, <2>2, <2>3, <2>5, SyncPoints
  <2>7. dead \cap Tasks = dead
    BY <1>4
  <2>8. GoodPoints(points', dead') /\ dead' \subseteq Tasks
    BY <1>4, <2>5, <2>6, <2>7
  <2>9. visited' \subseteq Nodes /\ liveIn' \in [Nodes -> SUBSET Items]
    BY <1>2, <2>5, ArriveTypes
  <2>10. /\ prog' = prog /\ phase' = "passes" /\ edges' = edges
         /\ agenda' \in Seq(Entries)
         /\ changed' \in BOOLEAN
         /\ liveOut' \in [Nodes -> SUBSET Items]
    BY <1>1, <1>2, <2>4, <2>5, DepartTypes
  <2>11. nextDomain' \in Nat
    BY <1>5, <2>5
  <2> QED
    BY <2>8, <2>9, <2>10, <2>11, StepInv
<1>14. CASE VisitCreation(n, d)
  <2> DEFINE t == prog.task[n]
             rel == [s \in Tasks |-> TaskRel(s, t)]
             alive == {s \in Tasks : <<s, d>> \in NewIn(n)}
             out == liveOut[n] \cup AliveAfterSync(NewIn(n), d, rel)
                      \cup {<<t, d>>} \cup liveIn[prog.exit[t]]
  <2>1. rel \in [Tasks -> Rels] /\ \A s \in Tasks : rel[s] = TaskRel(s, t)
    BY RelTypes
  <2>2. prog.kind[n] = "create"
    BY <1>14 DEF VisitCreation, Arrive
  <2>3. t \in Nodes /\ t \in Tasks /\ prog.kind[t] = "task"
    BY <1>2, <1>7, <2>2, Shape
  <2>4. prog.exit[t] \in Nodes
    BY <1>7, <2>3, Shape
  <2>5. out \in SUBSET Items
    <3>1. <<t, d>> \in Items
      BY <1>2, <2>3 DEF Items
    <3>2. liveOut[n] \in SUBSET Items /\ liveIn[prog.exit[t]] \in SUBSET Items
      BY <1>2, <1>5, <2>4
    <3>3. AliveAfterSync(NewIn(n), d, rel) \in SUBSET Items
      BY <1>6 DEF AliveAfterSync
    <3> QED
      BY <3>1, <3>2, <3>3
  <2>6. /\ Arrive(n, "create")
        /\ liveIn' = [liveIn EXCEPT ![n] = NewIn(n)]
        /\ points' = PointsAfterSync(NewIn(n), d, rel, t)
        /\ dead' = dead \cup Expiring(alive, t)
        /\ Depart(n, d, out)
        /\ nextDomain' = nextDomain
    BY <1>14 DEF VisitCreation
  <2>7. \A s \in Expiring(alive, t) :
          s \in Tasks /\ <<s, d>> \in NewIn(n) /\ TaskRel(s, t) = "yes"
    BY DEF Expiring
  <2> HIDE DEF t, rel, alive, out
  <2>8. GoodPoints(points', dead \cap Tasks)
    BY <1>4, <2>1, <2>3, <2>6, SyncPoints
  <2>9. ASSUME NEW s \in Expiring(alive, t) PROVE \E q \in points'[s] : q[2] = "static"
    <3>1. s \in Tasks /\ <<s, d>> \in NewIn(n) /\ TaskRel(s, t) = "yes"
      BY <2>7, <2>9
    <3>2. \E q \in PointsAfterSync(NewIn(n), d, rel, t)[s] : q[2] = "static"
      BY <1>4, <2>1, <2>3, <3>1, ExpiringHaveStatic
    <3> QED
      BY <2>6, <3>2
  <2>10. GoodPoints(points', dead') /\ dead' \subseteq Tasks
    BY <1>4, <2>6, <2>7, <2>8, <2>9 DEF GoodPoints
  <2>11. visited' \subseteq Nodes /\ liveIn' \in [Nodes -> SUBSET Items]
    BY <1>2, <2>6, ArriveTypes
  <2>12. /\ prog' = prog /\ phase' = "passes" /\ edges' = edges
         /\ agenda' \in Seq(Entries)
         /\ changed' \in BOOLEAN
         /\ liveOut' \in [Nodes -> SUBSET Items]
    BY <1>1, <1>2, <2>5, <2>6, DepartTypes
  <2>13. nextDomain' \in Nat
    BY <1>5, <2>6
  <2> QED
    BY <2>10, <2>11, <2>12, <2>13, StepInv
<1>15. CASE VisitOther(n, d)
  <2>1. PICK k \in {"code", "entry", "exit"} : Arrive(n, k)
    BY <1>15 DEF VisitOther
  <2>2. /\ liveIn' = [liveIn EXCEPT ![n] = NewIn(n)]
        /\ Depart(n, d, NewIn(n))
        /\ nextDomain' = nextDomain /\ points' = points /\ dead' = dead
    BY <1>15 DEF VisitOther
  <2>3. visited' \subseteq Nodes /\ liveIn' \in [Nodes -> SUBSET Items]
    BY <1>2, <2>1, <2>2, ArriveTypes
  <2>4. /\ prog' = prog /\ phase' = "passes" /\ edges' = edges
        /\ agenda' \in Seq(Entries)
        /\ changed' \in BOOLEAN
        /\ liveOut' \in [Nodes -> SUBSET Items]
    BY <1>1, <1>2, <1>6, <2>2, DepartTypes
  <2>5. GoodPoints(points', dead') /\ dead' \subseteq Tasks /\ nextDomain' \in Nat
    BY <1>4, <1>5, <2>2
  <2> QED
    BY <2>3, <2>4, <2>5, StepInv
<1> QED
  BY <1>3, <1>8, <1>9, <1>10, <1>11, <1>13, <1>14, <1>15, <1>16, <1>17

-----------------------------------------------------------------------------
(* The steps outside of the visits *)

\* The end of a pass keeps the invariant.
LEMMA EndPassKeeps ==
  ASSUME IInv, EndPass
  PROVE  IInv'
<1>1. GoodPoints(points, dead) /\ dead \subseteq Tasks
  BY StateGood DEF IInv, TypeOK
<1>2. /\ changed \in BOOLEAN /\ nextDomain \in Nat /\ agenda \in Seq(Entries)
      /\ liveIn \in [Nodes -> SUBSET Items] /\ liveOut \in [Nodes -> SUBSET Items]
  BY DEF IInv, TypeOK
<1>3. CASE changed
  <2>1. <<"visit", prog.root, 0>> \in Entries
    BY Shape DEF IInv, Entries
  <2>5. /\ changed' = FALSE /\ nextDomain' = 1 /\ agenda' = Walk /\ phase' = phase
        /\ phase = "passes" /\ visited' = {}
        /\ UNCHANGED <<prog, liveIn, liveOut, points, dead, edges>>
    BY <1>3, Zenon DEF EndPass
  <2>2. agenda' \in Seq(Entries)
    BY <2>1, <2>5 DEF Walk
  <2>3. /\ prog' = prog /\ phase' = "passes" /\ edges' = edges
        /\ visited' \subseteq Nodes /\ changed' \in BOOLEAN /\ nextDomain' \in Nat
        /\ liveIn' \in [Nodes -> SUBSET Items] /\ liveOut' \in [Nodes -> SUBSET Items]
        /\ points' = points /\ dead' = dead
    BY <1>2, <2>5
  <2>4. GoodPoints(points', dead') /\ dead' \subseteq Tasks
    BY <1>1, <2>3
  <2> QED
    BY <2>2, <2>3, <2>4, StepInv
<1>4. CASE ~changed
  <2>1. /\ prog' = prog /\ phase' = "connect" /\ edges' = edges /\ visited' = {}
        /\ UNCHANGED <<changed, nextDomain, agenda, liveIn, liveOut, points, dead>>
    BY <1>4 DEF EndPass
  <2>2. TypeOK'
    BY <2>1, SameProgram DEF IInv, TypeOK
  <2>3. StaticIsCertain' /\ PointKinds' /\ DeadHaveStatic'
    BY <2>1, SameProgram DEF IInv, StaticIsCertain, PointKinds, DeadHaveStatic, KindOf
  <2> QED
    BY <2>1, <2>2, <2>3 DEF IInv, EdgesHaveStatic
<1> QED
  BY <1>3, <1>4

\* The edges are the points of synchronisation, so they keep the invariant.
LEMMA ConnectKeeps ==
  ASSUME IInv, Connect
  PROVE  IInv'
<1>1. /\ phase' = "post"
      /\ UNCHANGED <<prog, agenda, visited, changed, nextDomain, liveIn, liveOut,
                     points, dead>>
  BY DEF Connect
<1>2. GoodPoints(points, dead) /\ dead \subseteq Tasks
  BY StateGood DEF IInv, TypeOK
<1>3. \A e : e \in edges' <=>
        \E s \in Tasks : \E p \in points[s] : e = <<s, p[1], p[2]>>
  BY DEF Connect
<1>4. edges' \subseteq Tasks \X (Nodes \cup {PostSync}) \X (Kinds \cup {"post"})
  BY <1>2, <1>3 DEF GoodPoints
<1>5. TypeOK'
  BY <1>1, <1>4, SameProgram DEF IInv, TypeOK
<1>6. \A e \in edges' : e[3] = "static" => Certain(e[1], e[2])
  BY <1>2, <1>3 DEF GoodPoints
<1>7. StaticIsCertain'
  <2>1. ASSUME NEW s \in Tasks', NEW q \in points'[s], q[2] = "static"
        PROVE  Certain(s, q[1])'
    BY <1>1, <1>2, <2>1, SameProgram DEF GoodPoints
  <2>2. ASSUME NEW e \in edges', e[3] = "static" PROVE Certain(e[1], e[2])'
    BY <1>1, <1>6, <2>2, SameProgram
  <2> QED
    BY <2>1, <2>2 DEF StaticIsCertain
<1>8. PointKinds' /\ DeadHaveStatic'
  BY <1>1, SameProgram DEF IInv, PointKinds, DeadHaveStatic, KindOf
<1>9. EdgesHaveStatic'
  <2>1. ASSUME NEW s \in dead PROVE \E e \in edges' : e[1] = s /\ e[3] = "static"
    <3>1. PICK q \in points[s] : q[2] = "static"
      BY <1>2, <2>1 DEF GoodPoints
    <3>2. <<s, q[1], q[2]>> \in edges'
      BY <1>2, <1>3, <2>1
    <3> QED
      BY <3>1, <3>2
  <2> QED
    BY <1>1, <2>1 DEF EdgesHaveStatic
<1> QED
  BY <1>1, <1>5, <1>7, <1>8, <1>9 DEF IInv

\* The purge promotes no maybe, so the last step keeps the invariant.
LEMMA ConnectPostKeeps ==
  ASSUME IInv, ConnectPost
  PROVE  IInv'
<1>1. /\ phase = "post" /\ phase' = "done"
      /\ UNCHANGED <<prog, agenda, visited, changed, nextDomain, liveIn, liveOut,
                     points, dead>>
  BY DEF ConnectPost
<1>2. /\ GoodPoints(points, dead) /\ dead \subseteq Tasks
      /\ edges \subseteq Tasks \X (Nodes \cup {PostSync}) \X (Kinds \cup {"post"})
      /\ liveIn \in [Nodes -> SUBSET Items]
  BY StateGood DEF IInv, TypeOK
<1>3. Purged(edges) = edges
  <2>1. ASSUME NEW e \in edges, e[1] \in AliveAtEnd \cap dead,
               \A f \in edges : f[1] = e[1] => f = e
        PROVE  e[3] = "static"
    BY <1>1, <2>1 DEF IInv, EdgesHaveStatic
  <2> DEFINE new(e) == <<e[1], e[2],
                 IF e[1] \in AliveAtEnd \cap dead /\ (\A f \in edges : f[1] = e[1] => f = e)
                 THEN "static" ELSE e[3]>>
  <2>2. ASSUME NEW e \in edges PROVE new(e) = e
    <3>1. e = <<e[1], e[2], e[3]>>
      BY <1>2
    <3> QED
      BY <2>1, <3>1
  <2>3. Purged(edges) = {new(e) : e \in edges}
    BY DEF Purged
  <2> QED
    BY <2>2, <2>3
<1>4. AliveAtEnd \subseteq Tasks
  <2>1. prog.exit[prog.root] \in Nodes
    BY Shape DEF IInv
  <2> QED
    BY <1>2, <2>1 DEF AliveAtEnd, Items
<1>5. edges' = edges \cup {<<s, PostSync, "post">> : s \in AliveAtEnd \ dead}
  BY <1>3 DEF ConnectPost
<1>6. edges' \subseteq Tasks \X (Nodes \cup {PostSync}) \X (Kinds \cup {"post"})
  BY <1>2, <1>4, <1>5
<1>7. TypeOK'
  BY <1>1, <1>6, SameProgram DEF IInv, TypeOK
<1>8. StaticIsCertain'
  <2>1. ASSUME NEW s \in Tasks', NEW q \in points'[s], q[2] = "static"
        PROVE  Certain(s, q[1])'
    BY <1>1, <1>2, <2>1, SameProgram DEF GoodPoints
  <2>2. ASSUME NEW e \in edges', e[3] = "static" PROVE Certain(e[1], e[2])'
    <3>1. e \in edges
      BY <1>5, <2>2
    <3> QED
      BY <1>1, <2>2, <3>1, SameProgram DEF IInv, StaticIsCertain
  <2> QED
    BY <2>1, <2>2 DEF StaticIsCertain
<1>9. PointKinds' /\ DeadHaveStatic' /\ EdgesHaveStatic'
  BY <1>1, SameProgram DEF IInv, PointKinds, DeadHaveStatic, EdgesHaveStatic, KindOf
<1> QED
  BY <1>1, <1>7, <1>8, <1>9 DEF IInv

\* The invariant is one of the specification.
THEOREM IInvAlways == Spec => []IInv
<1>1. IInv /\ [Next]_vars => IInv'
  <2> SUFFICES ASSUME IInv, [Next]_vars PROVE IInv'
    OBVIOUS
  <2>1. CASE Next
    BY <2>1, VisitKeeps, EndPassKeeps, ConnectKeeps, ConnectPostKeeps DEF Next
  <2>2. CASE UNCHANGED vars
    <3>1. /\ UNCHANGED <<prog, phase, agenda, visited, changed, nextDomain>>
          /\ UNCHANGED <<liveIn, liveOut, points, dead, edges>>
      BY <2>2 DEF vars
    <3>2. TypeOK'
      BY <3>1, SameProgram DEF IInv, TypeOK
    <3>3. StaticIsCertain' /\ PointKinds' /\ DeadHaveStatic' /\ EdgesHaveStatic'
      BY <3>1, SameProgram DEF IInv, StaticIsCertain, PointKinds, DeadHaveStatic,
                               EdgesHaveStatic, KindOf
    <3> QED
      BY <3>1, <3>2, <3>3 DEF IInv
  <2> QED
    BY <2>1, <2>2
<1> QED
  BY <1>1, InitIInv, PTL DEF Spec

\* Whatever the program, the state of the analysis has its types.
THEOREM TypesAlways == Spec => []TypeOK
<1>1. IInv => TypeOK
  BY DEF IInv
<1> QED
  BY <1>1, IInvAlways, PTL

\* Whatever the program, only certain synchronisations are called static.
THEOREM StaticIsCertainAlways == Spec => []StaticIsCertain
<1>1. IInv => StaticIsCertain
  BY DEF IInv
<1> QED
  BY <1>1, IInvAlways, PTL
-----------------------------------------------------------------------------
(* Closures *)

\* A set of naturals that is not empty has a least member.
LEMMA LeastNatural ==
  ASSUME NEW S \in SUBSET Nat, S # {}
  PROVE  \E n \in S : \A m \in S : n <= m
<1> DEFINE R == OpToRel(<, Nat)
<1>1. \A m, n \in Nat : m < n => <<m, n>> \in R
  BY Zenon DEF OpToRel
<1>2. IsWellFoundedOn(R, Nat)
  BY Zenon, NatLessThanWellFounded
<1> HIDE DEF R
<1>3. PICK n \in S : \A m \in S : <<m, n>> \notin R
  BY <1>2, WFMin
<1>4. ASSUME NEW m \in S PROVE n <= m
  <2>1. m \in Nat /\ n \in Nat
    OBVIOUS
  <2>2. ~(m < n)
    BY <1>1, <1>3, <2>1
  <2> QED
    BY <2>1, <2>2
<1> QED
  BY <1>4

\* One round of the search for a closure, and its rounds up to the m-th.
Grown(step, w) ==
  LET new == (UNION {step[x] : x \in w.front}) \ w.seen
  IN  [seen |-> w.seen \cup new, front |-> new]
IsSearch(start, step, m, f) ==
  f = [i \in 0..m |-> IF i = 0 THEN [seen |-> start, front |-> start]
                      ELSE Grown(step, f[i - 1])]

\* The search can go on for any number of rounds.
LEMMA SearchExists ==
  ASSUME NEW start, NEW step, NEW N \in Nat
  PROVE  \E f : IsSearch(start, step, N, f)
<1> DEFINE first == [seen |-> start, front |-> start]
           P(m) == \E f : IsSearch(start, step, m, f)
           Bad == {m \in 0..N : ~P(m)}
<1>1. P(0)
  <2> DEFINE f == [i \in 0..0 |-> first]
  <2>1. IsSearch(start, step, 0, f)
    BY DEF IsSearch
  <2> QED
    BY <2>1
<1>2. ASSUME NEW m \in Nat \ {0}, P(m - 1) PROVE P(m)
  <2>1. PICK f : IsSearch(start, step, m - 1, f)
    BY <1>2
  <2> DEFINE g == [i \in 0..m |-> IF i = 0 THEN first ELSE Grown(step, f[i - 1])]
             h == [i \in 0..m |-> IF i = 0 THEN first ELSE Grown(step, g[i - 1])]
  <2>2. ASSUME NEW i \in 0..m-1 PROVE g[i] = f[i]
    <3>1. i \in 0..m
      OBVIOUS
    <3>2. f[i] = IF i = 0 THEN first ELSE Grown(step, f[i - 1])
      BY <2>1 DEF IsSearch
    <3> HIDE DEF first
    <3> QED
      BY <3>1, <3>2
  <2> HIDE DEF first
  <2>3. ASSUME NEW i \in 0..m PROVE g[i] = h[i]
    <3>1. CASE i = 0
      BY <3>1
    <3>2. CASE i # 0
      <4>1. i - 1 \in 0..m-1
        BY <3>2
      <4>2. g[i - 1] = f[i - 1]
        BY <4>1, <2>2
      <4>3. g[i] = Grown(step, f[i - 1]) /\ h[i] = Grown(step, g[i - 1])
        BY <3>2
      <4> QED
        BY <4>2, <4>3
    <3> QED
      BY <3>1, <3>2
  <2>4. g = h
    BY <2>3
  <2>5. IsSearch(start, step, m, g)
    <3> HIDE DEF g
    <3> QED
      BY <2>4 DEF IsSearch, first
  <2> QED
    BY <2>5
<1> HIDE DEF P
<1>4. Bad = {}
  <2> SUFFICES ASSUME Bad # {} PROVE FALSE
    OBVIOUS
  <2>1. Bad \in SUBSET Nat
    OBVIOUS
  <2> HIDE DEF Bad
  <2>2. PICK m \in Bad : \A k \in Bad : m <= k
    BY <2>1, LeastNatural
  <2>3. m \in 0..N /\ ~P(m)
    BY DEF Bad
  <2>4. m # 0
    BY <1>1, <2>3
  <2>5. m - 1 \in 0..N /\ ~(m <= m - 1)
    BY <2>3, <2>4
  <2>6. P(m - 1)
    BY <2>2, <2>5 DEF Bad
  <2> QED
    BY <1>2, <2>3, <2>4, <2>6
<1> QED
  BY <1>4 DEF P

\* A closure is what the search has seen after as many rounds as there are elements.
LEMMA SpreadSearch ==
  ASSUME NEW start, NEW step, Cardinality(DOMAIN step) \in Nat
  PROVE  \E f : /\ f[0] = [seen |-> start, front |-> start]
                /\ \A i \in 1..Cardinality(DOMAIN step) : f[i] = Grown(step, f[i - 1])
                /\ Spread(start, step) = f[Cardinality(DOMAIN step)].seen
<1> DEFINE N == Cardinality(DOMAIN step)
           f == CHOOSE g : IsSearch(start, step, N, g)
<1>1. IsSearch(start, step, N, f)
  BY SearchExists
<1>2. Spread(start, step) = f[N].seen
  BY DEF Spread, IsSearch, Grown
<1> HIDE DEF f
<1>3. f[0] = [seen |-> start, front |-> start]
  BY <1>1 DEF IsSearch
<1>4. \A i \in 1..N : f[i] = Grown(step, f[i - 1])
  BY <1>1 DEF IsSearch
<1> QED
  BY <1>2, <1>3, <1>4

\* A closure is the least of the sets that contain its start and are closed.
LEMMA SpreadLeast ==
  ASSUME NEW start, NEW step, IsFiniteSet(DOMAIN step),
         NEW X, start \subseteq X, \A x \in X : step[x] \subseteq X
  PROVE  Spread(start, step) \subseteq X
<1> DEFINE N == Cardinality(DOMAIN step)
<1>1. N \in Nat
  BY FS_CardinalityType
<1>2. PICK f : /\ f[0] = [seen |-> start, front |-> start]
               /\ \A i \in 1..N : f[i] = Grown(step, f[i - 1])
               /\ Spread(start, step) = f[N].seen
  BY <1>1, SpreadSearch
<1> DEFINE Q(i) == f[i].seen \subseteq X /\ f[i].front \subseteq X
           Bad == {i \in 0..N : ~Q(i)}
<1>3. Q(0)
  BY <1>2
<1>4. ASSUME NEW i \in 1..N, Q(i - 1) PROVE Q(i)
  <2>1. f[i] = Grown(step, f[i - 1])
    BY <1>2
  <2>2. UNION {step[x] : x \in f[i - 1].front} \subseteq X
    BY <1>4
  <2> QED
    BY <1>4, <2>1, <2>2 DEF Grown
<1> HIDE DEF Q, N
<1>5. Bad = {}
  <2> SUFFICES ASSUME Bad # {} PROVE FALSE
    OBVIOUS
  <2>1. Bad \in SUBSET Nat
    BY <1>1
  <2> HIDE DEF Bad
  <2>2. PICK m \in Bad : \A k \in Bad : m <= k
    BY <2>1, LeastNatural
  <2>3. m \in 0..N /\ ~Q(m)
    BY DEF Bad
  <2>4. m \in 1..N
    BY <1>1, <1>3, <2>3
  <2>5. m - 1 \in 0..N /\ ~(m <= m - 1)
    BY <1>1, <2>4
  <2>6. Q(m - 1)
    BY <2>2, <2>5 DEF Bad
  <2> QED
    BY <1>4, <2>3, <2>4, <2>6
<1>6. Q(N)
  BY <1>1, <1>5
<1> QED
  BY <1>2, <1>6 DEF Q, N

\* It is one of them: a round that finds nothing new is one too many, and each
\* of the others finds an element.
LEMMA SpreadClosed ==
  ASSUME NEW P, IsFiniteSet(P), NEW step \in [P -> SUBSET P], NEW start \in SUBSET P
  PROVE  /\ start \subseteq Spread(start, step)
         /\ Spread(start, step) \subseteq P
         /\ \A x \in Spread(start, step) : step[x] \subseteq Spread(start, step)
<1> DEFINE N == Cardinality(P)
<1>1. N \in Nat /\ DOMAIN step = P
  BY FS_CardinalityType
<1>2. PICK f : /\ f[0] = [seen |-> start, front |-> start]
               /\ \A i \in 1..N : f[i] = Grown(step, f[i - 1])
               /\ Spread(start, step) = f[N].seen
  BY <1>1, SpreadSearch
<1> DEFINE Q(i) == /\ start \subseteq f[i].seen /\ f[i].seen \subseteq P
                   /\ f[i].front \subseteq f[i].seen
                   /\ \A x \in f[i].seen \ f[i].front : step[x] \subseteq f[i].seen
                   /\ f[i].front = {} \/ Cardinality(f[i].seen) > i
           Bad == {i \in 0..N : ~Q(i)}
<1>3. Q(0)
  <2>1. CASE start = {}
    BY <1>2, <2>1
  <2>2. CASE start # {}
    <3>1. IsFiniteSet(start)
      BY FS_Subset
    <3>2. Cardinality(start) > 0
      BY <2>2, <3>1, FS_EmptySet, FS_CardinalityType
    <3> QED
      BY <1>2, <3>2
  <2> QED
    BY <2>1, <2>2
<1>4. ASSUME NEW i \in 1..N, Q(i - 1) PROVE Q(i)
  <2> DEFINE w == f[i - 1]
             new == (UNION {step[x] : x \in w.front}) \ w.seen
  <2>1. f[i].seen = w.seen \cup new /\ f[i].front = new
    <3>1. f[i] = Grown(step, w)
      BY <1>2
    <3> HIDE DEF w
    <3> QED
      BY <3>1 DEF Grown
  <2>2. new \subseteq P /\ new \cap w.seen = {}
    BY <1>4
  <2>3. ASSUME NEW x \in (w.seen \cup new) \ new PROVE step[x] \subseteq w.seen \cup new
    <3>1. CASE x \in w.front
      BY <3>1
    <3>2. CASE x \notin w.front
      BY <1>4, <2>3, <3>2
    <3> QED
      BY <3>1, <3>2
  <2>4. CASE new = {}
    BY <1>4, <2>1, <2>3, <2>4
  <2>5. CASE new # {}
    <3>1. w.front # {}
      BY <2>5
    <3>2. Cardinality(w.seen) > i - 1
      BY <1>4, <3>1
    <3>3. IsFiniteSet(w.seen) /\ IsFiniteSet(w.seen \cup new)
      BY <1>4, <2>2, FS_Subset
    <3>4. Cardinality(w.seen) < Cardinality(w.seen \cup new)
      <4>1. w.seen \subseteq w.seen \cup new /\ w.seen # w.seen \cup new
        BY <2>2, <2>5
      <4> HIDE DEF w, new
      <4>2. /\ Cardinality(w.seen) <= Cardinality(w.seen \cup new)
            /\ Cardinality(w.seen) # Cardinality(w.seen \cup new)
        BY <3>3, <4>1, FS_Subset
      <4>3. Cardinality(w.seen) \in Nat /\ Cardinality(w.seen \cup new) \in Nat
        BY <3>3, FS_CardinalityType
      <4> QED
        BY <4>2, <4>3
    <3>5. Cardinality(w.seen) \in Nat /\ Cardinality(w.seen \cup new) \in Nat
      BY <3>3, FS_CardinalityType
    <3>6. Cardinality(w.seen \cup new) > i
      BY <3>2, <3>4, <3>5
    <3> HIDE DEF w
    <3>7. start \subseteq w.seen /\ w.seen \subseteq P
      BY <1>4 DEF w
    <3> HIDE DEF new
    <3> QED
      BY <2>1, <2>2, <2>3, <3>6, <3>7
  <2> QED
    BY <2>4, <2>5
<1> HIDE DEF Q, N
<1>5. Bad = {}
  <2> SUFFICES ASSUME Bad # {} PROVE FALSE
    OBVIOUS
  <2>1. Bad \in SUBSET Nat
    BY <1>1
  <2> HIDE DEF Bad
  <2>2. PICK m \in Bad : \A k \in Bad : m <= k
    BY <2>1, LeastNatural
  <2>3. m \in 0..N /\ ~Q(m)
    BY DEF Bad
  <2>4. m \in 1..N
    BY <1>1, <1>3, <2>3
  <2>5. m - 1 \in 0..N /\ ~(m <= m - 1)
    BY <1>1, <2>4
  <2>6. Q(m - 1)
    BY <2>2, <2>5 DEF Bad
  <2> QED
    BY <1>4, <2>3, <2>4, <2>6
<1>6. Q(N)
  BY <1>1, <1>5
<1>7. f[N].front = {}
  <2>1. IsFiniteSet(f[N].seen) /\ f[N].seen \subseteq P
    BY <1>6, FS_Subset DEF Q
  <2>2. Cardinality(f[N].seen) <= N /\ Cardinality(f[N].seen) \in Nat
    BY <2>1, FS_Subset, FS_CardinalityType DEF N
  <2> QED
    BY <1>1, <1>6, <2>2 DEF Q
<1> QED
  BY <1>2, <1>6, <1>7 DEF Q

-----------------------------------------------------------------------------
(* The program *)

\* What a program is, for one of its nodes.
LEMMA Structure ==
  ASSUME prog \in Programs
  PROVE  /\ IsFiniteSet(Nodes)
         /\ \A g \in Nodes : prog.kind[g] \in {"graph", "task"} =>
              prog.kind[prog.entry[g]] = "entry" /\ prog.kind[prog.exit[g]] = "exit"
         /\ \A g, h \in Nodes :
              /\ prog.kind[g] \in {"graph", "task"} /\ prog.kind[h] \in {"graph", "task"}
              /\ prog.entry[g] = prog.entry[h] \/ prog.exit[g] = prog.exit[h]
              => g = h
         /\ \A c, d \in Nodes :
              /\ prog.kind[c] = "create" /\ prog.kind[d] = "create"
              /\ prog.task[c] = prog.task[d]
              => c = d
         /\ \A n \in Nodes : \A m \in Range(prog.succ[n]) :
              /\ m \in Nodes
              /\ prog.kind[m] # "entry" /\ prog.owner[m] = prog.owner[n]
         /\ \A n \in Nodes : prog.owner[n] = prog.root \/ prog.owner[n] \in Tasks
         /\ prog.owner[prog.root] = prog.root
         /\ \A g \in Nodes : prog.kind[g] = "graph" =>
              prog.owner[prog.entry[g]] = prog.owner[g] /\ prog.owner[prog.exit[g]] = prog.owner[g]
         /\ \A t \in Nodes : prog.kind[t] = "task" =>
              prog.owner[prog.entry[t]] = t /\ prog.owner[prog.exit[t]] = t
         /\ \A c \in Nodes : prog.kind[c] = "create" =>
              prog.owner[prog.task[c]] = prog.owner[c]
<1>1. IsProgram(prog)
  BY ProgramsAssumption
<1>2. IsFiniteSet(Nodes) /\ prog.owner[prog.root] = prog.root
  BY <1>1 DEF IsProgram, Nodes
<1>3. \A g \in Nodes : prog.kind[g] \in {"graph", "task"} =>
        prog.kind[prog.entry[g]] = "entry" /\ prog.kind[prog.exit[g]] = "exit"
  BY <1>1 DEF IsProgram, Nodes
<1>4. \A g, h \in Nodes :
        /\ prog.kind[g] \in {"graph", "task"} /\ prog.kind[h] \in {"graph", "task"}
        /\ prog.entry[g] = prog.entry[h] \/ prog.exit[g] = prog.exit[h]
        => g = h
  BY <1>1 DEF IsProgram, Nodes
<1>5. \A c, d \in Nodes :
        /\ prog.kind[c] = "create" /\ prog.kind[d] = "create"
        /\ prog.task[c] = prog.task[d]
        => c = d
  BY <1>1 DEF IsProgram, Nodes
<1>6. ASSUME NEW n \in Nodes, NEW m \in Range(prog.succ[n])
      PROVE  m \in Nodes /\ prog.kind[m] # "entry" /\ prog.owner[m] = prog.owner[n]
  <2>1. prog.succ[n] \in Seq(Nodes)
    BY Shape
  <2>2. m \in Nodes
    BY <2>1 DEF Range
  <2> QED
    BY <1>1, <2>2 DEF IsProgram, Nodes
<1>7. \A n \in Nodes : prog.owner[n] = prog.root \/ prog.owner[n] \in Tasks
  BY <1>1 DEF IsProgram, Nodes, Tasks, OfKind
<1>8. \A g \in Nodes : prog.kind[g] = "graph" =>
        prog.owner[prog.entry[g]] = prog.owner[g] /\ prog.owner[prog.exit[g]] = prog.owner[g]
  BY <1>1 DEF IsProgram, Nodes
<1>9. \A t \in Nodes : prog.kind[t] = "task" =>
        prog.owner[prog.entry[t]] = t /\ prog.owner[prog.exit[t]] = t
  BY <1>1 DEF IsProgram, Nodes
<1>10. \A c \in Nodes : prog.kind[c] = "create" =>
         prog.owner[prog.task[c]] = prog.owner[c]
  BY <1>1 DEF IsProgram, Nodes
<1> QED
  BY <1>2, <1>3, <1>4, <1>5, <1>6, <1>7, <1>8, <1>9, <1>10

\* A set of nodes with the root that is closed under what a visit owes has all.
LEMMA NodesOwed ==
  ASSUME prog \in Programs, NEW X \in SUBSET Nodes, prog.root \in X,
         \A n \in X : /\ Range(prog.succ[n]) \subseteq X
                      /\ prog.kind[n] \in {"graph", "task"} => prog.entry[n] \in X
                      /\ prog.kind[n] = "create" => prog.task[n] \in X
  PROVE  X = Nodes
<1> DEFINE having(k) == {n \in Nodes : prog.kind[n] = k}
           onward == [n \in Nodes |->
                        Range(prog.succ[n])
                        \cup {prog.entry[g] : g \in (having("graph") \cup having("task")) \cap {n}}
                        \cup {prog.task[c] : c \in having("create") \cap {n}}]
<1>1. Nodes \subseteq Spread({prog.root}, onward)
  <2>1. IsProgram(prog)
    BY ProgramsAssumption
  <2> QED
    BY <2>1 DEF IsProgram, Nodes
<1>2. \A x \in X : onward[x] \subseteq X
  OBVIOUS
<1>3. IsFiniteSet(DOMAIN onward)
  BY Structure
<1> HIDE DEF onward
<1>4. Spread({prog.root}, onward) \subseteq X
  BY <1>2, <1>3, SpreadLeast
<1> QED
  BY <1>1, <1>4

-----------------------------------------------------------------------------
(* The order of the visits does not depend on what is alive, so a domain has
   the same number in every pass. *)

OnwardOf(p, n, d) ==
  LET visits == [i \in DOMAIN p.succ[n] |-> <<"visit", p.succ[n][i], d>>]
  IN  IF p.kind[n] = "create"
      THEN <<<<"visit", p.task[n], d>>>> \o visits
      ELSE visits

\* The walk after its next visit.
Turn(p, w) ==
  LET e == Head(w.agenda)
      n == e[2]
      d == e[3]
      rest == Tail(w.agenda)
  IN  IF e[1] = "leave"
      THEN [agenda |-> OnwardOf(p, n, d) \o rest, visited |-> w.visited, next |-> w.next]
      ELSE IF n \in w.visited
      THEN [agenda |-> rest, visited |-> w.visited, next |-> w.next]
      ELSE [agenda |->
              CASE p.kind[n] = "task" ->
                     <<<<"visit", p.entry[n], w.next>>>> \o OnwardOf(p, n, d) \o rest
                [] p.kind[n] = "graph" ->
                     <<<<"visit", p.entry[n], d>>, <<"leave", n, d>>>> \o rest
                [] OTHER -> OnwardOf(p, n, d) \o rest,
            visited |-> w.visited \cup {n},
            next |-> IF p.kind[n] = "task" THEN w.next + 1 ELSE w.next]

\* h is the walk of p from its start to its k-th visit.
IsHistory(p, h, k) ==
  /\ h[0] = [agenda |-> <<<<"visit", p.root, 0>>>>, visited |-> {}, next |-> 1]
  /\ \A i \in 1..k : h[i] = Turn(p, h[i - 1])

\* The next visit gives a number to the domain of task t.
Numbers(p, w, t) ==
  /\ Head(w.agenda)[1] = "visit"
  /\ Head(w.agenda)[2] = t
  /\ t \notin w.visited
  /\ p.kind[t] = "task"

\* The code of o has domain d.
IsDomain(p, o, d) ==
  \/ o = p.root /\ d = 0
  \/ /\ o # p.root
     /\ \E k \in Nat : \E h : IsHistory(p, h, k) /\ Numbers(p, h[k], o) /\ d = h[k].next

\* What a visit does to the nodes seen and the numbers given.
LEMMA TurnEffect ==
  ASSUME NEW p, NEW w, w.next \in Nat
  PROVE  /\ Turn(p, w).next \in Nat /\ w.next <= Turn(p, w).next
         /\ w.visited \subseteq Turn(p, w).visited
         /\ \A t : Numbers(p, w, t) => /\ t \in Turn(p, w).visited
                                       /\ Turn(p, w).next = w.next + 1
<1> DEFINE e == Head(w.agenda)
<1>1. CASE e[1] = "leave"
  BY <1>1 DEF Turn, Numbers
<1>2. CASE e[1] # "leave" /\ e[2] \in w.visited
  BY <1>2 DEF Turn, Numbers
<1>3. CASE e[1] # "leave" /\ e[2] \notin w.visited
  <2>1. /\ Turn(p, w).visited = w.visited \cup {e[2]}
        /\ Turn(p, w).next = IF p.kind[e[2]] = "task" THEN w.next + 1 ELSE w.next
    BY <1>3 DEF Turn
  <2> HIDE DEF e
  <2>2. \A t : Numbers(p, w, t) => t = e[2] /\ p.kind[t] = "task"
    BY DEF Numbers, e
  <2> QED
    BY <2>1, <2>2
<1> QED
  BY <1>1, <1>2, <1>3

\* There is one walk.
LEMMA HistoriesAgree ==
  ASSUME NEW p, NEW k \in Nat, NEW m \in Nat, NEW h, NEW g,
         IsHistory(p, h, k), IsHistory(p, g, m)
  PROVE  \A i \in 0..k : i <= m => h[i] = g[i]
<1> DEFINE Bad == {i \in 0..k : i <= m /\ h[i] # g[i]}
<1> SUFFICES ASSUME Bad # {} PROVE FALSE
  OBVIOUS
<1>1. Bad \in SUBSET Nat
  OBVIOUS
<1> HIDE DEF Bad
<1>2. PICK i \in Bad : \A j \in Bad : i <= j
  BY <1>1, LeastNatural
<1>3. i \in 0..k /\ i <= m /\ h[i] # g[i]
  BY DEF Bad
<1>4. i # 0
  BY <1>3 DEF IsHistory
<1>5. i \in 1..k /\ i \in 1..m /\ i - 1 \in 0..k /\ i - 1 <= m /\ ~(i <= i - 1)
  BY <1>3, <1>4
<1>6. h[i - 1] = g[i - 1]
  BY <1>2, <1>5 DEF Bad
<1>7. h[i] = Turn(p, h[i - 1]) /\ g[i] = Turn(p, g[i - 1])
  BY <1>5 DEF IsHistory
<1> QED
  BY <1>3, <1>6, <1>7

\* On the walk nodes stay seen and numbers grow.
LEMMA HistoryGrows ==
  ASSUME NEW p, NEW k \in Nat, NEW h, IsHistory(p, h, k), NEW i \in 0..k
  PROVE  /\ h[i].next \in Nat /\ h[i].next > 0
         /\ \A j \in i..k : /\ h[j].next \in Nat /\ h[i].next <= h[j].next
                            /\ h[i].visited \subseteq h[j].visited
<1>1. ASSUME NEW a \in 0..k, NEW b \in a..k,
             h[a].next \in Nat,
             ~(/\ h[b].next \in Nat /\ h[a].next <= h[b].next
               /\ h[a].visited \subseteq h[b].visited)
      PROVE  FALSE
  <2> DEFINE Bad == {j \in a..k : ~(/\ h[j].next \in Nat /\ h[a].next <= h[j].next
                                    /\ h[a].visited \subseteq h[j].visited)}
  <2>1. Bad \in SUBSET Nat /\ Bad # {}
    BY <1>1
  <2> HIDE DEF Bad
  <2>2. PICK j \in Bad : \A l \in Bad : j <= l
    BY <2>1, LeastNatural
  <2>3. j \in a..k /\ j # a
    BY <1>1, <2>2 DEF Bad
  <2>4. j - 1 \in a..k /\ j \in 1..k /\ ~(j <= j - 1)
    BY <2>3
  <2>5. /\ h[j - 1].next \in Nat /\ h[a].next <= h[j - 1].next
        /\ h[a].visited \subseteq h[j - 1].visited
    BY <2>2, <2>4 DEF Bad
  <2>6. h[j] = Turn(p, h[j - 1])
    BY <2>4 DEF IsHistory
  <2>7. /\ h[j].next \in Nat /\ h[j - 1].next <= h[j].next
        /\ h[j - 1].visited \subseteq h[j].visited
    BY <2>5, <2>6, TurnEffect
  <2>8. ~(/\ h[j].next \in Nat /\ h[a].next <= h[j].next
          /\ h[a].visited \subseteq h[j].visited)
    BY DEF Bad
  <2> QED
    BY <1>1, <2>5, <2>7, <2>8
<1>2. h[0].next = 1
  BY DEF IsHistory
<1>3. h[i].next \in Nat /\ h[0].next <= h[i].next
  BY <1>1, <1>2
<1> QED
  BY <1>1, <1>2, <1>3

\* A task has one number and a number has one task.
LEMMA NumbersDiffer ==
  ASSUME NEW p, NEW k \in Nat, NEW h, IsHistory(p, h, k), NEW s, Numbers(p, h[k], s),
         NEW m \in Nat, NEW g, IsHistory(p, g, m), NEW t, Numbers(p, g[m], t), k < m
  PROVE  s # t /\ h[k].next < g[m].next
<1>1. h[k] = g[k]
  BY HistoriesAgree
<1>2. k \in 0..m /\ k + 1 \in 0..m /\ k + 1 \in 1..m /\ m \in k + 1..m
  OBVIOUS
<1>3. g[k + 1] = Turn(p, g[k])
  <2>1. g[k + 1] = Turn(p, g[k + 1 - 1])
    BY <1>2 DEF IsHistory
  <2> QED
    BY <2>1
<1>4. g[k].next \in Nat
  BY <1>2, HistoryGrows
<1>5. s \in g[k + 1].visited /\ g[k + 1].next = g[k].next + 1
  BY <1>1, <1>3, <1>4, TurnEffect
<1>6. /\ g[m].next \in Nat /\ g[k + 1].next <= g[m].next
      /\ g[k + 1].visited \subseteq g[m].visited
  BY <1>2, HistoryGrows
<1> QED
  BY <1>1, <1>4, <1>5, <1>6 DEF Numbers

\* A code has one domain.
LEMMA DomainUnique ==
  ASSUME NEW p, NEW o, NEW d, NEW e, IsDomain(p, o, d), IsDomain(p, o, e)
  PROVE  d = e
<1>1. CASE o = p.root
  BY <1>1 DEF IsDomain
<1>2. CASE o # p.root
  <2>a. PICK k \in Nat : \E h : IsHistory(p, h, k) /\ Numbers(p, h[k], o) /\ d = h[k].next
    BY <1>2 DEF IsDomain
  <2>1. PICK h : IsHistory(p, h, k) /\ Numbers(p, h[k], o) /\ d = h[k].next
    BY <2>a
  <2>b. PICK m \in Nat : \E g : IsHistory(p, g, m) /\ Numbers(p, g[m], o) /\ e = g[m].next
    BY <1>2 DEF IsDomain
  <2>2. PICK g : IsHistory(p, g, m) /\ Numbers(p, g[m], o) /\ e = g[m].next
    BY <2>b
  <2>3. k = m
    BY <2>1, <2>2, NumbersDiffer
  <2>4. h[k] = g[m]
    BY <2>1, <2>2, <2>3, HistoriesAgree
  <2> QED
    BY <2>1, <2>2, <2>4
<1> QED
  BY <1>1, <1>2

\* A domain is of one code.
LEMMA DomainOwner ==
  ASSUME NEW p, NEW o, NEW q, NEW d, IsDomain(p, o, d), IsDomain(p, q, d)
  PROVE  o = q
<1>1. ASSUME NEW k \in Nat, NEW h, IsHistory(p, h, k) PROVE h[k].next # 0
  BY <1>1, HistoryGrows
<1>2. CASE o = p.root
  BY <1>1, <1>2 DEF IsDomain
<1>3. CASE q = p.root
  BY <1>1, <1>3 DEF IsDomain
<1>4. CASE o # p.root /\ q # p.root
  <2>a. PICK k \in Nat : \E h : IsHistory(p, h, k) /\ Numbers(p, h[k], o) /\ d = h[k].next
    BY <1>4 DEF IsDomain
  <2>1. PICK h : IsHistory(p, h, k) /\ Numbers(p, h[k], o) /\ d = h[k].next
    BY <2>a
  <2>b. PICK m \in Nat : \E g : IsHistory(p, g, m) /\ Numbers(p, g[m], q) /\ d = g[m].next
    BY <1>4 DEF IsDomain
  <2>2. PICK g : IsHistory(p, g, m) /\ Numbers(p, g[m], q) /\ d = g[m].next
    BY <2>b
  <2>3. h[k].next \in Nat /\ g[m].next \in Nat
    <3>1. k \in 0..k /\ m \in 0..m
      OBVIOUS
    <3> QED
      BY <2>1, <2>2, <3>1, HistoryGrows
  <2>4. k = m
    <3>1. ASSUME k < m PROVE FALSE
      <4>1. h[k].next < g[m].next
        BY <2>1, <2>2, <3>1, NumbersDiffer
      <4> QED
        BY <2>1, <2>2, <2>3, <4>1
    <3>2. ASSUME m < k PROVE FALSE
      <4>1. g[m].next < h[k].next
        BY <2>1, <2>2, <3>2, NumbersDiffer
      <4> QED
        BY <2>1, <2>2, <2>3, <4>1
    <3> QED
      BY <3>1, <3>2
  <2>5. h[k] = g[m]
    BY <2>1, <2>2, <2>4, HistoriesAgree
  <2> QED
    BY <2>1, <2>2, <2>5 DEF Numbers
<1> QED
  BY <1>2, <1>3, <1>4

-----------------------------------------------------------------------------
(* The reference: the positions a task reaches *)

\* The positions that follow one are positions.
LEMMA WaysTypes ==
  ASSUME prog \in Programs, NEW q \in Positions
  PROVE  Ways(q) \in SUBSET Positions
<1> DEFINE n == q[1]
<1>1. n \in Nodes /\ q[2] \in {"in", "out"}
  BY DEF Positions
<1>2. CASE q[2] = "in"
  <2>1. CASE prog.kind[n] = "graph"
    <3>1. prog.entry[n] \in Nodes
      BY <1>1, <2>1, Shape
    <3> QED
      BY <1>2, <2>1, <3>1 DEF Ways, Positions
  <2>2. CASE prog.kind[n] = "task"
    BY <1>2, <2>2 DEF Ways
  <2>3. CASE prog.kind[n] \notin {"graph", "task"}
    <3>1. Ways(q) = {<<n, "out">>}
      BY <1>2, <2>3 DEF Ways
    <3> QED
      BY <1>1, <3>1 DEF Positions
  <2> QED
    BY <2>1, <2>2, <2>3
<1>3. CASE q[2] # "in"
  <2>1. \A m \in Range(prog.succ[n]) : m \in Nodes
    BY <1>1, Structure
  <2>2. Ways(q) = {<<m, "in">> : m \in Range(prog.succ[n])}
                  \cup {<<g, "out">> : g \in {h \in OfKind("graph") : prog.exit[h] = n}}
                  \cup {<<c, "out">> : c \in {b \in Creations : prog.exit[prog.task[b]] = n}}
    BY <1>3 DEF Ways
  <2>3. OfKind("graph") \subseteq Nodes /\ Creations \subseteq Nodes
    BY DEF OfKind, Creations
  <2> QED
    BY <2>1, <2>2, <2>3 DEF Positions
<1> QED
  BY <1>2, <1>3

\* So are those a task goes on to.
LEMMA ForwardTypes ==
  ASSUME prog \in Programs, NEW t, NEW expired
  PROVE  /\ IsFiniteSet(Positions)
         /\ \A q \in Positions : Forward(t, q, expired) \in SUBSET Positions
         /\ Born(t) \in SUBSET Positions
<1>1. IsFiniteSet(Positions)
  <2>1. IsFiniteSet(Nodes)
    BY Structure
  <2>2. IsFiniteSet({"in", "out"})
    <3>1. IsFiniteSet({"in"})
      BY FS_Singleton
    <3>2. IsFiniteSet({"in"} \cup {"out"})
      BY <3>1, FS_AddElement
    <3>3. {"in"} \cup {"out"} = {"in", "out"}
      OBVIOUS
    <3> QED
      BY <3>2, <3>3
  <2> QED
    BY <2>1, <2>2, FS_Product DEF Positions
<1>2. ASSUME NEW q \in Positions PROVE Forward(t, q, expired) \in SUBSET Positions
  BY WaysTypes DEF Forward
<1>3. Born(t) \in SUBSET Positions
  BY DEF Born, Creations, OfKind, Positions
<1> QED
  BY <1>1, <1>2, <1>3

\* A set of positions with the births of a task, closed under where it goes on,
\* has all that it reaches.
LEMMA ReachedLeast ==
  ASSUME prog \in Programs, NEW t, NEW expired, NEW S \in SUBSET Positions,
         Born(t) \subseteq S, \A q \in S : Forward(t, q, expired) \subseteq S
  PROVE  Reached(t, expired) \subseteq S
<1> DEFINE step == [q \in Positions |-> Forward(t, q, expired)]
<1>1. IsFiniteSet(DOMAIN step)
  BY ForwardTypes
<1>2. \A q \in S : step[q] \subseteq S
  OBVIOUS
<1>3. Reached(t, expired) = Spread(Born(t), step)
  BY DEF Reached
<1> HIDE DEF step
<1> QED
  BY <1>1, <1>2, <1>3, SpreadLeast

\* The operators of the reference change with the program only.
LEMMA SameReference ==
  ASSUME prog' = prog
  PROVE  /\ Positions' = Positions /\ Creations' = Creations
         /\ \A t : Born(t)' = Born(t)
         /\ \A t, n : SameCode(t, n)' <=> SameCode(t, n)
         /\ \A s, w : Matches(s, w)' = Matches(s, w)
         /\ \A q : Ways(q)' = Ways(q)
<1>1. Nodes' = Nodes /\ Positions' = Positions
  BY DEF Nodes, Positions
<1>2. Creations' = Creations /\ OfKind("graph")' = OfKind("graph")
  BY DEF Creations, OfKind, Nodes
<1>3. \A t : Born(t)' = Born(t)
  BY <1>2 DEF Born
<1>4. \A t, n : SameCode(t, n)' <=> SameCode(t, n)
  BY <1>2 DEF SameCode
<1>5. \A s, w : Matches(s, w)' = Matches(s, w)
  BY DEF Matches, Refs
<1>6. ASSUME NEW q PROVE Ways(q)' = Ways(q)
  BY <1>2 DEF Ways
<1> QED
  BY <1>1, <1>2, <1>3, <1>4, <1>5, <1>6

\* What a task reaches is closed, and grows with the expired tasks.
LEMMA ReachedNext ==
  ASSUME prog \in Programs, prog' = prog, dead \subseteq dead', NEW t
  PROVE  /\ Reached(t, dead) \subseteq Reached(t, dead)'
         /\ Born(t) \subseteq Reached(t, dead)'
         /\ \A q \in Reached(t, dead)' :
              q \in Positions /\ Forward(t, q, dead) \subseteq Reached(t, dead)'
<1> DEFINE F(q) == Forward(t, q, dead)'
           step == [q \in Positions |-> F(q)]
           R == Spread(Born(t), step)
<1>1. Reached(t, dead)' = R
  BY SameReference DEF Reached
<1>2. ASSUME NEW q \in Positions
      PROVE  Forward(t, q, dead) \subseteq F(q) /\ F(q) \in SUBSET Positions
  <2>1. Ways(q)' = Ways(q) /\ Ways(q) \in SUBSET Positions
    BY SameReference, WaysTypes
  <2>2. Outlives(t, q[1], dead) => Outlives(t, q[1], dead)'
    <3>1. /\ SameCode(t, q[1])' <=> SameCode(t, q[1])
          /\ Matches(t, q[1])' = Matches(t, q[1])
      BY SameReference
    <3>2. TaskRel(t, prog.task[q[1]])' = TaskRel(t, prog.task[q[1]])
      BY DEF TaskRel, Reads, Writes, Refs
    <3> QED
      BY <3>1, <3>2 DEF Outlives
  <2> QED
    BY <2>1, <2>2 DEF Forward
<1>3. IsFiniteSet(Positions) /\ Born(t) \in SUBSET Positions
  BY ForwardTypes
<1>4. step \in [Positions -> SUBSET Positions]
  BY <1>2
<1>5. \A q \in Positions : step[q] = F(q)
  OBVIOUS
<1> HIDE DEF step
<1>6. /\ Born(t) \subseteq R /\ R \subseteq Positions
      /\ \A q \in R : step[q] \subseteq R
  BY <1>3, <1>4, SpreadClosed
<1>7. \A q \in R : q \in Positions /\ Forward(t, q, dead) \subseteq R
  BY <1>2, <1>5, <1>6
<1>8. Reached(t, dead) \subseteq R
  BY <1>6, <1>7, ReachedLeast
<1> QED
  BY <1>1, <1>6, <1>7, <1>8

\* Now, too, what a task reaches is closed.
LEMMA ReachedClosed ==
  ASSUME prog \in Programs, NEW t, NEW expired
  PROVE  /\ Born(t) \subseteq Reached(t, expired)
         /\ Reached(t, expired) \subseteq Positions
         /\ \A q \in Reached(t, expired) :
              Forward(t, q, expired) \subseteq Reached(t, expired)
<1> DEFINE step == [q \in Positions |-> Forward(t, q, expired)]
<1>1. IsFiniteSet(Positions) /\ Born(t) \in SUBSET Positions
  BY ForwardTypes
<1>2. step \in [Positions -> SUBSET Positions]
  BY ForwardTypes
<1>3. \A q \in Positions : step[q] = Forward(t, q, expired)
  OBVIOUS
<1>4. Reached(t, expired) = Spread(Born(t), step)
  BY DEF Reached
<1> HIDE DEF step
<1>5. /\ Born(t) \subseteq Spread(Born(t), step) /\ Spread(Born(t), step) \subseteq Positions
      /\ \A q \in Spread(Born(t), step) : step[q] \subseteq Spread(Born(t), step)
  BY <1>1, <1>2, SpreadClosed
<1> QED
  BY <1>3, <1>4, <1>5

-----------------------------------------------------------------------------
(* The agenda as a set *)

\* What a concatenation holds, and what is before and after the head.
LEMMA RangeOfConcat ==
  ASSUME NEW S, NEW s \in Seq(S), NEW t \in Seq(S)
  PROVE  Range(s \o t) = Range(s) \cup Range(t)
<1>1. /\ DOMAIN s = 1..Len(s) /\ DOMAIN t = 1..Len(t)
      /\ DOMAIN (s \o t) = 1..Len(s) + Len(t)
      /\ Len(s) \in Nat /\ Len(t) \in Nat
  OBVIOUS
<1>2. \A i \in 1..Len(s) : (s \o t)[i] = s[i]
  OBVIOUS
<1>3. \A i \in 1..Len(t) : (s \o t)[Len(s) + i] = t[i] /\ Len(s) + i \in 1..Len(s) + Len(t)
  OBVIOUS
<1>4. \A i \in 1..Len(s) + Len(t) : i \in 1..Len(s) \/ i - Len(s) \in 1..Len(t)
  BY <1>1
<1>5. ASSUME NEW x \in Range(s \o t) PROVE x \in Range(s) \cup Range(t)
  <2>1. PICK i \in 1..Len(s) + Len(t) : x = (s \o t)[i]
    BY <1>1, <1>5 DEF Range
  <2>2. CASE i \in 1..Len(s)
    BY <1>1, <1>2, <2>1, <2>2 DEF Range
  <2>3. CASE i - Len(s) \in 1..Len(t)
    <3>1. Len(s) + (i - Len(s)) = i
      BY <1>1
    <3>2. (s \o t)[i] = t[i - Len(s)]
      BY <1>3, <2>3, <3>1
    <3> QED
      BY <1>1, <2>1, <2>3, <3>2 DEF Range
  <2> QED
    BY <1>4, <2>2, <2>3
<1>6. ASSUME NEW x \in Range(s) PROVE x \in Range(s \o t)
  <2>1. PICK i \in 1..Len(s) : x = s[i]
    BY <1>1, <1>6 DEF Range
  <2>2. i \in 1..Len(s) + Len(t)
    BY <1>1
  <2> QED
    BY <1>1, <1>2, <2>1, <2>2 DEF Range
<1>7. ASSUME NEW x \in Range(t) PROVE x \in Range(s \o t)
  <2>1. PICK i \in 1..Len(t) : x = t[i]
    BY <1>1, <1>7 DEF Range
  <2> QED
    BY <1>1, <1>3, <2>1 DEF Range
<1> QED
  BY <1>5, <1>6, <1>7

LEMMA RangeOfTail ==
  ASSUME NEW S, NEW s \in Seq(S), s # << >>
  PROVE  Range(s) = {Head(s)} \cup Range(Tail(s))
<1>1. /\ DOMAIN s = 1..Len(s) /\ DOMAIN Tail(s) = 1..Len(s) - 1
      /\ Len(s) \in Nat /\ Len(s) > 0
  OBVIOUS
<1>2. \A i \in 1..Len(s) - 1 : Tail(s)[i] = s[i + 1] /\ i + 1 \in 1..Len(s)
  OBVIOUS
<1>3. Head(s) = s[1] /\ 1 \in 1..Len(s)
  BY <1>1
<1>4. ASSUME NEW x \in Range(s) PROVE x \in {Head(s)} \cup Range(Tail(s))
  <2>1. PICK i \in 1..Len(s) : x = s[i]
    BY <1>1, <1>4 DEF Range
  <2>2. CASE i = 1
    BY <1>3, <2>1, <2>2
  <2>3. CASE i # 1
    <3>1. i - 1 \in 1..Len(s) - 1 /\ (i - 1) + 1 = i
      BY <1>1, <2>3
    <3>2. Tail(s)[i - 1] = s[i]
      BY <1>2, <3>1
    <3> QED
      BY <1>1, <2>1, <3>1, <3>2 DEF Range
  <2> QED
    BY <2>2, <2>3
<1>5. ASSUME NEW x \in Range(Tail(s)) PROVE x \in Range(s)
  <2>1. PICK i \in 1..Len(s) - 1 : x = Tail(s)[i]
    BY <1>1, <1>5 DEF Range
  <2> QED
    BY <1>1, <1>2, <2>1 DEF Range
<1>6. Head(s) \in Range(s)
  BY <1>1, <1>3 DEF Range
<1> QED
  BY <1>4, <1>5, <1>6

\* So it is of agendas.
LEMMA RangeOfAgenda ==
  \A s, t \in Seq(Entries) : Range(s \o t) = Range(s) \cup Range(t)
BY RangeOfConcat

\* What the recursion still owes, the next visit apart.
Pending == Range(agenda)
Rest == Range(Tail(agenda))

\* The visits a node owes to the nodes after it, and to those inside.
Owes(n, d) == {<<"visit", m, d>> : m \in Range(prog.succ[n])}
                \cup {<<"visit", prog.task[c], d>> : c \in Creations \cap {n}}
Inside(n, d) ==
  CASE prog.kind[n] = "task"  -> {<<"visit", prog.entry[n], nextDomain>>} \cup Owes(n, d)
    [] prog.kind[n] = "graph" -> {<<"visit", prog.entry[n], d>>, <<"leave", n, d>>}
    [] OTHER -> Owes(n, d)

LEMMA OnwardRange ==
  ASSUME prog \in Programs, NEW n \in Nodes, NEW d \in Nat
  PROVE  Range(Onward(n, d)) = Owes(n, d)
<1> DEFINE visits == [i \in DOMAIN prog.succ[n] |-> <<"visit", prog.succ[n][i], d>>]
           first == <<<<"visit", prog.task[n], d>>>>
           owed == {<<"visit", m, d>> : m \in Range(prog.succ[n])}
<1>1. Range(visits) = owed
  BY DEF Range
<1>2. visits \in Seq({"visit"} \X Nodes \X Nat)
  <2>1. prog.succ[n] \in Seq(Nodes)
    BY Shape
  <2>2. PICK k \in Nat : DOMAIN prog.succ[n] = 1..k
    BY <2>1
  <2>3. \A i \in 1..k : prog.succ[n][i] \in Nodes
    BY <2>1, <2>2
  <2> QED
    BY <2>2, <2>3
<1>3. CASE prog.kind[n] = "create"
  <2>1. prog.task[n] \in Nodes
    BY <1>3, Shape
  <2>2. first \in Seq({"visit"} \X Nodes \X Nat)
    BY <2>1
  <2>3. Onward(n, d) = first \o visits
    BY <1>3 DEF Onward
  <2>4. Range(first) = {<<"visit", prog.task[n], d>>}
    BY DEF Range
  <2>5. Owes(n, d) = owed \cup {<<"visit", prog.task[n], d>>}
    BY <1>3 DEF Owes, Creations, OfKind
  <2> HIDE DEF visits, first, owed
  <2>6. Range(first \o visits) = Range(first) \cup Range(visits)
    BY <1>2, <2>2, RangeOfConcat
  <2> QED
    BY <1>1, <2>3, <2>4, <2>5, <2>6
<1>4. CASE prog.kind[n] # "create"
  <2>1. Onward(n, d) = visits
    BY <1>4 DEF Onward
  <2>2. Owes(n, d) = owed
    BY <1>4 DEF Owes, Creations, OfKind
  <2> HIDE DEF visits, owed
  <2> QED
    BY <1>1, <2>1, <2>2
<1> QED
  BY <1>3, <1>4

\* The walk, as the variables have it.
Now == [agenda |-> agenda, visited |-> visited, next |-> nextDomain]

\* What a visit does to it: the node is a seen one, or one that is left, or new.
WalkStep ==
  LET n == Head(agenda)[2]
      d == Head(agenda)[3]
  IN  \/ /\ Head(agenda)[1] = "visit" /\ n \in visited
         /\ visited' = visited /\ Pending' = Rest
      \/ /\ Head(agenda)[1] = "leave" /\ prog.kind[n] = "graph"
         /\ visited' = visited /\ Pending' = Owes(n, d) \cup Rest
      \/ /\ Head(agenda)[1] = "visit" /\ n \notin visited
         /\ visited' = visited \cup {n} /\ Pending' = Inside(n, d) \cup Rest

LEMMA VisitWalks ==
  ASSUME IInv, Visit
  PROVE  /\ Head(agenda)[2] \in Nodes /\ Head(agenda)[3] \in Nat
         /\ Pending = {Head(agenda)} \cup Rest
         /\ Now' = Turn(prog, Now)
         /\ WalkStep
         /\ prog' = prog /\ phase = "passes" /\ phase' = "passes"
<1> DEFINE n == Head(agenda)[2]
           d == Head(agenda)[3]
<1>1. phase = "passes" /\ agenda # << >> /\ prog \in Programs
  BY DEF Visit, IInv
<1>2. /\ n \in Nodes /\ d \in Nat
      /\ agenda \in Seq(Entries) /\ Tail(agenda) \in Seq(Entries)
      /\ Head(agenda)[1] = "leave" => prog.kind[n] = "graph"
  BY <1>1, HeadTypes DEF IInv, TypeOK
<1>3. Pending = {Head(agenda)} \cup Rest
  BY <1>1, <1>2, RangeOfTail DEF Pending, Rest
<1>4. /\ Onward(n, d) \in Seq(Entries) /\ Range(Onward(n, d)) = Owes(n, d)
      /\ Onward(n, d) = OnwardOf(prog, n, d)
  BY <1>1, <1>2, OnwardTypes, OnwardRange DEF Onward, OnwardOf
<1>5. Range(Onward(n, d) \o Tail(agenda)) = Owes(n, d) \cup Rest
  BY <1>2, <1>4, RangeOfAgenda DEF Rest
<1>6. nextDomain \in Nat
  BY DEF IInv, TypeOK
<1> HIDE DEF n, d
<1>7. ASSUME NEW out, Arrive(n, prog.kind[n]), Depart(n, d, out), nextDomain' = nextDomain,
             prog.kind[n] \notin {"task", "graph"}
      PROVE  Now' = Turn(prog, Now) /\ WalkStep /\ prog' = prog /\ phase' = phase
  <2>1. /\ Head(agenda)[1] = "visit" /\ n \notin visited
        /\ visited' = visited \cup {n} /\ agenda' = Onward(n, d) \o Tail(agenda)
        /\ prog' = prog /\ phase' = phase
    BY <1>7 DEF Arrive, Depart
  <2>2. Inside(n, d) = Owes(n, d)
    BY <1>7 DEF Inside
  <2>3. Pending' = Inside(n, d) \cup Rest
    BY <1>5, <2>1, <2>2 DEF Pending
  <2>4. WalkStep
    BY <2>1, <2>3 DEF WalkStep, n, d
  <2>5. Now' = Turn(prog, Now)
    BY <1>4, <1>7, <2>1 DEF Turn, Now, n, d
  <2> QED
    BY <2>1, <2>4, <2>5
<1>8. CASE Revisit(n)
  <2>1. /\ Head(agenda)[1] = "visit" /\ n \in visited /\ agenda' = Tail(agenda)
        /\ visited' = visited /\ nextDomain' = nextDomain /\ prog' = prog /\ phase' = phase
    BY <1>8 DEF Revisit
  <2>2. WalkStep
    BY <2>1 DEF WalkStep, Pending, Rest, n, d
  <2>3. Now' = Turn(prog, Now)
    BY <2>1 DEF Turn, Now, n, d
  <2> QED
    BY <1>1, <1>2, <1>3, <2>1, <2>2, <2>3 DEF n, d
<1>9. CASE VisitTask(n, d)
  <2> DEFINE e == <<"visit", prog.entry[n], nextDomain>>
  <2>1. /\ Head(agenda)[1] = "visit" /\ n \notin visited /\ prog.kind[n] = "task"
        /\ visited' = visited \cup {n} /\ agenda' = <<e>> \o Onward(n, d) \o Tail(agenda)
        /\ prog' = prog /\ phase' = phase /\ nextDomain' = nextDomain + 1
    BY <1>9 DEF VisitTask, Arrive
  <2>2. e \in Entries
    BY <1>1, <1>2, <1>6, <2>1, Shape DEF Entries
  <2>3. Range(<<e>>) = {e} /\ <<e>> \in Seq(Entries)
    BY <2>2 DEF Range
  <2>4. Range(<<e>> \o Onward(n, d)) = {e} \cup Owes(n, d)
    BY <1>4, <2>3, RangeOfAgenda
  <2>5. <<e>> \o Onward(n, d) \in Seq(Entries)
    BY <1>4, <2>3
  <2>6. Range(<<e>> \o Onward(n, d) \o Tail(agenda)) = {e} \cup Owes(n, d) \cup Rest
    BY <1>2, <2>4, <2>5, RangeOfAgenda DEF Rest
  <2>7. Inside(n, d) = {e} \cup Owes(n, d)
    BY <2>1 DEF Inside
  <2>8. Pending' = Inside(n, d) \cup Rest
    BY <2>1, <2>6, <2>7 DEF Pending
  <2>9. WalkStep
    BY <2>1, <2>8 DEF WalkStep, n, d
  <2>10. Now' = Turn(prog, Now)
    <3>1. Now' = [agenda |-> <<e>> \o Onward(n, d) \o Tail(agenda),
                  visited |-> visited \cup {n}, next |-> nextDomain + 1]
      BY <2>1 DEF Now
    <3>2. Turn(prog, Now) = [agenda |-> <<e>> \o OnwardOf(prog, n, d) \o Tail(agenda),
                             visited |-> visited \cup {n}, next |-> nextDomain + 1]
      BY <2>1 DEF Turn, Now, n, d
    <3> QED
      BY <1>4, <3>1, <3>2
  <2> QED
    BY <1>1, <1>2, <1>3, <2>1, <2>9, <2>10 DEF n, d
<1>10. CASE VisitGraph(n, d)
  <2> DEFINE e == <<"visit", prog.entry[n], d>>
             l == <<"leave", n, d>>
  <2>1. /\ Head(agenda)[1] = "visit" /\ n \notin visited /\ prog.kind[n] = "graph"
        /\ visited' = visited \cup {n} /\ agenda' = <<e, l>> \o Tail(agenda)
        /\ prog' = prog /\ phase' = phase /\ nextDomain' = nextDomain
    BY <1>10 DEF VisitGraph, Arrive
  <2>2. e \in Entries /\ l \in Entries
    BY <1>1, <1>2, <2>1, Shape DEF Entries, OfKind
  <2>3. Range(<<e, l>>) = {e, l} /\ <<e, l>> \in Seq(Entries)
    BY <2>2 DEF Range
  <2>4. Range(<<e, l>> \o Tail(agenda)) = {e, l} \cup Rest
    BY <1>2, <2>3, RangeOfAgenda DEF Rest
  <2>5. Inside(n, d) = {e, l}
    BY <2>1 DEF Inside
  <2>6. Pending' = Inside(n, d) \cup Rest
    BY <2>1, <2>4, <2>5 DEF Pending
  <2>7. WalkStep
    BY <2>1, <2>6 DEF WalkStep, n, d
  <2>8. Now' = Turn(prog, Now)
    <3>1. Now' = [agenda |-> <<e, l>> \o Tail(agenda),
                  visited |-> visited \cup {n}, next |-> nextDomain]
      BY <2>1 DEF Now
    <3>2. Turn(prog, Now) = [agenda |-> <<e, l>> \o Tail(agenda),
                             visited |-> visited \cup {n}, next |-> nextDomain]
      BY <2>1 DEF Turn, Now, n, d
    <3> QED
      BY <3>1, <3>2
  <2> QED
    BY <1>1, <1>2, <1>3, <2>1, <2>7, <2>8 DEF n, d
<1>11. CASE LeaveGraph(n, d)
  <2>1. /\ Head(agenda)[1] = "leave" /\ prog.kind[n] = "graph"
        /\ visited' = visited /\ agenda' = Onward(n, d) \o Tail(agenda)
        /\ prog' = prog /\ phase' = phase /\ nextDomain' = nextDomain
    BY <1>2, <1>11 DEF LeaveGraph, Depart
  <2>2. Pending' = Owes(n, d) \cup Rest
    BY <1>5, <2>1 DEF Pending
  <2>3. WalkStep
    BY <2>1, <2>2 DEF WalkStep, n, d
  <2>4. Now' = Turn(prog, Now)
    BY <1>4, <2>1 DEF Turn, Now, n, d
  <2> QED
    BY <1>1, <1>2, <1>3, <2>1, <2>3, <2>4 DEF n, d
<1>12. CASE VisitBarrier(n, d)
  BY <1>1, <1>2, <1>3, <1>7, <1>12 DEF VisitBarrier, Arrive, n, d
<1>13. CASE VisitTaskwait(n, d)
  BY <1>1, <1>2, <1>3, <1>7, <1>13 DEF VisitTaskwait, Arrive, n, d
<1>14. CASE VisitWaiton(n, d)
  BY <1>1, <1>2, <1>3, <1>7, <1>14 DEF VisitWaiton, Arrive, n, d
<1>15. CASE VisitCreation(n, d)
  BY <1>1, <1>2, <1>3, <1>7, <1>15 DEF VisitCreation, Arrive, n, d
<1>16. CASE VisitOther(n, d)
  BY <1>1, <1>2, <1>3, <1>7, <1>16 DEF VisitOther, Arrive, n, d
<1> QED
  BY <1>8, <1>9, <1>10, <1>11, <1>12, <1>13, <1>14, <1>15, <1>16 DEF Visit, n, d

-----------------------------------------------------------------------------
(* What holds of the walk in every pass *)

\* Nodes seen, or on the agenda.
Due(m) == m \in visited \/ \E e \in Pending : e[1] = "visit" /\ e[2] = m

\* The pass has come to some visit of the one walk there is.
OnTheWalk == \E k \in Nat : \E h : IsHistory(prog, h, k) /\ h[k] = Now

\* A visit is in the domain of the code of its node.
VisitsNumbered ==
  \A e \in Pending : IsDomain(prog, prog.owner[e[2]], e[3])

\* A graph or a task is seen before its entry.
EntriesAfter ==
  \A g \in Nodes : prog.kind[g] \in {"graph", "task"} /\ Due(prog.entry[g]) => g \in visited

\* What a node owes is on the agenda or has been done.
NothingDropped ==
  /\ Due(prog.root)
  /\ \A n \in visited :
       /\ prog.kind[n] \in {"graph", "task"} => Due(prog.entry[n])
       /\ prog.kind[n] = "create" => Due(prog.task[n])
       /\ \/ prog.kind[n] = "graph" /\ \E e \in Pending : e[1] = "leave" /\ e[2] = n
          \/ \A m \in Range(prog.succ[n]) : Due(m)

WalkInv ==
  phase = "passes" =>
    OnTheWalk /\ VisitsNumbered /\ EntriesAfter /\ NothingDropped

\* It holds of a pass that begins.
LEMMA WalkBegins ==
  ASSUME prog \in Programs, agenda = Walk, visited = {}, nextDomain = 1
  PROVE  OnTheWalk /\ VisitsNumbered /\ EntriesAfter /\ NothingDropped
<1>1. Pending = {<<"visit", prog.root, 0>>}
  BY DEF Pending, Walk, Range
<1>2. OnTheWalk
  <2> DEFINE h == [i \in {0} |-> Now]
  <2>1. IsHistory(prog, h, 0) /\ h[0] = Now
    BY DEF IsHistory, Now, Walk
  <2> QED
    BY <2>1 DEF OnTheWalk
<1>3. VisitsNumbered
  <2>1. IsDomain(prog, prog.owner[prog.root], 0)
    BY Structure DEF IsDomain
  <2> QED
    BY <1>1, <2>1 DEF VisitsNumbered
<1>4. EntriesAfter
  <2>1. prog.root \in Nodes /\ prog.kind[prog.root] = "graph"
    BY Shape
  <2>2. \A g \in Nodes : prog.kind[g] \in {"graph", "task"} => prog.entry[g] # prog.root
    BY <2>1, Structure
  <2> QED
    BY <1>1, <2>2 DEF EntriesAfter, Due
<1>5. NothingDropped
  BY <1>1 DEF NothingDropped, Due
<1> QED
  BY <1>2, <1>3, <1>4, <1>5

\* A visit is the next one of the walk.
LEMMA VisitOnTheWalk ==
  ASSUME OnTheWalk, Now' = Turn(prog, Now), prog' = prog
  PROVE  OnTheWalk'
<1>a. PICK k \in Nat : \E h : IsHistory(prog, h, k) /\ h[k] = Now
  BY DEF OnTheWalk
<1>1. PICK h : IsHistory(prog, h, k) /\ h[k] = Now
  BY <1>a
<1> DEFINE g == [i \in 0..k + 1 |-> IF i <= k THEN h[i] ELSE Now']
<1>2. \A i \in 0..k : g[i] = h[i]
  OBVIOUS
<1>3. g[k + 1] = Now'
  OBVIOUS
<1> HIDE DEF g
<1>4. g[0] = h[0]
  BY <1>2
<1>5. ASSUME NEW i \in 1..k + 1 PROVE g[i] = Turn(prog, g[i - 1])
  <2>1. CASE i = k + 1
    <3>1. i - 1 = k /\ g[i - 1] = h[k]
      BY <1>2, <2>1
    <3> QED
      BY <1>1, <1>3, <2>1, <3>1
  <2>2. CASE i # k + 1
    <3>1. i \in 1..k /\ i - 1 \in 0..k /\ i \in 0..k
      BY <2>2
    <3>2. h[i] = Turn(prog, h[i - 1])
      BY <1>1, <3>1 DEF IsHistory
    <3> QED
      BY <1>2, <3>1, <3>2
  <2> QED
    BY <2>1, <2>2
<1>6. IsHistory(prog, g, k + 1)
  BY <1>1, <1>4, <1>5 DEF IsHistory
<1>7. k + 1 \in Nat
  OBVIOUS
<1> QED
  BY <1>3, <1>6, <1>7 DEF OnTheWalk

\* A task is about to get its number.
LEMMA TaskNumbered ==
  ASSUME prog \in Programs, OnTheWalk, Head(agenda)[1] = "visit",
         NEW n \in Nodes, Head(agenda)[2] = n, n \notin visited, prog.kind[n] = "task"
  PROVE  IsDomain(prog, n, nextDomain)
<1>a. PICK k \in Nat : \E h : IsHistory(prog, h, k) /\ h[k] = Now
  BY DEF OnTheWalk
<1>1. PICK h : IsHistory(prog, h, k) /\ h[k] = Now
  BY <1>a
<1>2. Numbers(prog, Now, n)
  BY DEF Numbers, Now
<1>3. n # prog.root
  BY Shape
<1>4. Now.next = nextDomain
  BY DEF Now
<1> QED
  BY <1>1, <1>2, <1>3, <1>4 DEF IsDomain

\* What a visit puts on the agenda.
LEMMA OwesWhat ==
  ASSUME prog \in Programs, NEW n \in Nodes, NEW d
  PROVE  /\ \A e \in Owes(n, d) :
              /\ e[1] = "visit" /\ e[2] \in Nodes /\ e[3] = d
              /\ prog.owner[e[2]] = prog.owner[n] /\ prog.kind[e[2]] # "entry"
         /\ \A m \in Range(prog.succ[n]) : <<"visit", m, d>> \in Owes(n, d)
         /\ prog.kind[n] = "create" => <<"visit", prog.task[n], d>> \in Owes(n, d)
<1>1. \A m \in Range(prog.succ[n]) :
        m \in Nodes /\ prog.owner[m] = prog.owner[n] /\ prog.kind[m] # "entry"
  BY Structure
<1>2. prog.kind[n] = "create" =>
        /\ prog.task[n] \in Nodes /\ prog.owner[prog.task[n]] = prog.owner[n]
        /\ prog.kind[prog.task[n]] = "task"
  BY Shape, Structure
<1>3. Creations \cap {n} = IF prog.kind[n] = "create" THEN {n} ELSE {}
  BY DEF Creations, OfKind
<1> QED
  BY <1>1, <1>2, <1>3 DEF Owes

\* What a visit does keeps the rest of the walk's invariant.
LEMMA WalkGoesOn ==
  ASSUME prog \in Programs, prog' = prog, visited \subseteq Nodes,
         Head(agenda)[2] \in Nodes, Pending = {Head(agenda)} \cup Rest,
         OnTheWalk, VisitsNumbered, EntriesAfter, NothingDropped, WalkStep
  PROVE  VisitsNumbered' /\ EntriesAfter' /\ NothingDropped'
<1> DEFINE n == Head(agenda)[2]
           d == Head(agenda)[3]
           DueAfter(m) == m \in visited' \/ \E e \in Pending' : e[1] = "visit" /\ e[2] = m
<1>1. IsDomain(prog, prog.owner[n], d)
  BY DEF VisitsNumbered
<1>2. n \in Nodes /\ Rest \subseteq Pending
  OBVIOUS
<1>3. /\ Nodes' = Nodes
      /\ \A e \in Owes(n, d) :
           /\ e[1] = "visit" /\ e[2] \in Nodes /\ e[3] = d
           /\ prog.owner[e[2]] = prog.owner[n] /\ prog.kind[e[2]] # "entry"
      /\ \A m \in Range(prog.succ[n]) : <<"visit", m, d>> \in Owes(n, d)
      /\ prog.kind[n] = "create" => <<"visit", prog.task[n], d>> \in Owes(n, d)
  BY <1>2, OwesWhat, SameProgram
<1>4. /\ prog.kind[n] = "task" =>
           Inside(n, d) = {<<"visit", prog.entry[n], nextDomain>>} \cup Owes(n, d)
      /\ prog.kind[n] = "graph" =>
           Inside(n, d) = {<<"visit", prog.entry[n], d>>, <<"leave", n, d>>}
      /\ prog.kind[n] \notin {"task", "graph"} => Inside(n, d) = Owes(n, d)
  BY DEF Inside
<1>5. prog.kind[n] \in {"graph", "task"} =>
        /\ prog.owner[prog.entry[n]] = (IF prog.kind[n] = "task" THEN n ELSE prog.owner[n])
        /\ \A g \in Nodes : prog.kind[g] \in {"graph", "task"} /\ prog.entry[g] = prog.entry[n]
             => g = n
  BY <1>2, Structure
<1>6. \A g \in Nodes : prog.kind[g] \in {"graph", "task"} => prog.kind[prog.entry[g]] = "entry"
  BY Structure
<1>7. Pending' \subseteq Rest \cup Owes(n, d) \cup Inside(n, d)
  BY DEF WalkStep
<1>8. VisitsNumbered'
  <2> SUFFICES ASSUME NEW e \in Pending' PROVE IsDomain(prog, prog.owner[e[2]], e[3])
    BY DEF VisitsNumbered
  <2>1. CASE e \in Rest
    BY <1>2, <2>1 DEF VisitsNumbered
  <2>2. CASE e \in Owes(n, d)
    BY <1>1, <1>3, <2>2
  <2>3. CASE e \notin Rest /\ e \notin Owes(n, d)
    <3>1. /\ Head(agenda)[1] = "visit" /\ n \notin visited
          /\ e \in Inside(n, d) /\ prog.kind[n] \in {"task", "graph"}
      BY <1>4, <2>3 DEF WalkStep
    <3>2. CASE prog.kind[n] = "task"
      <4>1. e = <<"visit", prog.entry[n], nextDomain>>
        BY <1>4, <2>3, <3>1, <3>2
      <4>2. IsDomain(prog, n, nextDomain)
        BY <1>2, <3>1, <3>2, TaskNumbered
      <4> QED
        BY <1>5, <3>2, <4>1, <4>2
    <3>3. CASE prog.kind[n] = "graph"
      <4>1. e = <<"visit", prog.entry[n], d>> \/ e = <<"leave", n, d>>
        BY <1>4, <3>1, <3>3
      <4> QED
        BY <1>1, <1>5, <3>3, <4>1
    <3> QED
      BY <3>1, <3>2, <3>3
  <2> QED
    BY <2>1, <2>2, <2>3
<1>9. EntriesAfter'
  <2> SUFFICES ASSUME NEW g \in Nodes, prog.kind[g] \in {"graph", "task"}, DueAfter(prog.entry[g])
               PROVE  g \in visited'
    BY <1>3 DEF EntriesAfter, Due
  <2>1. visited \subseteq visited'
    BY DEF WalkStep
  <2>2. CASE Due(prog.entry[g])
    BY <2>1, <2>2 DEF EntriesAfter
  <2>3. CASE ~Due(prog.entry[g])
    <3>1. prog.entry[g] \notin visited /\ \A e \in Pending : ~(e[1] = "visit" /\ e[2] = prog.entry[g])
      BY <2>3 DEF Due
    <3>2. prog.entry[g] \notin visited'
      BY <3>1 DEF WalkStep
    <3>3. PICK e \in Pending' : e[1] = "visit" /\ e[2] = prog.entry[g]
      BY <3>2 DEF Due
    <3>4. e \notin Rest /\ e \notin Owes(n, d)
      BY <1>2, <1>3, <1>6, <3>1, <3>3
    <3>5. /\ Head(agenda)[1] = "visit" /\ visited' = visited \cup {n}
          /\ e \in Inside(n, d) /\ prog.kind[n] \in {"task", "graph"}
      BY <1>4, <3>4 DEF WalkStep
    <3>6. e[2] = prog.entry[n]
      BY <1>4, <3>3, <3>4, <3>5
    <3> QED
      BY <1>5, <3>3, <3>5, <3>6
  <2> QED
    BY <2>2, <2>3
<1>10. ASSUME NEW m, Due(m) PROVE DueAfter(m)
  <2>1. visited \subseteq visited' /\ Rest \subseteq Pending'
    BY DEF WalkStep
  <2>2. CASE m \in visited
    BY <2>1, <2>2 DEF Due
  <2>3. ASSUME NEW e \in Pending, e[1] = "visit", e[2] = m PROVE DueAfter(m)
    <3>1. CASE e \in Rest
      BY <2>1, <2>3, <3>1 DEF Due
    <3>2. CASE e = Head(agenda)
      <4>1. m = n /\ n \in visited'
        BY <2>3, <3>2 DEF WalkStep
      <4> QED
        BY <4>1 DEF Due
    <3> QED
      BY <2>3, <3>1, <3>2
  <2> QED
    BY <1>10, <2>2, <2>3 DEF Due
<1>11. ASSUME Owes(n, d) \subseteq Pending'
       PROVE  /\ \A m \in Range(prog.succ[n]) : DueAfter(m)
              /\ prog.kind[n] = "create" => DueAfter(prog.task[n])
  <2>1. ASSUME NEW e \in Owes(n, d) PROVE DueAfter(e[2])
    BY <1>3, <1>11, <2>1 DEF Due
  <2>2. ASSUME NEW m \in Range(prog.succ[n]) PROVE DueAfter(m)
    <3>1. <<"visit", m, d>> \in Owes(n, d)
      BY <1>3, <2>2
    <3> QED
      BY <2>1, <3>1
  <2>3. ASSUME prog.kind[n] = "create" PROVE DueAfter(prog.task[n])
    <3>1. <<"visit", prog.task[n], d>> \in Owes(n, d)
      BY <1>3, <2>3
    <3> QED
      BY <1>11, <3>1 DEF Due
  <2> QED
    BY <2>2, <2>3
<1>12. NothingDropped'
  <2>1. DueAfter(prog.root)
    <3>1. Due(prog.root)
      BY DEF NothingDropped
    <3> QED
      BY <1>10, <3>1 DEF Due
  <2>2. ASSUME NEW x \in visited'
        PROVE  /\ prog.kind[x] \in {"graph", "task"} => DueAfter(prog.entry[x])
               /\ prog.kind[x] = "create" => DueAfter(prog.task[x])
               /\ \/ prog.kind[x] = "graph" /\ \E e \in Pending' : e[1] = "leave" /\ e[2] = x
                  \/ \A m \in Range(prog.succ[x]) : DueAfter(m)
    <3>1. CASE x \in visited
      <4>1. /\ prog.kind[x] \in {"graph", "task"} => Due(prog.entry[x])
            /\ prog.kind[x] = "create" => Due(prog.task[x])
            /\ \/ prog.kind[x] = "graph" /\ \E e \in Pending : e[1] = "leave" /\ e[2] = x
               \/ \A m \in Range(prog.succ[x]) : Due(m)
        BY <3>1 DEF NothingDropped
      <4>2. prog.kind[x] \in {"graph", "task"} => DueAfter(prog.entry[x])
        BY <1>10, <4>1 DEF Due
      <4>3. prog.kind[x] = "create" => DueAfter(prog.task[x])
        BY <1>10, <4>1 DEF Due
      <4>4. CASE \A m \in Range(prog.succ[x]) : Due(m)
        <5>1. \A m \in Range(prog.succ[x]) : DueAfter(m)
          BY <1>10, <4>4
        <5> QED
          BY <4>2, <4>3, <5>1
      <4>5. ASSUME prog.kind[x] = "graph", NEW e \in Pending, e[1] = "leave", e[2] = x
            PROVE  \/ prog.kind[x] = "graph" /\ \E f \in Pending' : f[1] = "leave" /\ f[2] = x
                   \/ \A m \in Range(prog.succ[x]) : DueAfter(m)
        <5>1. CASE e \in Rest
          <6>1. e \in Pending'
            BY <5>1 DEF WalkStep
          <6> QED
            BY <4>5, <6>1
        <5>2. CASE e = Head(agenda)
          <6>1. x = n /\ Owes(n, d) \subseteq Pending'
            BY <4>5, <5>2 DEF WalkStep
          <6> QED
            BY <1>11, <6>1
        <5> QED
          BY <4>5, <5>1, <5>2
      <4> QED
        BY <4>1, <4>2, <4>3, <4>4, <4>5
    <3>2. CASE x \notin visited
      <4>1. x = n /\ Inside(n, d) \subseteq Pending'
        BY <3>2 DEF WalkStep
      <4>2. CASE prog.kind[n] = "graph"
        <5>1. <<"leave", n, d>> \in Pending' /\ <<"visit", prog.entry[n], d>> \in Pending'
          BY <1>4, <4>1, <4>2
        <5>2. DueAfter(prog.entry[n])
          BY <5>1 DEF Due
        <5> QED
          BY <4>1, <4>2, <5>1, <5>2
      <4>3. CASE prog.kind[n] = "task"
        <5>1. Owes(n, d) \subseteq Pending' /\ <<"visit", prog.entry[n], nextDomain>> \in Pending'
          BY <1>4, <4>1, <4>3
        <5>2. DueAfter(prog.entry[n])
          BY <5>1 DEF Due
        <5> QED
          BY <1>11, <4>1, <4>3, <5>1, <5>2
      <4>4. CASE prog.kind[n] \notin {"task", "graph"}
        <5>1. Owes(n, d) \subseteq Pending'
          BY <1>4, <4>1, <4>4
        <5> QED
          BY <1>11, <4>1, <4>4, <5>1
      <4> QED
        BY <4>2, <4>3, <4>4
    <3> QED
      BY <3>1, <3>2
  <2> QED
    BY <2>1, <2>2 DEF NothingDropped, Due
<1> QED
  BY <1>8, <1>9, <1>12

\* The walk's invariant is one of the specification.
LEMMA WalkInvAlways == Spec => []WalkInv
<1>1. Init => WalkInv
  BY WalkBegins DEF Init, WalkInv
<1>2. IInv /\ WalkInv /\ [Next]_vars => WalkInv'
  <2> SUFFICES ASSUME IInv, WalkInv, [Next]_vars PROVE WalkInv'
    OBVIOUS
  <2>1. CASE Visit
    <3>1. /\ Head(agenda)[2] \in Nodes /\ Pending = {Head(agenda)} \cup Rest
          /\ Now' = Turn(prog, Now) /\ WalkStep
          /\ prog' = prog /\ phase = "passes"
      BY <2>1, VisitWalks
    <3>2. prog \in Programs /\ visited \subseteq Nodes
      BY DEF IInv, TypeOK
    <3>3. OnTheWalk /\ VisitsNumbered /\ EntriesAfter /\ NothingDropped
      BY <3>1 DEF WalkInv
    <3>4. OnTheWalk'
      BY <3>1, <3>3, VisitOnTheWalk
    <3>5. VisitsNumbered' /\ EntriesAfter' /\ NothingDropped'
      BY <3>1, <3>2, <3>3, WalkGoesOn
    <3> QED
      BY <3>4, <3>5 DEF WalkInv
  <2>2. CASE EndPass
    <3>1. CASE changed
      <4>1. /\ prog' = prog /\ agenda' = Walk /\ visited' = {} /\ nextDomain' = 1
        BY <2>2, <3>1 DEF EndPass
      <4>2. prog \in Programs
        BY DEF IInv
      <4>3. (prog \in Programs /\ agenda = Walk /\ visited = {} /\ nextDomain = 1)'
        BY <4>1, <4>2 DEF Walk
      <4>4. OnTheWalk' /\ VisitsNumbered' /\ EntriesAfter' /\ NothingDropped'
        BY <4>3, WalkBegins, PTL
      <4> QED
        BY <4>4 DEF WalkInv
    <3>2. CASE ~changed
      BY <2>2, <3>2 DEF EndPass, WalkInv
    <3> QED
      BY <3>1, <3>2
  <2>3. CASE Connect \/ ConnectPost
    BY <2>3 DEF Connect, ConnectPost, WalkInv
  <2>4. CASE UNCHANGED vars
    BY <2>4 DEF vars, WalkInv, OnTheWalk, VisitsNumbered, EntriesAfter, NothingDropped,
                Due, Pending, Now, Nodes
  <2> QED
    BY <2>1, <2>2, <2>3, <2>4 DEF Next
<1> QED
  BY <1>1, <1>2, IInvAlways, PTL DEF Spec

-----------------------------------------------------------------------------
(* What a visit of a node with nothing inside does, in the words of the
   reference *)

\* The item is of a task with the domain of its creation's code.
Legit(x) == \E c \in Creations : /\ prog.task[c] = x[1]
                                 /\ IsDomain(prog, prog.owner[c], x[2])

HasPoint(t, p) == \E q \in points[t] : q[1] = p

\* The task t, alive before node n, is recorded there when it must be.
Noted(t, n) ==
  /\ prog.kind[n] = "create" /\ SameCode(t, n) /\ TaskRel(t, prog.task[n]) # "no"
       => HasPoint(t, prog.task[n])
  /\ prog.kind[n] = "waiton" /\ SameCode(t, n) /\ WaitRel(t, n) # "no" => HasPoint(t, n)
  /\ prog.kind[n] = "taskwait" /\ SameCode(t, n) /\ t \notin dead => HasPoint(t, n)
  /\ prog.kind[n] = "barrier" /\ t \notin dead => HasPoint(t, n)

\* No point is lost, and no expired task comes back.
Kept == /\ dead \subseteq dead'
        /\ \A t \in Tasks : \A q \in points[t] : \E r \in points'[t] : r[1] = q[1]

LeafVisit(n, d, out) ==
  /\ prog.kind[n] \notin {"graph", "task"}
  /\ Head(agenda)[1] = "visit" /\ n \notin visited
  /\ visited' = visited \cup {n}
  /\ liveIn' = [liveIn EXCEPT ![n] = NewIn(n)]
  /\ Depart(n, d, out)

\* The tasks that leave n.
LeafAlive(n, d, out) ==
  /\ \A x \in out :
       \/ x \in liveOut[n]
       \/ x \in NewIn(n) /\ Outlives(x[1], n, dead)
       \/ prog.kind[n] = "create" /\ (x = <<prog.task[n], d>> \/ x \in liveIn[prog.exit[prog.task[n]]])
  /\ \A x \in NewIn(n) : Outlives(x[1], n, {}) => x \in out
  /\ prog.kind[n] = "create" =>
       <<prog.task[n], d>> \in out /\ liveIn[prog.exit[prog.task[n]]] \subseteq out
  /\ prog.kind[n] = "exit" => out = NewIn(n)

LeafEffect(n, d, out) ==
  /\ LeafVisit(n, d, out)
  /\ LeafAlive(n, d, out)
  /\ Kept
  /\ \A x \in NewIn(n) : Noted(x[1], n)'

\* An item has the domain of a node when its task was created in that code.
LEMMA SameDomain ==
  ASSUME prog \in Programs, NEW n \in Nodes, NEW d, IsDomain(prog, prog.owner[n], d),
         NEW x, Legit(x)
  PROVE  SameCode(x[1], n) <=> x[2] = d
<1>1. PICK c \in Creations : prog.task[c] = x[1] /\ IsDomain(prog, prog.owner[c], x[2])
  BY DEF Legit
<1>2. ASSUME SameCode(x[1], n) PROVE x[2] = d
  <2>1. PICK b \in Creations : prog.task[b] = x[1] /\ prog.owner[b] = prog.owner[n]
    BY <1>2 DEF SameCode
  <2>2. b = c
    BY <1>1, <2>1, Structure DEF Creations, OfKind
  <2>3. IsDomain(prog, prog.owner[n], x[2])
    BY <1>1, <2>1, <2>2
  <2> QED
    BY <2>3, DomainUnique
<1>3. ASSUME x[2] = d PROVE SameCode(x[1], n)
  <2>1. IsDomain(prog, prog.owner[c], d)
    BY <1>1, <1>3
  <2>2. prog.owner[c] = prog.owner[n]
    BY <2>1, DomainOwner
  <2> QED
    BY <1>1, <2>2 DEF SameCode
<1> QED
  BY <1>2, <1>3

\* A wait without dependences records the tasks it waits for.
LEMMA WaitKeepsPoints ==
  ASSUME NEW w, NEW n, points' = PointsAfterWait(w, n), dead' = dead
  PROVE  /\ Kept
         /\ \A s \in Tasks : s \in w \ dead => \E r \in points'[s] : r[1] = n
<1>1. ASSUME NEW s \in Tasks, NEW q \in points[s] PROVE \E r \in points'[s] : r[1] = q[1]
  <2>1. CASE s \notin w
    BY <1>1, <2>1 DEF PointsAfterWait
  <2>2. CASE s \in w \ dead
    BY <1>1, <2>2 DEF PointsAfterWait
  <2>3. CASE s \in w \cap dead
    <3>1. points'[s] = IF \E p \in points[s] : points[s] = {p}
                       THEN {<<p[1], "static">> : p \in points[s]} ELSE points[s]
      BY <2>3 DEF PointsAfterWait
    <3>2. CASE \E p \in points[s] : points[s] = {p}
      <4>1. <<q[1], "static">> \in points'[s]
        BY <1>1, <3>1, <3>2
      <4> QED
        BY <4>1
    <3> QED
      BY <1>1, <3>1, <3>2
  <2> QED
    BY <2>1, <2>2, <2>3
<1>2. ASSUME NEW s \in Tasks, s \in w \ dead PROVE \E r \in points'[s] : r[1] = n
  <2>1. points'[s] = points[s] \cup {<<n, "static">>}
    BY <1>2 DEF PointsAfterWait
  <2>2. <<n, "static">> \in points'[s] /\ <<n, "static">>[1] = n
    BY <2>1
  <2> QED
    BY <2>2, Zenon
<1> QED
  BY <1>1, <1>2 DEF Kept

\* A wait with dependences, or a creation, those it may synchronise.
LEMMA SyncKeepsPoints ==
  ASSUME NEW alive, NEW d, NEW rel, NEW p,
         points' = PointsAfterSync(alive, d, rel, p), dead \subseteq dead'
  PROVE  /\ Kept
         /\ \A s \in Tasks : <<s, d>> \in alive /\ rel[s] # "no"
              => \E r \in points'[s] : r[1] = p
<1>1. \A s \in Tasks : points'[s] = points[s]
                       \/ points'[s] = points[s] \cup {<<p, KindOf(rel[s])>>}
  BY DEF PointsAfterSync, AddPoint
<1>2. ASSUME NEW s \in Tasks, <<s, d>> \in alive, rel[s] # "no"
      PROVE  \E r \in points'[s] : r[1] = p
  <2>1. points'[s] = AddPoint(points[s], p, KindOf(rel[s]))
    BY <1>2 DEF PointsAfterSync
  <2>2. CASE \E q \in points[s] : q[1] = p
    BY <2>1, <2>2 DEF AddPoint
  <2>3. CASE ~ \E q \in points[s] : q[1] = p
    <3>1. <<p, KindOf(rel[s])>> \in points'[s]
      BY <2>1, <2>3 DEF AddPoint
    <3> QED
      BY <3>1
  <2> QED
    BY <2>2, <2>3
<1> QED
  BY <1>1, <1>2 DEF Kept

\* A task that is recorded, as the state before a step has it, is so after it.
LEMMA NotedNext ==
  ASSUME prog' = prog, dead \subseteq dead', NEW t, NEW n,
         /\ prog.kind[n] = "create" /\ SameCode(t, n) /\ TaskRel(t, prog.task[n]) # "no"
              => \E r \in points'[t] : r[1] = prog.task[n]
         /\ prog.kind[n] = "waiton" /\ SameCode(t, n) /\ WaitRel(t, n) # "no"
              => \E r \in points'[t] : r[1] = n
         /\ prog.kind[n] = "taskwait" /\ SameCode(t, n) /\ t \notin dead
              => \E r \in points'[t] : r[1] = n
         /\ prog.kind[n] = "barrier" /\ t \notin dead => \E r \in points'[t] : r[1] = n
  PROVE  Noted(t, n)'
<1>1. /\ SameCode(t, n)' <=> SameCode(t, n)
      /\ Matches(t, n)' = Matches(t, n)
  BY SameReference
<1>2. \A p : TaskRel(t, p)' = TaskRel(t, p)
  BY SameProgram
<1>3. WaitRel(t, n)' # "no" => WaitRel(t, n) # "no"
  <2>1. CASE t \in prog.expr
    BY <2>1 DEF WaitRel
  <2>2. CASE t \notin prog.expr /\ t \in dead
    BY <2>2 DEF WaitRel
  <2>3. CASE t \notin prog.expr /\ t \notin dead /\ t \in dead'
    BY <2>3 DEF WaitRel
  <2>4. CASE t \notin prog.expr /\ t \notin dead /\ t \notin dead'
    <3>1. WaitRel(t, n) = Matches(t, n) /\ WaitRel(t, n)' = Matches(t, n)'
      BY <2>4 DEF WaitRel
    <3> QED
      BY <1>1, <3>1
  <2> QED
    BY <2>1, <2>2, <2>3, <2>4
<1>4. (prog.kind[n] = "create" /\ SameCode(t, n) /\ TaskRel(t, prog.task[n]) # "no"
         => HasPoint(t, prog.task[n]))'
  BY <1>1, <1>2 DEF HasPoint
<1>5. (prog.kind[n] = "waiton" /\ SameCode(t, n) /\ WaitRel(t, n) # "no" => HasPoint(t, n))'
  BY <1>1, <1>3 DEF HasPoint
<1>6. (prog.kind[n] = "taskwait" /\ SameCode(t, n) /\ t \notin dead => HasPoint(t, n))'
  BY <1>1 DEF HasPoint
<1>7. (prog.kind[n] = "barrier" /\ t \notin dead => HasPoint(t, n))'
  BY DEF HasPoint
<1> QED
  BY <1>4, <1>5, <1>6, <1>7 DEF Noted

\* So it is when no point is lost.
LEMMA NotedKept ==
  ASSUME prog' = prog, Kept, NEW t \in Tasks, NEW n, Noted(t, n)
  PROVE  Noted(t, n)'
<1>1. \A p : HasPoint(t, p) => \E r \in points'[t] : r[1] = p
  BY DEF Kept, HasPoint
<1>2. dead \subseteq dead'
  BY DEF Kept
<1>3. /\ prog.kind[n] = "create" /\ SameCode(t, n) /\ TaskRel(t, prog.task[n]) # "no"
           => \E r \in points'[t] : r[1] = prog.task[n]
      /\ prog.kind[n] = "waiton" /\ SameCode(t, n) /\ WaitRel(t, n) # "no"
           => \E r \in points'[t] : r[1] = n
      /\ prog.kind[n] = "taskwait" /\ SameCode(t, n) /\ t \notin dead
           => \E r \in points'[t] : r[1] = n
      /\ prog.kind[n] = "barrier" /\ t \notin dead => \E r \in points'[t] : r[1] = n
  BY <1>1 DEF Noted
<1> QED
  BY <1>2, <1>3, NotedNext

\* A barrier and a taskwait.
LEMMA LeafWait ==
  ASSUME IInv, NEW n \in Nodes, NEW d, IsDomain(prog, prog.owner[n], d),
         \A x \in NewIn(n) : Legit(x),
         VisitBarrier(n, d) \/ VisitTaskwait(n, d)
  PROVE  \E out : LeafEffect(n, d, out)
<1>1. prog \in Programs /\ NewIn(n) \in SUBSET Items
  BY NewInType DEF IInv
<1>2. \A x \in NewIn(n) : x[1] \in Tasks /\ x[2] \in Nat /\ x = <<x[1], x[2]>>
  BY <1>1 DEF Items
<1>3. CASE VisitBarrier(n, d)
  <2> DEFINE w == {item[1] : item \in NewIn(n)}
  <2>1. prog.kind[n] = "barrier" /\ prog' = prog /\ dead' = dead
        /\ points' = PointsAfterWait(w, n) /\ LeafVisit(n, d, {})
    BY <1>3 DEF VisitBarrier, Arrive, Depart, LeafVisit
  <2>2. LeafAlive(n, d, {})
    BY <2>1 DEF LeafAlive, Outlives
  <2>3. \A x \in NewIn(n) : x[1] \in w
    OBVIOUS
  <2> HIDE DEF w
  <2>4. Kept /\ \A s \in Tasks : s \in w \ dead => \E r \in points'[s] : r[1] = n
    BY <2>1, WaitKeepsPoints
  <2>5. ASSUME NEW x \in NewIn(n) PROVE Noted(x[1], n)'
    <3>1. x[1] \notin dead => \E r \in points'[x[1]] : r[1] = n
      BY <1>2, <2>3, <2>4, <2>5
    <3> QED
      BY <2>1, <3>1, NotedNext
  <2> QED
    BY <2>1, <2>2, <2>4, <2>5 DEF LeafEffect
<1>4. CASE VisitTaskwait(n, d)
  <2> DEFINE w == {s \in Tasks : <<s, d>> \in NewIn(n)}
             out == {item \in NewIn(n) : item[2] # d}
  <2>1. prog.kind[n] = "taskwait" /\ prog' = prog /\ dead' = dead
        /\ points' = PointsAfterWait(w, n) /\ LeafVisit(n, d, out)
    BY <1>4 DEF VisitTaskwait, Arrive, Depart, LeafVisit
  <2>2. \A x \in NewIn(n) : SameCode(x[1], n) <=> x[2] = d
    BY <1>1, SameDomain
  <2>3. \A e : \A x \in NewIn(n) : Outlives(x[1], n, e) <=> x[2] # d
    BY <2>1, <2>2 DEF Outlives
  <2>4. LeafAlive(n, d, out)
    BY <2>1, <2>3 DEF LeafAlive
  <2>5. \A x \in NewIn(n) : x[2] = d => x[1] \in w
    BY <1>2
  <2> HIDE DEF w, out
  <2>6. Kept /\ \A s \in Tasks : s \in w \ dead => \E r \in points'[s] : r[1] = n
    BY <2>1, WaitKeepsPoints
  <2>7. ASSUME NEW x \in NewIn(n) PROVE Noted(x[1], n)'
    <3>1. SameCode(x[1], n) /\ x[1] \notin dead => \E r \in points'[x[1]] : r[1] = n
      BY <1>2, <2>2, <2>5, <2>6, <2>7
    <3> QED
      BY <2>1, <3>1, NotedNext
  <2> QED
    BY <2>1, <2>4, <2>6, <2>7 DEF LeafEffect
<1> QED
  BY <1>3, <1>4

\* A taskwait with dependences.
LEMMA LeafWaiton ==
  ASSUME IInv, NEW n \in Nodes, NEW d, IsDomain(prog, prog.owner[n], d),
         \A x \in NewIn(n) : Legit(x), VisitWaiton(n, d)
  PROVE  \E out : LeafEffect(n, d, out)
<1> DEFINE rel == [s \in Tasks |-> WaitRel(s, n)]
           stay == AliveAfterSync(NewIn(n), d, rel)
           out == liveOut[n] \cup stay
<1>1. prog \in Programs /\ NewIn(n) \in SUBSET Items
  BY NewInType DEF IInv
<1>2. \A x \in NewIn(n) : x[1] \in Tasks /\ x[2] \in Nat /\ x = <<x[1], x[2]>>
  BY <1>1 DEF Items
<1>3. prog.kind[n] = "waiton" /\ prog' = prog /\ dead' = dead
      /\ points' = PointsAfterSync(NewIn(n), d, rel, n) /\ LeafVisit(n, d, out)
  BY DEF VisitWaiton, Arrive, Depart, LeafVisit
<1>4. \A x \in NewIn(n) : SameCode(x[1], n) <=> x[2] = d
  BY <1>1, SameDomain
<1>5. \A x \in NewIn(n) : x \in stay <=> ~(x[2] = d /\ WaitRel(x[1], n) = "yes")
  BY <1>2 DEF AliveAfterSync, ItemRel
<1>6. \A s \in Tasks : rel[s] = WaitRel(s, n)
  OBVIOUS
<1>7. stay \subseteq NewIn(n)
  BY DEF AliveAfterSync
<1>8. \A s : WaitRel(s, n) = "yes" <=>
               s \notin prog.expr /\ s \notin dead /\ Matches(s, n) = "yes"
  <2> SUFFICES ASSUME NEW s
               PROVE  WaitRel(s, n) = "yes" <=>
                        s \notin prog.expr /\ s \notin dead /\ Matches(s, n) = "yes"
    OBVIOUS
  <2>1. CASE s \in prog.expr
    BY <2>1 DEF WaitRel
  <2>2. CASE s \notin prog.expr /\ s \in dead
    BY <2>2 DEF WaitRel
  <2>3. CASE s \notin prog.expr /\ s \notin dead
    <3>1. WaitRel(s, n) = Matches(s, n)
      BY <2>3 DEF WaitRel
    <3> QED
      BY <2>3, <3>1
  <2> QED
    BY <2>1, <2>2, <2>3
<1>9. \A s, e : Outlives(s, n, e) <=> (SameCode(s, n) /\ Matches(s, n) = "yes" => s \in e \cup prog.expr)
  BY <1>3 DEF Outlives
<1> HIDE DEF rel, stay
<1>10. LeafAlive(n, d, out)
  <2>1. \A x \in out : x \in liveOut[n] \/ (x \in NewIn(n) /\ Outlives(x[1], n, dead))
    BY <1>4, <1>5, <1>7, <1>8, <1>9
  <2>2. \A x \in NewIn(n) : Outlives(x[1], n, {}) => x \in out
    BY <1>4, <1>5, <1>8, <1>9
  <2> HIDE DEF out
  <2> QED
    BY <1>3, <2>1, <2>2 DEF LeafAlive
<1> HIDE DEF out
<1>11. Kept /\ \A s \in Tasks : <<s, d>> \in NewIn(n) /\ rel[s] # "no"
                 => \E r \in points'[s] : r[1] = n
  BY <1>3, SyncKeepsPoints
<1>12. ASSUME NEW x \in NewIn(n) PROVE Noted(x[1], n)'
  <2>1. SameCode(x[1], n) /\ WaitRel(x[1], n) # "no" => \E r \in points'[x[1]] : r[1] = n
    BY <1>2, <1>4, <1>6, <1>11, <1>12
  <2> QED
    BY <1>3, <2>1, NotedNext
<1> QED
  BY <1>3, <1>10, <1>11, <1>12 DEF LeafEffect

\* The creation of a task.
LEMMA LeafCreation ==
  ASSUME IInv, NEW n \in Nodes, NEW d, IsDomain(prog, prog.owner[n], d),
         \A x \in NewIn(n) : Legit(x), VisitCreation(n, d)
  PROVE  \E out : LeafEffect(n, d, out)
<1> DEFINE t == prog.task[n]
           rel == [s \in Tasks |-> TaskRel(s, t)]
           stay == AliveAfterSync(NewIn(n), d, rel)
           out == liveOut[n] \cup stay \cup {<<t, d>>} \cup liveIn[prog.exit[t]]
<1>1. prog \in Programs /\ NewIn(n) \in SUBSET Items
  BY NewInType DEF IInv
<1>2. \A x \in NewIn(n) : x[1] \in Tasks /\ x[2] \in Nat /\ x = <<x[1], x[2]>>
  BY <1>1 DEF Items
<1>3. prog.kind[n] = "create" /\ prog' = prog /\ dead \subseteq dead'
      /\ points' = PointsAfterSync(NewIn(n), d, rel, t) /\ LeafVisit(n, d, out)
  BY DEF VisitCreation, Arrive, Depart, LeafVisit
<1>4. \A x \in NewIn(n) : SameCode(x[1], n) <=> x[2] = d
  BY <1>1, SameDomain
<1>5. \A x \in NewIn(n) : x \in stay <=> ~(x[2] = d /\ TaskRel(x[1], t) = "yes")
  BY <1>2 DEF AliveAfterSync, ItemRel
<1>6. \A s \in Tasks : rel[s] = TaskRel(s, t)
  OBVIOUS
<1>7. stay \subseteq NewIn(n)
  BY DEF AliveAfterSync
<1>8. \A s, e : Outlives(s, n, e) <=> (SameCode(s, n) => TaskRel(s, t) # "yes")
  BY <1>3 DEF Outlives
<1>9. \A x : x \in out <=> \/ x \in liveOut[n] \/ x \in stay \/ x = <<t, d>>
                           \/ x \in liveIn[prog.exit[t]]
  OBVIOUS
<1> HIDE DEF rel, stay, out
<1>10. LeafAlive(n, d, out)
  <2>1. \A x \in out : \/ x \in liveOut[n]
                       \/ x \in NewIn(n) /\ Outlives(x[1], n, dead)
                       \/ x = <<t, d>> \/ x \in liveIn[prog.exit[t]]
    BY <1>4, <1>5, <1>7, <1>8, <1>9
  <2>2. \A x \in NewIn(n) : Outlives(x[1], n, {}) => x \in out
    BY <1>4, <1>5, <1>8, <1>9
  <2>3. <<t, d>> \in out /\ liveIn[prog.exit[t]] \subseteq out
    BY <1>9
  <2> QED
    BY <1>3, <2>1, <2>2, <2>3 DEF LeafAlive
<1>11. Kept /\ \A s \in Tasks : <<s, d>> \in NewIn(n) /\ rel[s] # "no"
                 => \E r \in points'[s] : r[1] = t
  BY <1>3, SyncKeepsPoints
<1>12. ASSUME NEW x \in NewIn(n) PROVE Noted(x[1], n)'
  <2>1. SameCode(x[1], n) /\ TaskRel(x[1], t) # "no" => \E r \in points'[x[1]] : r[1] = t
    BY <1>2, <1>4, <1>6, <1>11, <1>12
  <2> QED
    BY <1>3, <2>1, NotedNext
<1> QED
  BY <1>3, <1>10, <1>11, <1>12 DEF LeafEffect

\* Any other node.
LEMMA LeafOther ==
  ASSUME IInv, NEW n \in Nodes, NEW d, VisitOther(n, d)
  PROVE  \E out : LeafEffect(n, d, out)
<1>1. prog.kind[n] \in {"code", "entry", "exit"} /\ prog' = prog
      /\ points' = points /\ dead' = dead /\ LeafVisit(n, d, NewIn(n))
  BY DEF VisitOther, Arrive, Depart, LeafVisit
<1>2. LeafAlive(n, d, NewIn(n))
  <2>1. \A x, e : Outlives(x, n, e)
    BY <1>1 DEF Outlives
  <2> QED
    BY <1>1, <2>1 DEF LeafAlive
<1>3. Kept
  BY <1>1 DEF Kept
<1>4. \A t : Noted(t, n)'
  BY <1>1 DEF Noted
<1> QED
  BY <1>1, <1>2, <1>3, <1>4 DEF LeafEffect

-----------------------------------------------------------------------------
(* Only tasks a walk leaves alive are alive *)

OnlyReached ==
  \A n \in Nodes :
    /\ \A x \in liveIn[n] : Legit(x) /\ <<n, "in">> \in Reached(x[1], dead)
    /\ \A x \in liveOut[n] : Legit(x) /\ <<n, "out">> \in Reached(x[1], dead)

\* What comes from the nodes before is reached.
LEMMA NewInReached ==
  ASSUME IInv, OnlyReached, NEW n \in Nodes, NEW x \in NewIn(n)
  PROVE  Legit(x) /\ <<n, "in">> \in Reached(x[1], dead)
<1>1. CASE x \in liveIn[n]
  BY <1>1 DEF OnlyReached
<1>2. CASE x \notin liveIn[n]
  <2>1. PICK p \in Preds(n) : x \in liveOut[p]
    BY <1>2 DEF NewIn
  <2>2. p \in Nodes /\ n \in Range(prog.succ[p])
    BY <2>1 DEF Preds, Range
  <2>3. Legit(x) /\ <<p, "out">> \in Reached(x[1], dead)
    BY <2>1, <2>2 DEF OnlyReached
  <2>4. <<n, "in">> \in Forward(x[1], <<p, "out">>, dead)
    BY <2>2 DEF Forward, Ways
  <2>5. \A q \in Reached(x[1], dead) : Forward(x[1], q, dead) \subseteq Reached(x[1], dead)
    BY ReachedClosed DEF IInv
  <2> QED
    BY <2>3, <2>4, <2>5
<1> QED
  BY <1>1, <1>2

\* The visits, by what they do.
LEMMA VisitEffects ==
  ASSUME IInv, Visit, VisitsNumbered, OnlyReached, Pending = {Head(agenda)} \cup Rest,
         NEW n, n = Head(agenda)[2], NEW d, d = Head(agenda)[3]
  PROVE  /\ prog' = prog /\ n \in Nodes /\ IsDomain(prog, prog.owner[n], d)
         /\ \/ Revisit(n) \/ VisitTask(n, d) \/ VisitGraph(n, d)
            \/ LeaveGraph(n, d) /\ prog.kind[n] = "graph"
            \/ \E out : LeafEffect(n, d, out)
<1>1. agenda # << >> /\ n \in Nodes
  BY HeadTypes DEF Visit, IInv
<1>2. IsDomain(prog, prog.owner[n], d)
  BY DEF VisitsNumbered
<1>3. \A x \in NewIn(n) : Legit(x)
  BY <1>1, NewInReached
<1>4. Head(agenda)[1] = "leave" => prog.kind[n] = "graph"
  BY <1>1, HeadTypes DEF IInv
<1>5. \/ Revisit(n) \/ VisitTask(n, d) \/ VisitGraph(n, d) \/ LeaveGraph(n, d)
      \/ VisitBarrier(n, d) \/ VisitTaskwait(n, d) \/ VisitWaiton(n, d)
      \/ VisitCreation(n, d) \/ VisitOther(n, d)
  BY DEF Visit
<1>6. prog' = prog
  BY VisitWalks
<1>7. CASE VisitBarrier(n, d) \/ VisitTaskwait(n, d)
  BY <1>1, <1>2, <1>3, <1>6, <1>7, LeafWait
<1>8. CASE VisitWaiton(n, d)
  BY <1>1, <1>2, <1>3, <1>6, <1>8, LeafWaiton
<1>9. CASE VisitCreation(n, d)
  BY <1>1, <1>2, <1>3, <1>6, <1>9, LeafCreation
<1>10. CASE VisitOther(n, d)
  BY <1>1, <1>2, <1>6, <1>10, LeafOther
<1>11. LeaveGraph(n, d) => prog.kind[n] = "graph"
  BY <1>4 DEF LeaveGraph
<1> QED
  BY <1>1, <1>2, <1>5, <1>6, <1>7, <1>8, <1>9, <1>10, <1>11

\* A visit only brings tasks where they go on to.
LEMMA VisitOnlyReached ==
  ASSUME IInv, Visit, VisitsNumbered, OnlyReached
  PROVE  OnlyReached'
<1> DEFINE n == Head(agenda)[2]
           d == Head(agenda)[3]
           At(x, q) == Legit(x) /\ q \in Reached(x[1], dead)'
<1>1. Pending = {Head(agenda)} \cup Rest
  BY VisitWalks
<1>2. /\ prog' = prog /\ n \in Nodes /\ IsDomain(prog, prog.owner[n], d)
      /\ \/ Revisit(n) \/ VisitTask(n, d) \/ VisitGraph(n, d)
         \/ LeaveGraph(n, d) /\ prog.kind[n] = "graph"
         \/ \E out : LeafEffect(n, d, out)
  BY <1>1, VisitEffects
<1> HIDE DEF n, d
<1>3. dead \subseteq dead'
  BY <1>2 DEF Revisit, VisitTask, VisitGraph, LeaveGraph, LeafEffect, Kept
<1>4. prog \in Programs
  BY DEF IInv
<1>5. ASSUME NEW x, NEW q, Legit(x), q \in Reached(x[1], dead) PROVE At(x, q)
  BY <1>2, <1>3, <1>4, <1>5, ReachedNext
<1>6. ASSUME NEW x, NEW q, At(x, q), NEW r \in Forward(x[1], q, dead) PROVE At(x, r)
  <2>1. \A p \in Reached(x[1], dead)' : Forward(x[1], p, dead) \subseteq Reached(x[1], dead)'
    BY <1>2, <1>3, <1>4, ReachedNext
  <2> QED
    BY <1>6, <2>1
<1>7. \A m \in Nodes : /\ \A x \in liveIn[m] : At(x, <<m, "in">>)
                       /\ \A x \in liveOut[m] : At(x, <<m, "out">>)
  BY <1>5 DEF OnlyReached
<1>8. \A x \in NewIn(n) : At(x, <<n, "in">>)
  BY <1>2, <1>5, NewInReached
<1>9. /\ liveIn \in [Nodes -> SUBSET Items] /\ liveOut \in [Nodes -> SUBSET Items]
  BY DEF IInv, TypeOK
<1>10. SUFFICES \A m \in Nodes : /\ \A x \in liveIn'[m] : At(x, <<m, "in">>)
                                 /\ \A x \in liveOut'[m] : At(x, <<m, "out">>)
  <2>1. Nodes' = Nodes
    BY <1>2, SameProgram
  <2>2. \A x : Legit(x) => Legit(x)'
    BY <1>2, SameReference DEF Legit
  <2> QED
    BY <2>1, <2>2 DEF OnlyReached
<1>11. \A x, e :
         /\ \A g \in Nodes : prog.kind[g] = "graph" =>
              /\ <<prog.entry[g], "in">> \in Forward(x, <<g, "in">>, e)
              /\ <<g, "out">> \in Forward(x, <<prog.exit[g], "out">>, e)
         /\ \A c \in Nodes : prog.kind[c] = "create" =>
              <<c, "out">> \in Forward(x, <<prog.exit[prog.task[c]], "out">>, e)
         /\ \A m \in Nodes : prog.kind[m] \notin {"graph", "task"} /\ Outlives(x, m, e)
              => <<m, "out">> \in Forward(x, <<m, "in">>, e)
  BY DEF Forward, Ways, Outlives, OfKind, Creations
<1> HIDE DEF At
<1>12. CASE Revisit(n)
  BY <1>7, <1>12 DEF Revisit
<1>13. CASE VisitTask(n, d)
  BY <1>2, <1>7, <1>8, <1>9, <1>13 DEF VisitTask
<1>14. CASE VisitGraph(n, d)
  <2>1. prog.kind[n] = "graph" /\ liveOut' = liveOut
        /\ liveIn' = [liveIn EXCEPT ![n] = NewIn(n), ![prog.entry[n]] = NewIn(n)]
    BY <1>14 DEF VisitGraph, Arrive
  <2>2. \A x \in NewIn(n) : At(x, <<prog.entry[n], "in">>)
    BY <1>2, <1>6, <1>8, <1>11, <2>1
  <2> QED
    BY <1>2, <1>7, <1>8, <1>9, <2>1, <2>2
<1>15. CASE LeaveGraph(n, d) /\ prog.kind[n] = "graph"
  <2>1. liveIn' = liveIn /\ liveOut' = [liveOut EXCEPT ![n] = liveOut[prog.exit[n]]]
    BY <1>15 DEF LeaveGraph, Depart
  <2>2. prog.exit[n] \in Nodes
    BY <1>2, <1>4, <1>15, Shape
  <2>3. \A x \in liveOut[prog.exit[n]] : At(x, <<n, "out">>)
    BY <1>2, <1>6, <1>7, <1>11, <1>15, <2>2
  <2> QED
    BY <1>2, <1>7, <1>9, <2>1, <2>3
<1>16. ASSUME NEW out, LeafEffect(n, d, out)
       PROVE  \A m \in Nodes : /\ \A x \in liveIn'[m] : At(x, <<m, "in">>)
                               /\ \A x \in liveOut'[m] : At(x, <<m, "out">>)
  <2>1. /\ liveIn' = [liveIn EXCEPT ![n] = NewIn(n)] /\ liveOut' = [liveOut EXCEPT ![n] = out]
        /\ prog.kind[n] \notin {"graph", "task"} /\ LeafAlive(n, d, out)
    BY <1>16 DEF LeafEffect, LeafVisit, Depart
  <2>2. ASSUME NEW x \in out PROVE At(x, <<n, "out">>)
    <3>1. CASE x \in liveOut[n]
      BY <1>2, <1>7, <3>1
    <3>2. CASE x \in NewIn(n) /\ Outlives(x[1], n, dead)
      BY <1>2, <1>6, <1>8, <1>11, <2>1, <3>2
    <3>3. CASE prog.kind[n] = "create" /\ x = <<prog.task[n], d>>
      <4>1. n \in Creations
        BY <1>2, <3>3 DEF Creations, OfKind
      <4>2. Legit(x)
        BY <1>2, <3>3, <4>1 DEF Legit
      <4>3. <<n, "out">> \in Born(x[1])
        BY <3>3, <4>1 DEF Born
      <4>4. Born(x[1]) \subseteq Reached(x[1], dead)'
        BY <1>2, <1>3, <1>4, ReachedNext
      <4> QED
        BY <4>2, <4>3, <4>4 DEF At
    <3>4. CASE prog.kind[n] = "create" /\ x \in liveIn[prog.exit[prog.task[n]]]
      <4>1. /\ prog.exit[prog.task[n]] \in Nodes
            /\ prog.kind[prog.exit[prog.task[n]]] = "exit"
        <5>1. prog.task[n] \in Nodes /\ prog.kind[prog.task[n]] = "task"
          BY <1>2, <1>4, <3>4, Shape
        <5> QED
          BY <1>4, <5>1, Shape, Structure
      <4>2. At(x, <<prog.exit[prog.task[n]], "in">>)
        BY <1>7, <3>4, <4>1
      <4>3. Outlives(x[1], prog.exit[prog.task[n]], dead)
        BY <4>1 DEF Outlives
      <4>4. At(x, <<prog.exit[prog.task[n]], "out">>)
        BY <1>6, <1>11, <4>1, <4>2, <4>3
      <4> QED
        BY <1>2, <1>6, <1>11, <3>4, <4>4
    <3> QED
      BY <2>1, <2>2, <3>1, <3>2, <3>3, <3>4 DEF LeafAlive
  <2> QED
    BY <1>2, <1>7, <1>8, <1>9, <2>1, <2>2
<1> QED
  BY <1>2, <1>12, <1>13, <1>14, <1>15, <1>16

-----------------------------------------------------------------------------
(* Every task a walk leaves alive is alive, and recorded *)

\* An exit passes everything on.
ExitsCopy == \A n \in Nodes : prog.kind[n] = "exit" => liveIn[n] = liveOut[n]

\* The tasks alive before a node are recorded there when they must be.
Recorded == \A n \in Nodes : \A x \in liveIn[n] : Noted(x[1], n)

\* What a visit of n has propagated, as long as nothing changes after it.
NodeSettled(n) ==
  /\ prog.kind[n] # "entry" => \A p \in Preds(n) : liveOut[p] \subseteq liveIn[n]
  /\ prog.kind[n] = "graph" => liveIn[n] \subseteq liveIn[prog.entry[n]]
  /\ prog.kind[n] = "create" =>
       /\ \E x \in liveOut[n] : x[1] = prog.task[n]
       /\ liveOut[prog.exit[prog.task[n]]] \subseteq liveOut[n]
  /\ prog.kind[n] \notin {"graph", "task"} =>
       \A x \in liveIn[n] : Outlives(x[1], n, {}) => x \in liveOut[n]

\* What leaving the graph n has.
GraphSettled(n) == prog.kind[n] = "graph" => liveOut[prog.exit[n]] \subseteq liveOut[n]

\* A pass without a change has propagated everything where it has been.
Settled ==
  ~changed =>
    \A n \in visited :
      /\ NodeSettled(n)
      /\ GraphSettled(n) \/ \E e \in Pending : e[1] = "leave" /\ e[2] = n

AllSettled == \A n \in Nodes : NodeSettled(n) /\ GraphSettled(n)

\* Every visit keeps the points and the expired tasks.
LEMMA VisitKept ==
  ASSUME NEW n, NEW d,
         \/ Revisit(n) \/ VisitTask(n, d) \/ VisitGraph(n, d) \/ LeaveGraph(n, d)
         \/ \E out : LeafEffect(n, d, out)
  PROVE  Kept
<1>1. CASE Revisit(n) \/ VisitTask(n, d) \/ VisitGraph(n, d) \/ LeaveGraph(n, d)
  BY <1>1 DEF Revisit, VisitTask, VisitGraph, LeaveGraph, Kept
<1>2. CASE \E out : LeafEffect(n, d, out)
  BY <1>2 DEF LeafEffect
<1> QED
  BY <1>1, <1>2

\* A visit keeps what is recorded and records what it must.
LEMMA VisitRecords ==
  ASSUME IInv, Visit, VisitsNumbered, OnlyReached, Recorded, ExitsCopy
  PROVE  Recorded' /\ ExitsCopy'
<1>0. PICK n, d : n = Head(agenda)[2] /\ d = Head(agenda)[3]
  OBVIOUS
<1>1. Pending = {Head(agenda)} \cup Rest
  BY VisitWalks
<1>2. /\ prog' = prog /\ n \in Nodes
      /\ \/ Revisit(n) \/ VisitTask(n, d) \/ VisitGraph(n, d)
         \/ LeaveGraph(n, d) /\ prog.kind[n] = "graph"
         \/ \E out : LeafEffect(n, d, out)
  BY <1>0, <1>1, VisitEffects
<1>3. Kept
  BY <1>2, VisitKept
<1>4. /\ liveIn \in [Nodes -> SUBSET Items] /\ liveOut \in [Nodes -> SUBSET Items]
  BY DEF IInv, TypeOK
<1>5. Nodes' = Nodes /\ prog \in Programs
  BY <1>2, SameProgram DEF IInv
<1>6. ASSUME NEW m \in Nodes, NEW x \in liveIn[m] PROVE Noted(x[1], m)'
  <2>1. x[1] \in Tasks
    BY <1>4, <1>6 DEF Items
  <2>2. Noted(x[1], m)
    BY <1>6 DEF Recorded
  <2> QED
    BY <1>2, <1>3, <2>1, <2>2, NotedKept
<1>7. ASSUME NEW m, prog.kind[m] \in {"task", "graph", "entry"} PROVE \A t : Noted(t, m)'
  BY <1>2, <1>7 DEF Noted
<1>8. CASE Revisit(n)
  BY <1>2, <1>5, <1>6, <1>8 DEF Recorded, ExitsCopy, Revisit
<1>9. CASE VisitTask(n, d)
  <2>1. prog.kind[n] = "task" /\ liveOut' = liveOut
        /\ liveIn' = [liveIn EXCEPT ![n] = NewIn(n)]
    BY <1>9 DEF VisitTask, Arrive
  <2>2. \A m \in Nodes : m # n => liveIn'[m] = liveIn[m]
    BY <1>4, <2>1
  <2>3. \A t : Noted(t, n)'
    BY <1>7, <2>1
  <2>4. Recorded'
    BY <1>5, <1>6, <2>2, <2>3 DEF Recorded
  <2>5. ExitsCopy'
    BY <1>2, <1>5, <2>1, <2>2 DEF ExitsCopy
  <2> QED
    BY <2>4, <2>5
<1>10. CASE VisitGraph(n, d)
  <2>1. prog.kind[n] = "graph" /\ liveOut' = liveOut
        /\ liveIn' = [liveIn EXCEPT ![n] = NewIn(n), ![prog.entry[n]] = NewIn(n)]
    BY <1>10 DEF VisitGraph, Arrive
  <2>2. \A m \in Nodes : m # n /\ m # prog.entry[n] => liveIn'[m] = liveIn[m]
    BY <1>4, <2>1
  <2>3. prog.kind[prog.entry[n]] = "entry"
    BY <1>2, <1>5, <2>1, Structure
  <2>5. ASSUME NEW m \in Nodes, NEW x \in liveIn'[m] PROVE Noted(x[1], m)'
    <3>1. CASE prog.kind[m] \in {"task", "graph", "entry"}
      BY <1>7, <3>1
    <3>2. CASE prog.kind[m] \notin {"task", "graph", "entry"}
      <4>1. x \in liveIn[m]
        BY <2>1, <2>2, <2>3, <2>5, <3>2
      <4> QED
        BY <1>6, <4>1
    <3> QED
      BY <3>1, <3>2
  <2>6. Recorded'
    BY <1>5, <2>5 DEF Recorded
  <2>7. ExitsCopy'
    BY <1>2, <1>5, <2>1, <2>2, <2>3 DEF ExitsCopy
  <2> QED
    BY <2>6, <2>7
<1>11. CASE LeaveGraph(n, d) /\ prog.kind[n] = "graph"
  <2>1. liveIn' = liveIn /\ liveOut' = [liveOut EXCEPT ![n] = liveOut[prog.exit[n]]]
    BY <1>11 DEF LeaveGraph, Depart
  <2>2. Recorded'
    BY <1>5, <1>6, <2>1 DEF Recorded
  <2>3. ExitsCopy'
    BY <1>2, <1>4, <1>5, <1>11, <2>1 DEF ExitsCopy
  <2> QED
    BY <2>2, <2>3
<1>12. ASSUME NEW out, LeafEffect(n, d, out) PROVE Recorded' /\ ExitsCopy'
  <2>1. /\ liveIn' = [liveIn EXCEPT ![n] = NewIn(n)] /\ liveOut' = [liveOut EXCEPT ![n] = out]
        /\ prog.kind[n] = "exit" => out = NewIn(n)
        /\ \A x \in NewIn(n) : Noted(x[1], n)'
    BY <1>12 DEF LeafEffect, LeafVisit, LeafAlive, Depart
  <2>2. \A m \in Nodes : liveIn'[m] = IF m = n THEN NewIn(n) ELSE liveIn[m]
    BY <1>4, <2>1
  <2>3. Recorded'
    BY <1>5, <1>6, <2>1, <2>2 DEF Recorded
  <2>4. ExitsCopy'
    BY <1>2, <1>4, <1>5, <2>1, <2>2 DEF ExitsCopy
  <2> QED
    BY <2>3, <2>4
<1> QED
  BY <1>2, <1>8, <1>9, <1>10, <1>11, <1>12

\* What has been propagated, in the words of the state before the step.
LEMMA SettledNext ==
  ASSUME prog' = prog, NEW n,
         prog.kind[n] # "entry" => \A p \in Preds(n) : liveOut'[p] \subseteq liveIn'[n],
         prog.kind[n] = "graph" => liveIn'[n] \subseteq liveIn'[prog.entry[n]],
         prog.kind[n] = "create" =>
           /\ \E x \in liveOut'[n] : x[1] = prog.task[n]
           /\ liveOut'[prog.exit[prog.task[n]]] \subseteq liveOut'[n],
         prog.kind[n] \notin {"graph", "task"} =>
           \A x \in liveIn'[n] : Outlives(x[1], n, {}) => x \in liveOut'[n]
  PROVE  NodeSettled(n)'
<1>1. Preds(n)' = Preds(n)
  BY DEF Preds, Nodes
<1>2. \A t : Outlives(t, n, {})' <=> Outlives(t, n, {})
  <2> SUFFICES ASSUME NEW t PROVE Outlives(t, n, {})' <=> Outlives(t, n, {})
    OBVIOUS
  <2>1. /\ SameCode(t, n)' <=> SameCode(t, n)
        /\ Matches(t, n)' = Matches(t, n)
    BY SameReference
  <2>2. \A p : TaskRel(t, p)' = TaskRel(t, p)
    BY SameProgram
  <2> QED
    BY <2>1, <2>2 DEF Outlives
<1> QED
  BY <1>1, <1>2 DEF NodeSettled

\* A visit that changes no outgoing set has propagated what is alive.
LEMMA VisitSettles ==
  ASSUME IInv, Visit, VisitsNumbered, OnlyReached, EntriesAfter, ExitsCopy, Settled
  PROVE  Settled'
<1>0. PICK n, d : n = Head(agenda)[2] /\ d = Head(agenda)[3]
  OBVIOUS
<1> SUFFICES ASSUME ~changed' PROVE \A m \in visited' :
      /\ NodeSettled(m)'
      /\ GraphSettled(m)' \/ \E e \in Pending' : e[1] = "leave" /\ e[2] = m
  BY DEF Settled
<1>1. Pending = {Head(agenda)} \cup Rest /\ WalkStep
  BY VisitWalks
<1>2. /\ prog' = prog /\ n \in Nodes
      /\ \/ Revisit(n) \/ VisitTask(n, d) \/ VisitGraph(n, d)
         \/ LeaveGraph(n, d) /\ prog.kind[n] = "graph"
         \/ \E out : LeafEffect(n, d, out)
  BY <1>0, <1>1, VisitEffects
<1>3. Rest \subseteq Pending' /\ (n \in visited => visited' = visited)
  BY <1>0, <1>1 DEF WalkStep
<1>4. (n \notin visited /\ prog.kind[n] = "graph" /\ Head(agenda)[1] = "visit") =>
        \E e \in Pending' : e[1] = "leave" /\ e[2] = n
  <2> SUFFICES ASSUME n \notin visited, prog.kind[n] = "graph", Head(agenda)[1] = "visit"
               PROVE  \E e \in Pending' : e[1] = "leave" /\ e[2] = n
    OBVIOUS
  <2>1. Inside(n, d) = {<<"visit", prog.entry[n], d>>, <<"leave", n, d>>}
    BY DEF Inside
  <2>2. Inside(n, d) \subseteq Pending'
    BY <1>0, <1>1 DEF WalkStep
  <2>3. <<"leave", n, d>> \in Pending'
    BY <2>1, <2>2
  <2> QED
    BY <2>3
<1>5. visited' \subseteq visited \cup {n}
  BY <1>0, <1>1 DEF WalkStep
<1>6. \A e \in Pending : e \in Rest \/ (e[2] = n /\ e[1] = Head(agenda)[1])
  BY <1>0, <1>1
<1>7. prog \in Programs /\ visited \subseteq Nodes
      /\ liveIn \in [Nodes -> SUBSET Items] /\ liveOut \in [Nodes -> SUBSET Items]
  BY DEF IInv, TypeOK
<1>8. ~changed /\ liveOut' = liveOut
  <2>1. ASSUME NEW out, Depart(n, d, out) PROVE ~changed /\ liveOut' = liveOut
    <3>1. ~changed /\ out = liveOut[n] /\ liveOut' = [liveOut EXCEPT ![n] = out]
      BY <2>1 DEF Depart
    <3> QED
      BY <1>7, <3>1
  <2>2. CASE LeaveGraph(n, d)
    <3>1. Depart(n, d, liveOut[prog.exit[n]])
      BY <2>2 DEF LeaveGraph
    <3> QED
      BY <2>1, <3>1
  <2>3. CASE \E out : LeafEffect(n, d, out)
    <3>1. PICK out : Depart(n, d, out)
      BY <2>3 DEF LeafEffect, LeafVisit
    <3> QED
      BY <2>1, <3>1
  <2>4. CASE Revisit(n) \/ VisitTask(n, d) \/ VisitGraph(n, d)
    <3>1. changed' = changed /\ liveOut' = liveOut
      BY <2>4 DEF Revisit, VisitTask, VisitGraph
    <3> QED
      BY <3>1, Zenon
  <2> QED
    BY <1>2, <2>2, <2>3, <2>4
<1>9. \A m \in visited : /\ NodeSettled(m)
                         /\ GraphSettled(m) \/ \E e \in Pending : e[1] = "leave" /\ e[2] = m
  BY <1>8 DEF Settled
<1>10. /\ \A m \in visited : liveIn'[m] = liveIn[m]
       /\ \A g \in visited : prog.kind[g] = "graph" =>
            liveIn'[prog.entry[g]] = liveIn[prog.entry[g]]
  <2>0. \A g \in Nodes : prog.kind[g] = "graph" =>
          prog.kind[prog.entry[g]] = "entry" /\ prog.entry[g] \in Nodes
    BY <1>7, Structure, Shape
  <2>1. CASE Revisit(n) \/ LeaveGraph(n, d)
    BY <2>1 DEF Revisit, LeaveGraph
  <2>2. CASE VisitTask(n, d)
    <3>1. prog.kind[n] = "task" /\ n \notin visited
          /\ liveIn' = [liveIn EXCEPT ![n] = NewIn(n)]
      BY <2>2 DEF VisitTask, Arrive
    <3> QED
      BY <1>7, <2>0, <3>1
  <2>3. CASE VisitGraph(n, d)
    <3>1. prog.kind[n] = "graph" /\ n \notin visited
          /\ liveIn' = [liveIn EXCEPT ![n] = NewIn(n), ![prog.entry[n]] = NewIn(n)]
      BY <2>3 DEF VisitGraph, Arrive
    <3>2. prog.entry[n] \notin visited
      BY <1>2, <3>1 DEF EntriesAfter, Due
    <3>3. \A g \in visited : prog.kind[g] = "graph" => prog.entry[g] # prog.entry[n]
      BY <1>2, <1>7, <3>1, Structure
    <3> QED
      BY <1>7, <2>0, <3>1, <3>2, <3>3
  <2>4. ASSUME NEW out, LeafEffect(n, d, out)
        PROVE  /\ \A m \in visited : liveIn'[m] = liveIn[m]
               /\ \A g \in visited : prog.kind[g] = "graph" =>
                    liveIn'[prog.entry[g]] = liveIn[prog.entry[g]]
    <3>1. n \notin visited /\ liveIn' = [liveIn EXCEPT ![n] = NewIn(n)]
      BY <2>4 DEF LeafEffect, LeafVisit
    <3>2. prog.kind[n] = "entry" => NewIn(n) = liveIn[n]
      BY DEF NewIn
    <3> QED
      BY <1>7, <2>0, <3>1, <3>2
  <2> QED
    BY <1>2, <2>1, <2>2, <2>3, <2>4
<1>11. ASSUME NEW m \in visited
       PROVE  /\ NodeSettled(m)'
              /\ GraphSettled(m)' \/ \E e \in Pending' : e[1] = "leave" /\ e[2] = m
  <2>1. NodeSettled(m) /\ m \in Nodes
    BY <1>7, <1>9, <1>11
  <2>2. /\ prog.kind[m] # "entry" => \A p \in Preds(m) : liveOut'[p] \subseteq liveIn'[m]
        /\ prog.kind[m] = "graph" => liveIn'[m] \subseteq liveIn'[prog.entry[m]]
        /\ prog.kind[m] = "create" =>
             /\ \E x \in liveOut'[m] : x[1] = prog.task[m]
             /\ liveOut'[prog.exit[prog.task[m]]] \subseteq liveOut'[m]
        /\ prog.kind[m] \notin {"graph", "task"} =>
             \A x \in liveIn'[m] : Outlives(x[1], m, {}) => x \in liveOut'[m]
    BY <1>8, <1>10, <1>11, <2>1 DEF NodeSettled
  <2>3. NodeSettled(m)'
    BY <1>2, <2>2, SettledNext
  <2>4. CASE GraphSettled(m)
    BY <1>2, <1>8, <2>3, <2>4 DEF GraphSettled
  <2>5. ASSUME NEW e \in Pending, e[1] = "leave", e[2] = m
        PROVE  GraphSettled(m)' \/ \E f \in Pending' : f[1] = "leave" /\ f[2] = m
    <3>1. CASE e \in Rest
      BY <1>3, <2>5, <3>1
    <3>2. CASE m = n /\ Head(agenda)[1] = "leave"
      <4>1. LeaveGraph(n, d)
        BY <1>2, <3>2 DEF Revisit, VisitTask, VisitGraph, Arrive, LeafEffect, LeafVisit
      <4>2. liveOut' = [liveOut EXCEPT ![n] = liveOut[prog.exit[n]]]
        BY <4>1 DEF LeaveGraph, Depart
      <4>3. liveOut'[n] = liveOut[prog.exit[n]]
        BY <1>2, <1>7, <4>2
      <4> QED
        BY <1>2, <1>8, <3>2, <4>3 DEF GraphSettled
    <3> QED
      BY <1>6, <2>5, <3>1, <3>2
  <2> QED
    BY <1>9, <1>11, <2>3, <2>4, <2>5
<1>12. ASSUME n \notin visited, n \in visited'
       PROVE  /\ NodeSettled(n)'
              /\ GraphSettled(n)' \/ \E e \in Pending' : e[1] = "leave" /\ e[2] = n
  <2>1. \A p \in Preds(n) : prog.kind[n] # "entry" => liveOut[p] \subseteq NewIn(n)
    BY DEF NewIn
  <2>2. CASE Revisit(n) \/ LeaveGraph(n, d)
    BY <1>12, <2>2 DEF Revisit, LeaveGraph
  <2>3. CASE VisitTask(n, d)
    <3>1. prog.kind[n] = "task" /\ liveIn'[n] = NewIn(n)
      BY <1>2, <1>7, <2>3 DEF VisitTask, Arrive
    <3>2. NodeSettled(n)'
      BY <1>2, <1>8, <2>1, <3>1, SettledNext
    <3> QED
      BY <1>2, <3>1, <3>2 DEF GraphSettled
  <2>4. CASE VisitGraph(n, d)
    <3>1. prog.kind[n] = "graph" /\ Head(agenda)[1] = "visit"
          /\ liveIn' = [liveIn EXCEPT ![n] = NewIn(n), ![prog.entry[n]] = NewIn(n)]
      BY <2>4 DEF VisitGraph, Arrive
    <3>2. prog.entry[n] \in Nodes
      BY <1>2, <1>7, <3>1, Shape
    <3>3. liveIn'[n] = NewIn(n) /\ liveIn'[prog.entry[n]] = NewIn(n)
      BY <1>2, <1>7, <3>1, <3>2
    <3>4. NodeSettled(n)'
      BY <1>2, <1>8, <2>1, <3>1, <3>3, SettledNext
    <3> QED
      BY <1>4, <1>12, <3>1, <3>4
  <2>5. ASSUME NEW out, LeafEffect(n, d, out)
        PROVE  /\ NodeSettled(n)'
               /\ GraphSettled(n)' \/ \E e \in Pending' : e[1] = "leave" /\ e[2] = n
    <3>1. /\ liveIn' = [liveIn EXCEPT ![n] = NewIn(n)] /\ liveOut' = [liveOut EXCEPT ![n] = out]
          /\ prog.kind[n] \notin {"graph", "task"} /\ LeafAlive(n, d, out)
      BY <2>5 DEF LeafEffect, LeafVisit, Depart
    <3>2. liveIn'[n] = NewIn(n) /\ liveOut'[n] = out
      BY <1>2, <1>7, <3>1
    <3>3. prog.kind[n] = "create" =>
            /\ \E x \in liveOut'[n] : x[1] = prog.task[n]
            /\ liveOut'[prog.exit[prog.task[n]]] \subseteq liveOut'[n]
      <4> SUFFICES ASSUME prog.kind[n] = "create"
                   PROVE  /\ \E x \in liveOut'[n] : x[1] = prog.task[n]
                          /\ liveOut'[prog.exit[prog.task[n]]] \subseteq liveOut'[n]
        OBVIOUS
      <4>1. <<prog.task[n], d>> \in out /\ liveIn[prog.exit[prog.task[n]]] \subseteq out
        BY <3>1 DEF LeafAlive
      <4>2. /\ prog.exit[prog.task[n]] \in Nodes
            /\ prog.kind[prog.exit[prog.task[n]]] = "exit"
        <5>1. prog.task[n] \in Nodes /\ prog.kind[prog.task[n]] = "task"
          BY <1>2, <1>7, Shape
        <5> QED
          BY <1>7, <5>1, Shape, Structure
      <4>3. liveIn[prog.exit[prog.task[n]]] = liveOut[prog.exit[prog.task[n]]]
        BY <4>2 DEF ExitsCopy
      <4> QED
        BY <1>8, <3>2, <4>1, <4>3
    <3>4. \A x \in NewIn(n) : Outlives(x[1], n, {}) => x \in out
      BY <3>1 DEF LeafAlive
    <3>5. NodeSettled(n)'
      BY <1>2, <1>8, <2>1, <3>1, <3>2, <3>3, <3>4, SettledNext
    <3> QED
      BY <1>2, <3>1, <3>5 DEF GraphSettled
  <2> QED
    BY <1>2, <2>2, <2>3, <2>4, <2>5
<1> QED
  BY <1>5, <1>11, <1>12

\* The inductive invariant of what is alive.
LiveInv ==
  /\ OnlyReached
  /\ ExitsCopy
  /\ Recorded
  /\ phase = "passes" => Settled
  /\ phase # "passes" => AllSettled

\* It stays when what is alive stays.
LEMMA LiveStays ==
  ASSUME IInv, OnlyReached, ExitsCopy, Recorded,
         UNCHANGED <<prog, liveIn, liveOut, points, dead>>
  PROVE  /\ OnlyReached' /\ ExitsCopy' /\ Recorded'
         /\ AllSettled => AllSettled'
         /\ Settled /\ UNCHANGED <<visited, changed, agenda>> => Settled'
<1>1. /\ prog' = prog /\ liveIn' = liveIn /\ liveOut' = liveOut
      /\ points' = points /\ dead' = dead
  OBVIOUS
<1>2. Nodes' = Nodes /\ prog \in Programs /\ Kept
  BY <1>1, SameProgram DEF IInv, Kept
<1>3. OnlyReached'
  <2>1. \A t : Reached(t, dead) \subseteq Reached(t, dead)'
    BY <1>1, <1>2, ReachedNext DEF Kept
  <2>2. \A x : Legit(x) => Legit(x)'
    BY <1>1, SameReference DEF Legit
  <2> QED
    BY <1>1, <1>2, <2>1, <2>2 DEF OnlyReached
<1>4. ExitsCopy'
  BY <1>1, <1>2 DEF ExitsCopy
<1>5. Recorded'
  <2>1. ASSUME NEW n \in Nodes, NEW x \in liveIn[n] PROVE Noted(x[1], n)'
    <3>1. x[1] \in Tasks
      BY <2>1 DEF IInv, TypeOK, Items
    <3>2. Noted(x[1], n)
      BY <2>1 DEF Recorded
    <3> QED
      BY <1>1, <1>2, <3>1, <3>2, NotedKept
  <2> QED
    BY <1>1, <1>2, <2>1 DEF Recorded
<1>6. ASSUME NEW n, NodeSettled(n) PROVE NodeSettled(n)'
  BY <1>1, <1>6, SettledNext DEF NodeSettled
<1>7. ASSUME NEW n, GraphSettled(n) PROVE GraphSettled(n)'
  BY <1>1, <1>7 DEF GraphSettled
<1>8. AllSettled => AllSettled'
  BY <1>2, <1>6, <1>7 DEF AllSettled
<1>9. Settled /\ UNCHANGED <<visited, changed, agenda>> => Settled'
  BY <1>6, <1>7 DEF Settled, Pending
<1> QED
  BY <1>3, <1>4, <1>5, <1>8, <1>9

\* A pass ends when it has been everywhere.
LEMMA PassSawAll ==
  ASSUME IInv, NothingDropped, agenda = << >>
  PROVE  visited = Nodes
<1>1. Pending = {}
  BY DEF Pending, Range
<1>2. \A m : Due(m) => m \in visited
  BY <1>1 DEF Due
<1>3. visited \subseteq Nodes /\ prog \in Programs
  BY DEF IInv, TypeOK
<1>4. prog.root \in visited
  BY <1>2 DEF NothingDropped
<1>5. ASSUME NEW n \in visited
      PROVE  /\ Range(prog.succ[n]) \subseteq visited
             /\ prog.kind[n] \in {"graph", "task"} => prog.entry[n] \in visited
             /\ prog.kind[n] = "create" => prog.task[n] \in visited
  BY <1>1, <1>2, <1>5 DEF NothingDropped
<1> QED
  BY <1>3, <1>4, <1>5, NodesOwed

\* What is alive is what the specification's steps make it.
LEMMA LiveInvAlways == Spec => []LiveInv
<1>1. Init => LiveInv
  <2> SUFFICES ASSUME Init PROVE LiveInv
    OBVIOUS
  <2>1. /\ \A n \in Nodes : liveIn[n] = {} /\ liveOut[n] = {}
        /\ phase = "passes" /\ visited = {}
    BY DEF Init
  <2> QED
    BY <2>1 DEF LiveInv, OnlyReached, ExitsCopy, Recorded, Settled
<1>2. IInv /\ WalkInv /\ LiveInv /\ [Next]_vars => LiveInv'
  <2> SUFFICES ASSUME IInv, WalkInv, LiveInv, [Next]_vars PROVE LiveInv'
    OBVIOUS
  <2>0. OnlyReached /\ ExitsCopy /\ Recorded
    BY DEF LiveInv
  <2>1. CASE Visit
    <3>1. phase = "passes" /\ phase' = "passes"
      BY <2>1, VisitWalks
    <3>2. VisitsNumbered /\ EntriesAfter /\ Settled
      BY <3>1 DEF WalkInv, LiveInv
    <3>3. OnlyReached'
      BY <2>0, <2>1, <3>2, VisitOnlyReached
    <3>4. Recorded' /\ ExitsCopy'
      BY <2>0, <2>1, <3>2, VisitRecords
    <3>5. Settled'
      BY <2>0, <2>1, <3>2, VisitSettles
    <3> QED
      BY <3>1, <3>3, <3>4, <3>5 DEF LiveInv
  <2>2. CASE EndPass
    <3>1. /\ UNCHANGED <<prog, liveIn, liveOut, points, dead>>
          /\ phase = "passes" /\ agenda = << >> /\ visited' = {}
      BY <2>2 DEF EndPass
    <3>2. OnlyReached' /\ ExitsCopy' /\ Recorded' /\ (AllSettled => AllSettled')
      BY <2>0, <3>1, LiveStays
    <3>3. Settled'
      BY <3>1 DEF Settled
    <3>4. CASE changed
      <4>1. phase' = "passes"
        BY <2>2, <3>1, <3>4 DEF EndPass
      <4> QED
        BY <3>2, <3>3, <4>1 DEF LiveInv
    <3>5. CASE ~changed
      <4>1. visited = Nodes
        BY <3>1, PassSawAll DEF WalkInv
      <4>2. Pending = {}
        BY <3>1 DEF Pending, Range
      <4>3. AllSettled
        BY <3>1, <3>5, <4>1, <4>2 DEF LiveInv, Settled, AllSettled
      <4> QED
        BY <3>2, <3>3, <4>3 DEF LiveInv
    <3> QED
      BY <3>4, <3>5
  <2>3. CASE Connect \/ ConnectPost
    <3>1. /\ UNCHANGED <<prog, liveIn, liveOut, points, dead>>
          /\ phase # "passes" /\ phase' # "passes"
      BY <2>3 DEF Connect, ConnectPost
    <3>2. OnlyReached' /\ ExitsCopy' /\ Recorded' /\ (AllSettled => AllSettled')
      BY <2>0, <3>1, LiveStays
    <3> QED
      BY <3>1, <3>2 DEF LiveInv
  <2>4. CASE UNCHANGED vars
    <3>1. /\ UNCHANGED <<prog, liveIn, liveOut, points, dead>>
          /\ UNCHANGED <<visited, changed, agenda>> /\ phase' = phase
      BY <2>4 DEF vars
    <3>2. /\ OnlyReached' /\ ExitsCopy' /\ Recorded' /\ (AllSettled => AllSettled')
          /\ Settled => Settled'
      BY <2>0, <3>1, LiveStays
    <3> QED
      BY <3>1, <3>2 DEF LiveInv
  <2> QED
    BY <2>1, <2>2, <2>3, <2>4 DEF Next
<1> QED
  BY <1>1, <1>2, IInvAlways, WalkInvAlways, PTL DEF Spec

-----------------------------------------------------------------------------
(* What the analysis promises *)

\* The positions where t is alive.
AliveAt(t) ==
  {q \in Positions : \/ q[2] = "in" /\ \E x \in liveIn[q[1]] : x[1] = t
                     \/ q[2] = "out" /\ \E x \in liveOut[q[1]] : x[1] = t}

\* When the passes are over, a task that outlives a node is alive at the next.
LEMMA AliveGoesOn ==
  ASSUME IInv, LiveInv, phase # "passes", NEW t, NEW q \in AliveAt(t),
         q[2] = "in" => Outlives(t, q[1], {})
  PROVE  Ways(q) \subseteq AliveAt(t)
<1>1. PICK n \in Nodes : \E side \in {"in", "out"} : q = <<n, side>>
  BY DEF AliveAt, Positions
<1>2. \A m \in Nodes : NodeSettled(m) /\ GraphSettled(m)
  BY DEF LiveInv, AllSettled
<1>3. prog \in Programs
  BY DEF IInv
<1>4. Ways(q) \in SUBSET Positions
  BY <1>3, WaysTypes DEF AliveAt
<1>5. CASE q = <<n, "in">>
  <2>1. PICK x \in liveIn[n] : x[1] = t
    BY <1>5 DEF AliveAt
  <2>2. CASE prog.kind[n] = "graph"
    <3>1. x \in liveIn[prog.entry[n]]
      BY <1>2, <2>1, <2>2 DEF NodeSettled
    <3>2. Ways(q) = {<<prog.entry[n], "in">>}
      BY <1>5, <2>2 DEF Ways
    <3> QED
      BY <1>4, <2>1, <3>1, <3>2 DEF AliveAt
  <2>3. CASE prog.kind[n] = "task"
    BY <1>5, <2>3 DEF Ways
  <2>4. CASE prog.kind[n] \notin {"graph", "task"}
    <3>1. x \in liveOut[n]
      BY <1>2, <1>5, <2>1, <2>4 DEF NodeSettled
    <3>2. Ways(q) = {<<n, "out">>}
      BY <1>5, <2>4 DEF Ways
    <3> QED
      BY <1>4, <2>1, <3>1, <3>2 DEF AliveAt
  <2> QED
    BY <2>2, <2>3, <2>4
<1>6. CASE q = <<n, "out">>
  <2>1. PICK x \in liveOut[n] : x[1] = t
    BY <1>6 DEF AliveAt
  <2>2. ASSUME NEW m \in Range(prog.succ[n]) PROVE <<m, "in">> \in AliveAt(t)
    <3>1. m \in Nodes /\ prog.kind[m] # "entry"
      BY <1>3, <2>2, Structure
    <3>2. n \in Preds(m)
      BY <2>2 DEF Preds, Range
    <3>3. x \in liveIn[m]
      BY <1>2, <2>1, <3>1, <3>2 DEF NodeSettled
    <3> QED
      BY <2>1, <3>1, <3>3 DEF AliveAt, Positions
  <2>3. ASSUME NEW g \in OfKind("graph"), prog.exit[g] = n PROVE <<g, "out">> \in AliveAt(t)
    <3>1. g \in Nodes /\ x \in liveOut[g]
      BY <1>2, <2>1, <2>3 DEF GraphSettled, OfKind
    <3> QED
      BY <2>1, <3>1 DEF AliveAt, Positions
  <2>4. ASSUME NEW c \in Creations, prog.exit[prog.task[c]] = n PROVE <<c, "out">> \in AliveAt(t)
    <3>1. c \in Nodes /\ x \in liveOut[c]
      BY <1>2, <2>1, <2>4 DEF NodeSettled, Creations, OfKind
    <3> QED
      BY <2>1, <3>1 DEF AliveAt, Positions
  <2>5. Ways(q) = {<<m, "in">> : m \in Range(prog.succ[n])}
                  \cup {<<g, "out">> : g \in {h \in OfKind("graph") : prog.exit[h] = n}}
                  \cup {<<c, "out">> : c \in {b \in Creations : prog.exit[prog.task[b]] = n}}
    BY <1>6 DEF Ways
  <2> QED
    BY <2>2, <2>3, <2>4, <2>5
<1> QED
  BY <1>1, <1>5, <1>6

\* So all that the reference has is alive.
LEMMA AllReached ==
  ASSUME IInv, LiveInv, phase # "passes", NEW t
  PROVE  Reached(t, {}) \subseteq AliveAt(t)
<1>1. prog \in Programs
  BY DEF IInv
<1>2. AliveAt(t) \in SUBSET Positions
  BY DEF AliveAt
<1>3. Born(t) \subseteq AliveAt(t)
  <2> SUFFICES ASSUME NEW c \in Creations, prog.task[c] = t PROVE <<c, "out">> \in AliveAt(t)
    BY DEF Born
  <2>1. c \in Nodes /\ \E x \in liveOut[c] : x[1] = t
    BY DEF LiveInv, AllSettled, NodeSettled, Creations, OfKind
  <2> QED
    BY <2>1 DEF AliveAt, Positions
<1>4. ASSUME NEW q \in AliveAt(t) PROVE Forward(t, q, {}) \subseteq AliveAt(t)
  BY <1>4, AliveGoesOn DEF Forward
<1> QED
  BY <1>1, <1>2, <1>3, <1>4, ReachedLeast

\* A task that has not expired passes no more than if none had.
LEMMA NotExpired ==
  ASSUME NEW t, t \notin dead
  PROVE  Reached(t, dead) = Reached(t, {})
<1>1. \A n : Outlives(t, n, dead) <=> Outlives(t, n, {})
  BY DEF Outlives
<1>2. \A q : Forward(t, q, dead) = Forward(t, q, {})
  BY <1>1 DEF Forward
<1>3. [q \in Positions |-> Forward(t, q, dead)] = [q \in Positions |-> Forward(t, q, {})]
  BY <1>2
<1> QED
  BY <1>3 DEF Reached

\* When the passes end, the alive tasks are those a walk leaves alive.
THEOREM AliveExactAlways == Spec => []AliveExact
<1>1. IInv /\ LiveInv => AliveExact
  <2> SUFFICES ASSUME IInv, LiveInv, phase = "connect" PROVE AliveExact
    BY DEF AliveExact
  <2> DEFINE least == [t \in Tasks |-> Reached(t, {})]
             most == [t \in Tasks |-> IF t \in dead THEN Reached(t, dead) ELSE least[t]]
  <2>1. ASSUME NEW n \in Nodes, NEW t \in Tasks
        PROVE  /\ <<n, "in">> \in least[t] => t \in Alive(liveIn[n])
               /\ t \in Alive(liveIn[n]) => <<n, "in">> \in most[t]
               /\ <<n, "out">> \in least[t] => t \in Alive(liveOut[n])
               /\ t \in Alive(liveOut[n]) => <<n, "out">> \in most[t]
    <3>1. least[t] \subseteq AliveAt(t)
      BY AllReached
    <3>2. most[t] = Reached(t, dead)
      BY NotExpired
    <3>3. /\ t \in Alive(liveIn[n]) <=> \E x \in liveIn[n] : x[1] = t
          /\ t \in Alive(liveOut[n]) <=> \E x \in liveOut[n] : x[1] = t
      BY DEF Alive
    <3> HIDE DEF least, most
    <3>4. /\ <<n, "in">> \in least[t] => t \in Alive(liveIn[n])
          /\ <<n, "out">> \in least[t] => t \in Alive(liveOut[n])
      BY <3>1, <3>3 DEF AliveAt
    <3>5. /\ t \in Alive(liveIn[n]) => <<n, "in">> \in Reached(t, dead)
          /\ t \in Alive(liveOut[n]) => <<n, "out">> \in Reached(t, dead)
      BY <3>3 DEF LiveInv, OnlyReached
    <3> QED
      BY <3>2, <3>4, <3>5
  <2> QED
    BY <2>1 DEF AliveExact
<1> QED
  BY <1>1, IInvAlways, LiveInvAlways, PTL

\* The points become edges, and so do the tasks that outlive the function.
EdgeInv ==
  /\ phase \in {"post", "done"} =>
       \A s \in Tasks : \A q \in points[s] : \E e \in edges : e[1] = s /\ e[2] = q[1]
  /\ phase = "done" => \A s \in AliveAtEnd \ dead : \E e \in edges : e[1] = s

LEMMA EdgeInvAlways == Spec => []EdgeInv
<1>1. Init => EdgeInv
  BY DEF Init, EdgeInv
<1>2. IInv /\ EdgeInv /\ [Next]_vars => EdgeInv'
  <2> SUFFICES ASSUME IInv, EdgeInv, [Next]_vars PROVE EdgeInv'
    OBVIOUS
  <2>1. CASE Visit
    <3>1. phase' = "passes"
      BY <2>1, VisitWalks
    <3> QED
      BY <3>1 DEF EdgeInv
  <2>2. CASE EndPass
    <3>1. phase' \in {"passes", "connect"}
      BY <2>2 DEF EndPass
    <3> QED
      BY <3>1 DEF EdgeInv
  <2>3. CASE Connect
    <3>1. /\ prog' = prog /\ points' = points /\ phase' = "post"
          /\ edges' = UNION {{<<s, p[1], p[2]>> : p \in points[s]} : s \in Tasks}
      BY <2>3 DEF Connect
    <3>2. ASSUME NEW s \in Tasks, NEW q \in points[s]
          PROVE  \E e \in edges' : e[1] = s /\ e[2] = q[1]
      <4>1. <<s, q[1], q[2]>> \in edges'
        BY <3>1, <3>2
      <4> QED
        BY <4>1
    <3>3. Tasks' = Tasks
      BY <3>1, SameProgram
    <3> QED
      BY <3>1, <3>2, <3>3 DEF EdgeInv
  <2>4. CASE ConnectPost
    <3>1. /\ prog' = prog /\ points' = points /\ liveIn' = liveIn /\ dead' = dead
          /\ phase = "post" /\ phase' = "done"
          /\ edges' = Purged(edges) \cup {<<s, PostSync, "post">> : s \in AliveAtEnd \ dead}
      BY <2>4 DEF ConnectPost
    <3>2. \A e \in edges : \E f \in edges' : f[1] = e[1] /\ f[2] = e[2]
      <4> SUFFICES ASSUME NEW e \in edges PROVE \E f \in edges' : f[1] = e[1] /\ f[2] = e[2]
        OBVIOUS
      <4> DEFINE k == IF e[1] \in AliveAtEnd \cap dead
                         /\ (\A f \in edges : f[1] = e[1] => f = e)
                      THEN "static" ELSE e[3]
      <4>1. <<e[1], e[2], k>> \in Purged(edges)
        BY DEF Purged
      <4> HIDE DEF k
      <4>2. <<e[1], e[2], k>> \in edges'
        BY <3>1, <4>1
      <4> QED
        BY <4>2
    <3>3. Tasks' = Tasks /\ AliveAtEnd' = AliveAtEnd
      BY <3>1, SameProgram DEF AliveAtEnd
    <3>4. ASSUME NEW s \in Tasks, NEW q \in points[s]
          PROVE  \E e \in edges' : e[1] = s /\ e[2] = q[1]
      BY <3>1, <3>2, <3>4 DEF EdgeInv
    <3>5. ASSUME NEW s \in AliveAtEnd \ dead PROVE \E e \in edges' : e[1] = s
      <4>1. <<s, PostSync, "post">> \in edges'
        BY <3>1, <3>5
      <4> QED
        BY <4>1
    <3> QED
      BY <3>1, <3>3, <3>4, <3>5 DEF EdgeInv
  <2>5. CASE UNCHANGED vars
    BY <2>5 DEF vars, EdgeInv, Tasks, OfKind, Nodes, AliveAtEnd
  <2> QED
    BY <2>1, <2>2, <2>3, <2>4, <2>5 DEF Next
<1> QED
  BY <1>1, <1>2, IInvAlways, PTL DEF Spec

\* At the end, a task a walk brings to a node that may synchronise it is linked.
THEOREM EverySyncFoundAlways == Spec => []EverySyncFound
<1>1. IInv /\ LiveInv /\ EdgeInv => EverySyncFound
  <2> SUFFICES ASSUME IInv, LiveInv, EdgeInv, phase = "done" PROVE EverySyncFound
    BY DEF EverySyncFound
  <2> DEFINE reached == [t \in Tasks |-> Reached(t, {})]
             linked(t, p) == \E e \in edges : e[1] = t /\ e[2] = p
  <2>1. ASSUME NEW t \in Tasks, NEW p, HasPoint(t, p) PROVE linked(t, p)
    BY <2>1 DEF EdgeInv, HasPoint
  <2>2. ASSUME NEW n \in Nodes, NEW t \in Tasks, <<n, "in">> \in reached[t]
        PROVE  Noted(t, n)
    <3>1. <<n, "in">> \in AliveAt(t)
      BY <2>2, AllReached
    <3>2. \E x \in liveIn[n] : x[1] = t
      BY <3>1 DEF AliveAt
    <3> QED
      BY <3>2 DEF LiveInv, Recorded
  <2> HIDE DEF linked, reached
  <2>3. ASSUME NEW n \in Nodes, NEW t \in Tasks, <<n, "in">> \in reached[t]
        PROVE  CASE prog.kind[n] = "create" ->
                      SameCode(t, n) /\ TaskRel(t, prog.task[n]) # "no"
                        => linked(t, prog.task[n])
                 [] prog.kind[n] = "waiton" ->
                      SameCode(t, n) /\ WaitRel(t, n) # "no" => linked(t, n)
                 [] prog.kind[n] = "taskwait" ->
                      SameCode(t, n) /\ t \notin dead => linked(t, n)
                 [] prog.kind[n] = "barrier" -> t \notin dead => linked(t, n)
                 [] OTHER -> TRUE
    BY <2>1, <2>2, <2>3 DEF Noted
  <2> QED
    BY <2>3 DEF EverySyncFound, reached, linked
<1> QED
  BY <1>1, IInvAlways, LiveInvAlways, EdgeInvAlways, PTL

\* No task is forgotten: without an edge it would be alive wherever its creation
\* leads, the end of the function included, and have an edge to the node after it.
THEOREM EveryTaskSyncsAlways == Spec => []EveryTaskSyncs
<1>1. IInv /\ LiveInv /\ EdgeInv => EveryTaskSyncs
  <2> SUFFICES ASSUME IInv, LiveInv, EdgeInv, phase = "done",
                      NEW c \in Creations, Returns(c), NEW t \in Alive(liveOut[c]),
                      \A e \in edges : e[1] # t
               PROVE  FALSE
    BY DEF EveryTaskSyncs
  <2>1. c \in Nodes /\ t \in Tasks /\ prog \in Programs
    BY DEF Creations, OfKind, IInv, TypeOK, Items, Alive
  <2>2. \A p : ~HasPoint(t, p)
    BY <2>1 DEF EdgeInv, HasPoint
  <2>3. t \notin dead
    BY <2>2 DEF IInv, DeadHaveStatic, HasPoint
  <2>4. ASSUME NEW n \in Nodes, NEW x \in liveIn[n], x[1] = t PROVE Outlives(t, n, {})
    <3>1. Noted(t, n)
      BY <2>4 DEF LiveInv, Recorded
    <3>2. CASE prog.kind[n] = "barrier"
      BY <2>2, <2>3, <3>1, <3>2 DEF Noted
    <3>3. CASE prog.kind[n] = "taskwait"
      BY <2>2, <2>3, <3>1, <3>3 DEF Noted, Outlives
    <3>4. CASE prog.kind[n] = "create"
      BY <2>2, <3>1, <3>4 DEF Noted, Outlives
    <3>5. CASE prog.kind[n] = "waiton"
      <4>1. t \notin prog.expr => WaitRel(t, n) = Matches(t, n)
        BY <2>3 DEF WaitRel
      <4> QED
        BY <2>2, <3>1, <3>5, <4>1 DEF Noted, Outlives
    <3>6. CASE prog.kind[n] \notin {"barrier", "taskwait", "create", "waiton"}
      BY <3>6 DEF Outlives
    <3> QED
      BY <3>2, <3>3, <3>4, <3>5, <3>6
  <2>5. ASSUME NEW q \in AliveAt(t) PROVE Ways(q) \subseteq AliveAt(t)
    <3>1. q[2] = "in" => Outlives(t, q[1], {})
      BY <2>4, <2>5 DEF AliveAt, Positions
    <3> QED
      BY <2>5, <3>1, AliveGoesOn
  <2>6. <<c, "out">> \in AliveAt(t)
    BY <2>1 DEF AliveAt, Positions, Alive
  <2> DEFINE step == [q \in Positions |-> Ways(q)]
  <2>7. IsFiniteSet(DOMAIN step)
    BY <2>1, ForwardTypes
  <2>8. \A q \in AliveAt(t) : step[q] \subseteq AliveAt(t)
    BY <2>5 DEF AliveAt
  <2>9. <<prog.exit[prog.root], "in">> \in Spread({<<c, "out">>}, step)
    BY DEF Returns
  <2> HIDE DEF step
  <2>10. Spread({<<c, "out">>}, step) \subseteq AliveAt(t)
    BY <2>6, <2>7, <2>8, SpreadLeast
  <2>11. t \in AliveAtEnd
    <3>1. <<prog.exit[prog.root], "in">> \in AliveAt(t)
      BY <2>9, <2>10
    <3> QED
      BY <3>1 DEF AliveAt, AliveAtEnd
  <2> QED
    BY <2>3, <2>11 DEF EdgeInv
<1> QED
  BY <1>1, IInvAlways, LiveInvAlways, EdgeInvAlways, PTL
===============================================================================
