-------------------------------- MODULE FpgaSpawn -------------------------------
(***************************************************************************)
(* Task creation and taskwait inside an accelerator, as emitted by the     *)
(* FPGA device (nanos_fpga_create_wd_async, nanos_fpga_wg_wait_completion  *)
(* and __mcxx_send_finished_task_cmd in nanox-fpga-utils.hpp).             *)
(*                                                                         *)
(* Parent tasks run on accelerators.  A parent sends one packet per child  *)
(* to the scheduler, or to the dependences unit when the child has         *)
(* dependences, and blocks until it reads an acknowledgement: a refused    *)
(* child is sent again, and one answered FINAL is sent again without its   *)
(* dependences.  Accepted children are counted in __mcxx_taskComponents,   *)
(* which is what a taskwait sends to the taskwait unit.  The units and the *)
(* accelerators that run the children are outside of this repository.      *)
(***************************************************************************)
EXTENDS Integers, Sequences, FiniteSets

CONSTANTS Accs,      \* accelerators that run parents
          Parents,   \* identifiers of the parent tasks
          NoTask,    \* __mcxx_taskId of an accelerator that runs nothing
          Shapes,    \* numbers of dependences, copies and arguments of a child
          Capacity,  \* accepted children the units hold before they run
          MaxTasks   \* bound: children created in a behaviour

ASSUME FpgaSpawnAssumption ==
  /\ IsFiniteSet(Accs)
  /\ NoTask \notin Parents
  /\ Shapes \subseteq [deps : Nat, copies : Nat, args : Nat]
  \* emit_async_device: dependences and copies are those of some argument
  /\ \A s \in Shapes : s.deps + s.copies > 0 => s.args > 0
  /\ Capacity \in Nat \ {0}
  /\ MaxTasks \in Nat

VARIABLES toRun,       \* parents not started yet
          pc,          \* where the wrapper and its calls of the API are
          taskId,      \* __mcxx_taskId
          components,  \* __mcxx_taskComponents
          creation,    \* arguments of the creation under way, currentNumDeps
          outPort,     \* packets on mcxx_outPort not yet taken
          inPort,      \* words on mcxx_inPort not yet read
          tasks        \* the children accepted, in order, and how far they are

vars == <<toRun, pc, taskId, components, creation, outPort, inPort, tasks>>

ACK_REJECT_CODE == 0
ACK_OK_CODE == 1
ACK_FINAL_CODE == 2
Acks == {ACK_REJECT_CODE, ACK_OK_CODE, ACK_FINAL_CODE}
WaitOver == 3  \* the word that ends a taskwait, whatever its value

DEPS == 2      \* HWR_DEPS_ID
SCHED == 3     \* HWR_SCHED_ID
TASKWAIT == 4  \* HWR_TASKWAIT_ID

Free == [deps |-> 0, copies |-> 0, args |-> 0, currentNumDeps |-> 0]

Init ==
  /\ toRun = Parents
  /\ pc = [a \in Accs |-> "idle"]
  /\ taskId = [a \in Accs |-> NoTask]
  /\ components = [a \in Accs |-> 0]
  /\ creation = [a \in Accs |-> Free]
  /\ outPort = [a \in Accs |-> <<>>]
  /\ inPort = [a \in Accs |-> <<>>]
  /\ tasks = <<>>

--------------------------------------------------------------------------------
(* Packets: a header that announces the words to come, and the last bit of   *)
(* each word written.                                                        *)

MutLastBits(c) ==
  <<FALSE, FALSE, FALSE>>
    \o [i \in 1..c.currentNumDeps |-> i = c.deps /\ c.args = 0 /\ c.copies = 0]
    \o [i \in 1..3 * c.copies |-> i = 3 * c.copies]
    \o [i \in 1..c.args |-> i = c.args]

\* Three words of header, one per dependence, three per copy, one per argument.
LastBits(c) ==
  <<FALSE, FALSE, FALSE>>
    \o [i \in 1..c.currentNumDeps |-> i = c.deps /\ c.args = 0 /\ c.copies = 0]
    \o [i \in 1..3 * c.copies |-> i = 3 * c.copies /\ c.args = 0]
    \o [i \in 1..c.args |-> i = c.args]

\* destId and the three header words; parent and type are those of the caller.
CreatePacket(a, c) ==
  [dest |-> IF c.currentNumDeps = 0 THEN SCHED ELSE DEPS,
   num |-> components[a], parent |-> taskId[a],
   deps |-> c.currentNumDeps, copies |-> c.copies, args |-> c.args,
   last |-> LastBits(c)]

WaitPacket(a) ==
  [dest |-> TASKWAIT, num |-> components[a], parent |-> taskId[a],
   deps |-> 0, copies |-> 0, args |-> 0, last |-> <<FALSE, TRUE>>]

Send(a, packet) == outPort' = [outPort EXCEPT ![a] = Append(@, packet)]

Read(a, word) ==
  /\ inPort[a] # <<>>
  /\ word = Head(inPort[a])
  /\ inPort' = [inPort EXCEPT ![a] = Tail(@)]

--------------------------------------------------------------------------------
(* The accelerator of a parent.                                              *)

MutStartTask(a, p) ==
  /\ pc[a] = "idle"
  /\ p \in toRun
  /\ toRun' = toRun \ {p}
  /\ pc' = [pc EXCEPT ![a] = "run"]
  /\ components' = [components EXCEPT ![a] = 0]
  /\ UNCHANGED <<taskId, creation, outPort, inPort, tasks>>

MutStart(a, p) ==
  /\ pc[a] = "idle"
  /\ p \in toRun
  /\ toRun' = toRun \ {p}
  /\ pc' = [pc EXCEPT ![a] = "run"]
  /\ taskId' = [taskId EXCEPT ![a] = p]
  /\ UNCHANGED <<components, creation, outPort, inPort, tasks>>

\* The wrapper reads an execution command and calls the user code.
Start(a, p) ==
  /\ pc[a] = "idle"
  /\ p \in toRun
  /\ toRun' = toRun \ {p}
  /\ pc' = [pc EXCEPT ![a] = "run"]
  /\ taskId' = [taskId EXCEPT ![a] = p]
  /\ components' = [components EXCEPT ![a] = 0]
  /\ UNCHANGED <<creation, outPort, inPort, tasks>>

\* The user code ends.  It need not have waited for its children; what the wrapper
\* then tells the parent's own parent is in FpgaWrapper.
End(a) ==
  /\ pc[a] = "run"
  /\ pc' = [pc EXCEPT ![a] = "idle"]
  /\ UNCHANGED <<toRun, taskId, components, creation, outPort, inPort, tasks>>

Creating == {a \in Accs : pc[a] = "create"}

\* nanos_fpga_create_wd_async up to the first read of the acknowledgement.
Create(a, s) ==
  LET c == [deps |-> s.deps, copies |-> s.copies, args |-> s.args,
            currentNumDeps |-> s.deps] IN
  /\ pc[a] = "run"
  /\ Len(tasks) + Cardinality(Creating) < MaxTasks
  /\ creation' = [creation EXCEPT ![a] = c]
  /\ Send(a, CreatePacket(a, c))
  /\ pc' = [pc EXCEPT ![a] = "create"]
  /\ UNCHANGED <<toRun, taskId, components, inPort, tasks>>

MutRetryCounts(a) ==
  /\ pc[a] = "create"
  /\ \E ack \in Acks \ {ACK_OK_CODE} :
       LET c == [creation[a] EXCEPT !.currentNumDeps =
                   IF ack = ACK_FINAL_CODE THEN 0 ELSE creation[a].deps] IN
       /\ Read(a, ack)
       /\ creation' = [creation EXCEPT ![a] = c]
       /\ Send(a, CreatePacket(a, c))
       /\ components' = [components EXCEPT ![a] = @ + 1]
  /\ UNCHANGED <<toRun, pc, taskId, tasks>>

MutRetryOnce(a) ==
  /\ pc[a] = "create"
  /\ \E ack \in Acks \ {ACK_OK_CODE} : Read(a, ack)
  /\ UNCHANGED <<toRun, pc, taskId, components, creation, outPort, tasks>>

\* The do-while goes round: the same child, without dependences after FINAL.
CreateAgain(a) ==
  /\ pc[a] = "create"
  /\ \E ack \in Acks \ {ACK_OK_CODE} :
       LET c == [creation[a] EXCEPT !.currentNumDeps =
                   IF ack = ACK_FINAL_CODE THEN 0 ELSE creation[a].deps] IN
       /\ Read(a, ack)
       /\ creation' = [creation EXCEPT ![a] = c]
       /\ Send(a, CreatePacket(a, c))
  /\ UNCHANGED <<toRun, pc, taskId, components, tasks>>

\* finalMode, which the acknowledgement that ended the loop has assigned.
FinalMode(ack) == ack = ACK_FINAL_CODE

\* The loop ends, the child is counted; "join" is a call of the taskwait.
Created(a) ==
  /\ pc[a] = "create"
  /\ Read(a, ACK_OK_CODE)
  /\ components' = [components EXCEPT ![a] = @ + 1]
  /\ pc' = [pc EXCEPT ![a] =
             IF creation[a].deps > 0 /\ FinalMode(ACK_OK_CODE) THEN "join" ELSE "run"]
  /\ UNCHANGED <<toRun, taskId, creation, outPort, tasks>>

MutWait(a) ==
  /\ pc[a] \in {"run", "join"}
  /\ components[a] # 0
  /\ Send(a, [WaitPacket(a) EXCEPT !.num = @ - 1])
  /\ pc' = [pc EXCEPT ![a] = "wait"]
  /\ UNCHANGED <<toRun, taskId, components, creation, inPort, tasks>>

\* nanos_fpga_wg_wait_completion: it asks only when it has created children.
Wait(a) ==
  /\ pc[a] \in {"run", "join"}
  /\ components[a] # 0
  /\ Send(a, WaitPacket(a))
  /\ pc' = [pc EXCEPT ![a] = "wait"]
  /\ UNCHANGED <<toRun, taskId, components, creation, inPort, tasks>>

MutWaited(a) ==
  /\ pc[a] = "wait"
  /\ Read(a, WaitOver)
  /\ pc' = [pc EXCEPT ![a] = "run"]
  /\ UNCHANGED <<toRun, taskId, components, creation, outPort, tasks>>

Waited(a) ==
  /\ pc[a] = "wait"
  /\ Read(a, WaitOver)
  /\ components' = [components EXCEPT ![a] = 0]
  /\ pc' = [pc EXCEPT ![a] = "run"]
  /\ UNCHANGED <<toRun, taskId, creation, outPort, tasks>>

--------------------------------------------------------------------------------
(* The units of the hardware runtime and the accelerators of the children,   *)
(* modelled from the packets above.  A unit takes a packet whose last word   *)
(* has arrived.  A child is "queued", "running", "finished" when its         *)
(* completion is on the way, "counted" when the taskwait unit knows of it,   *)
(* and "joined" when a taskwait has taken it off the unit's count.           *)

InState(st) == {i \in DOMAIN tasks : tasks[i].state = st}
ChildrenOf(p) == {i \in DOMAIN tasks : tasks[i].parent = p}

Arrived(a) ==
  /\ outPort[a] # <<>>
  /\ \E i \in DOMAIN Head(outPort[a]).last : Head(outPort[a]).last[i]

Take(a) ==
  /\ Arrived(a)
  /\ outPort' = [outPort EXCEPT ![a] = Tail(@)]

Answer(a, word) == inPort' = [inPort EXCEPT ![a] = Append(@, word)]

Accept(a) ==
  LET p == Head(outPort[a]) IN
  /\ Take(a)
  /\ p.dest \in {SCHED, DEPS}
  /\ Cardinality(InState("queued")) < Capacity
  /\ tasks' = Append(tasks, [parent |-> p.parent, num |-> p.num, state |-> "queued"])
  /\ Answer(a, ACK_OK_CODE)
  /\ UNCHANGED <<toRun, pc, taskId, components, creation>>

Reject(a) ==
  /\ Take(a)
  /\ Head(outPort[a]).dest \in {SCHED, DEPS}
  /\ Cardinality(InState("queued")) = Capacity
  /\ Answer(a, ACK_REJECT_CODE)
  /\ UNCHANGED <<toRun, pc, taskId, components, creation, tasks>>

\* Only the dependences unit turns to final mode.
Final(a) ==
  /\ Take(a)
  /\ Head(outPort[a]).dest = DEPS
  /\ Answer(a, ACK_FINAL_CODE)
  /\ UNCHANGED <<toRun, pc, taskId, components, creation, tasks>>

\* The taskwait unit answers when as many children of the task as the request
\* says have been counted, and starts counting again.
EndWait(a) ==
  LET p == Head(outPort[a])
      counted == ChildrenOf(p.parent) \cap InState("counted") IN
  /\ Take(a)
  /\ p.dest = TASKWAIT
  /\ Cardinality(counted) >= p.num
  /\ tasks' = [i \in DOMAIN tasks |->
                 IF i \in counted THEN [tasks[i] EXCEPT !.state = "joined"] ELSE tasks[i]]
  /\ Answer(a, WaitOver)
  /\ UNCHANGED <<toRun, pc, taskId, components, creation>>

Move(i, from, to) ==
  /\ tasks[i].state = from
  /\ tasks' = [tasks EXCEPT ![i].state = to]
  /\ UNCHANGED <<toRun, pc, taskId, components, creation, outPort, inPort>>

Run(i) == Move(i, "queued", "running")
\* The child's wrapper sends its identifier and its parent's to the taskwait unit.
Finish(i) == Move(i, "running", "finished")
CountFinished(i) == Move(i, "finished", "counted")

--------------------------------------------------------------------------------
Unit(a) == Accept(a) \/ Reject(a) \/ Final(a) \/ EndWait(a)
Child(i) == Run(i) \/ Finish(i) \/ CountFinished(i)

Next ==
  \/ \E a \in Accs :
       \/ \E p \in Parents : Start(a, p)
       \/ End(a)
       \/ \E s \in Shapes : Create(a, s)
       \/ CreateAgain(a)
       \/ Created(a)
       \/ Wait(a)
       \/ Waited(a)
       \/ Unit(a)
  \/ \E i \in DOMAIN tasks : Child(i)

Spec == Init /\ [][Next]_vars

\* Accelerators read what has arrived, units serve what has arrived, children run
\* and end.  Nothing makes the user code create, wait or end.
Fairness ==
  /\ \A a \in Accs :
       /\ WF_vars(CreateAgain(a) \/ Created(a))
       /\ WF_vars(Waited(a))
       /\ WF_vars(Unit(a))
  /\ \A i \in 1..MaxTasks : WF_vars(i \in DOMAIN tasks /\ Child(i))

FairSpec == Spec /\ Fairness

--------------------------------------------------------------------------------
Packets == [dest : {DEPS, SCHED, TASKWAIT}, num : Nat, parent : Parents,
            deps : Nat, copies : Nat, args : Nat, last : Seq(BOOLEAN)]

Children == [parent : Parents, num : Nat,
             state : {"queued", "running", "finished", "counted", "joined"}]

\* Ports, counters and children hold what the wrapper and the units put there.
TypeOK ==
  /\ toRun \subseteq Parents
  /\ pc \in [Accs -> {"idle", "run", "create", "join", "wait"}]
  /\ taskId \in [Accs -> Parents \cup {NoTask}]
  /\ \A a \in Accs : pc[a] # "idle" => taskId[a] \in Parents
  /\ components \in [Accs -> Nat]
  /\ creation \in [Accs -> [deps : Nat, copies : Nat, args : Nat, currentNumDeps : Nat]]
  /\ outPort \in [Accs -> Seq(Packets)]
  /\ inPort \in [Accs -> Seq(Acks \cup {WaitOver})]
  /\ tasks \in Seq(Children)

Unjoined(p) == ChildrenOf(p) \ InState("joined")
Unread(a, word) == IF inPort[a] = <<word>> THEN 1 ELSE 0

\* __mcxx_taskComponents is the number of children accepted since the last taskwait,
\* through refusals and retries, acknowledgements not read yet, and the tasks that
\* ran before on the accelerator; so a taskwait that finds 0 has nothing to wait for,
\* and none is left when the answer to a taskwait is there to be read.
CountsAgree ==
  \A a \in Accs :
    pc[a] # "idle" =>
      Cardinality(Unjoined(taskId[a])) =
        IF inPort[a] = <<WaitOver>> THEN 0 ELSE components[a] + Unread(a, ACK_OK_CODE)

\* What an accelerator has asked and what may come back.
Question(a) == IF pc[a] = "wait" THEN WaitPacket(a) ELSE CreatePacket(a, creation[a])
Answers(a) == IF pc[a] = "wait" THEN {WaitOver} ELSE Acks

Quiet(a) == outPort[a] = <<>> /\ inPort[a] = <<>>
Asked(a) == outPort[a] = <<Question(a)>> /\ inPort[a] = <<>>
Answered(a) == outPort[a] = <<>> /\ \E w \in Answers(a) : inPort[a] = <<w>>

Dialogue(a) ==
  IF pc[a] \in {"create", "wait"} THEN Asked(a) \/ Answered(a) ELSE Quiet(a)

\* One question is under way at a time and it still says what the accelerator would
\* say now; accelerators run different parents, and only started ones have children.
\* With CountsAgree and ChildNumbers, the inductive invariant of the protocol.
DialogueInv ==
  /\ \A a \in Accs : Dialogue(a)
  /\ \A a, b \in Accs :
       a # b /\ pc[a] # "idle" /\ pc[b] # "idle" => taskId[a] # taskId[b]
  /\ \A a \in Accs : pc[a] # "idle" => taskId[a] \notin toRun
  /\ \A p \in toRun : ChildrenOf(p) = {}

\* The child numbers of the children created since the last taskwait are 0, 1, 2...,
\* in the order in which they were accepted, retries or not.
ChildNumbers ==
  \A p \in Parents : \A i \in Unjoined(p) :
    tasks[i].num = Cardinality({j \in Unjoined(p) : j < i})

\* Every packet is as long as its header announces, and its last word, and no other,
\* carries the last bit: after a retry without dependences too.
PacketsFramed ==
  \A a \in Accs : \A k \in DOMAIN outPort[a] :
    LET p == outPort[a][k]
        len == IF p.dest = TASKWAIT THEN 2 ELSE 3 + p.deps + 3 * p.copies + p.args
    IN /\ Len(p.last) = len
       /\ \A i \in 1..len : p.last[i] <=> i = len

\* Creation and taskwait implement fork and join: a taskwait that asked the unit
\* returns only when no child of the task is queued or running.
Abstract == INSTANCE ForkJoin WITH
  Children <- 1..MaxTasks,
  open <- [p \in Parents |-> ChildrenOf(p) \cap (InState("queued") \cup InState("running"))],
  joining <- {taskId[a] : a \in {b \in Accs : pc[b] = "wait"}}
ImplementsForkJoin == Abstract!Spec

\* A refused creation is retried until a unit takes the child.
CreationEnds == \A a \in Accs : pc[a] = "create" ~> pc[a] = "run"

\* A taskwait comes back: the count it sends is reached by the children's completions.
WaitEnds == \A a \in Accs : pc[a] = "wait" ~> pc[a] = "run"

\* A child with dependences that is created in final mode is waited for before the
\* user code goes on (the last lines of nanos_fpga_create_wd_async).
FinalWaited ==
  [][\A a \in Accs :
       (Created(a) /\ creation[a].deps > 0 /\ creation[a].currentNumDeps = 0)
         => pc'[a] # "run"]_vars
================================================================================
