--------------------------- MODULE FpgaWrapperProofs ---------------------------
(***************************************************************************)
(* For any number of accelerators, any program and both orders of the      *)
(* arguments: the loops of the wrapper stay in their arrays, repetitions   *)
(* never run past what was asked, and every completion is for a task that  *)
(* is completed once and names its own parent.  The invariant places each  *)
(* task that was sent and is not finished in one place: the stream of one  *)
(* accelerator, its wrapper, or its completions.                           *)
(*                                                                         *)
(* For the programs with Proper, what the tasks see and leave is that of   *)
(* the program order: a second invariant, DataInv, relates the variables   *)
(* of each wrapper and each region to Sequential.                          *)
(***************************************************************************)
EXTENDS FpgaWrapper, SequenceTheorems, FiniteSetTheorems, WellFoundedInduction, TLAPS

\* The commands the runtime sends and the completions the wrapper owes for them.
CommandOf(t, p) ==
  [task |-> t, parent |-> Tasks[t].parent, comp |-> Tasks[t].comp,
   periodic |-> Tasks[t].periodic, reps |-> Tasks[t].reps, args |-> Words(t, p)]

Commands == {CommandOf(t, p) : t \in TaskIds, p \in Orders}
Completions == {[task |-> t, parent |-> Tasks[t].parent] : t \in TaskIds}

\* Repetitions of the command for a task.
AskedReps(t) == IF Tasks[t].periodic THEN Tasks[t].reps ELSE 1

\* The tasks on their way to, in the hands of and completed by an accelerator.
Coming(a) == {inPort[a][n].task : n \in DOMAIN inPort[a]}
Working(a) == IF pc[a] = "command" THEN {} ELSE {command[a].task}
Completed(a) == {outPort[a][n].task : n \in DOMAIN outPort[a]}
Held(a) == Coming(a) \cup Working(a) \cup Completed(a)

\* What the ports and the wrapper hold.
Ports ==
  /\ inPort \in [Accs -> Seq(Commands)]
  /\ outPort \in [Accs -> Seq(Completions)]
  /\ DOMAIN command = Accs
  /\ \A a \in Accs : Len(inPort[a]) <= 1
  /\ \A a \in Accs : pc[a] # "command" => command[a] \in Commands

\* A task that was sent and is not finished is in one place.
OnePlace(a) ==
  /\ Held(a) \subseteq sent \ finished
  /\ Coming(a) \cap Working(a) = {}
  /\ Coming(a) \cap Completed(a) = {}
  /\ Working(a) \cap Completed(a) = {}
  /\ \A m, n \in DOMAIN outPort[a] : outPort[a][m].task = outPort[a][n].task => m = n

Places ==
  /\ \A a \in Accs : OnePlace(a)
  /\ \A a, b \in Accs : a # b => Held(a) \cap Held(b) = {}

\* The repetitions left: those asked for, none after a cancellation, and a task that is
\* to run forever has not passed its cancellation.
RepsLeft(a) ==
  LET t == command[a].task IN
  /\ pc[a] = "in" => numReps[a] = AskedReps(t)
  /\ pc[a] = "exec" =>
       /\ numReps[a] \in {0, AskedReps(t)}
       /\ numReps[a] = Forever => rep[a] <= Tasks[t].cancelAt

IInv == TypeOK /\ Ports /\ Places /\ \A a \in Accs : RepsLeft(a)

--------------------------------------------------------------------------------
\* The fields of a command.
LEMMA CommandFields ==
  ASSUME NEW c \in Commands
  PROVE  /\ c.task \in TaskIds /\ c.parent = Tasks[c.task].parent
         /\ c.periodic = Tasks[c.task].periodic /\ c.reps = Tasks[c.task].reps
         /\ [task |-> c.task, parent |-> c.parent] \in Completions
<1>1. PICK t \in TaskIds, p \in Orders : c = CommandOf(t, p)
  BY DEF Commands
<1>2. /\ c.task = t /\ c.parent = Tasks[t].parent /\ c.periodic = Tasks[t].periodic
      /\ c.reps = Tasks[t].reps
  BY <1>1 DEF CommandOf
<1>3. [task |-> t, parent |-> Tasks[t].parent] \in Completions
  BY DEF Completions
<1> QED
  BY <1>2, <1>3

\* A task asks for a number of repetitions, and is cancelled if it asks for Forever.
LEMMA RepsAsked ==
  ASSUME NEW t \in TaskIds
  PROVE  /\ AskedReps(t) \in 1..Forever /\ Forever \in Nat /\ Forever > 1
         /\ AskedReps(t) = Forever => Tasks[t].cancelAt \in 0..Forever - 1
BY FpgaWrapperAssumption DEF AskedReps

\* The copy-out loop has a turn for each output, and they are parameters.
LEMMA OutDomain ==
  ASSUME NEW a \in Accs
  PROVE  NParams \in Nat /\ DOMAIN OutSteps(a) \subseteq 1..NParams
<1>1. NParams \in Nat /\ Outputs \subseteq 1..NParams
  BY FpgaWrapperAssumption DEF Outputs, Params
<1>2. IsFiniteSet(1..NParams) /\ Cardinality(1..NParams) = NParams
  BY <1>1, FS_Interval
<1>3. Cardinality(Outputs) \in Nat /\ Cardinality(Outputs) <= NParams
  BY <1>1, <1>2, FS_Subset, FS_CardinalityType
<1>4. DOMAIN OutSteps(a) = 1..Cardinality(Outputs)
  BY DEF OutSteps
<1> QED
  BY <1>1, <1>3, <1>4

\* Initially nothing is anywhere.
LEMMA InitIInv == Init => IInv
<1> SUFFICES ASSUME Init PROVE IInv
  OBVIOUS
<1> USE DEF Init
<1>1. TypeOK
  BY FpgaWrapperAssumption DEF TypeOK
<1>2. Ports
  BY DEF Ports
<1>3. \A a \in Accs : Coming(a) = {} /\ Working(a) = {} /\ Completed(a) = {}
  BY DEF Coming, Working, Completed
<1>4. Places
  BY <1>3 DEF Places, OnePlace, Held
<1>5. \A a \in Accs : RepsLeft(a)
  BY DEF RepsLeft
<1> QED
  BY <1>1, <1>2, <1>4, <1>5 DEF IInv

--------------------------------------------------------------------------------
(* Where tasks are, step by step *)

\* A step of accelerator a leaves the ports and the wrappers of the others alone.
Others(a) ==
  \A b \in Accs : b # a =>
    /\ pc'[b] = pc[b] /\ command'[b] = command[b]
    /\ inPort'[b] = inPort[b] /\ outPort'[b] = outPort[b]
    /\ rep'[b] = rep[b] /\ numReps'[b] = numReps[b]

\* So where their tasks are does not change.
LEMMA OthersHold ==
  ASSUME NEW a \in Accs, Others(a), NEW b \in Accs, b # a
  PROVE  /\ Coming(b)' = Coming(b) /\ Working(b)' = Working(b) /\ Completed(b)' = Completed(b)
         /\ Held(b)' = Held(b)
         /\ RepsLeft(b) => RepsLeft(b)'
<1>1. /\ pc'[b] = pc[b] /\ command'[b] = command[b]
      /\ inPort'[b] = inPort[b] /\ outPort'[b] = outPort[b]
      /\ rep'[b] = rep[b] /\ numReps'[b] = numReps[b]
  BY DEF Others
<1>2. Coming(b)' = Coming(b) /\ Working(b)' = Working(b) /\ Completed(b)' = Completed(b)
  BY <1>1 DEF Coming, Working, Completed
<1>3. Held(b)' = Held(b)
  BY <1>2 DEF Held
<1>4. RepsLeft(b) => RepsLeft(b)'
  BY <1>1 DEF RepsLeft
<1> QED
  BY <1>2, <1>3, <1>4

\* A step of one accelerator takes new tasks from the runtime only, and what it finishes
\* it held: the tasks of the others stay where they are.
LEMMA PlacesMove ==
  ASSUME Places, NEW a \in Accs, Others(a), OnePlace(a)', sent \subseteq sent',
         finished' \subseteq finished \cup Held(a), Held(a)' \subseteq Held(a) \cup (sent' \ sent)
  PROVE  Places'
<1>1. ASSUME NEW b \in Accs, b # a
      PROVE  OnePlace(b)' /\ Held(b)' = Held(b) /\ Held(b)' \cap Held(a)' = {}
  <2>1. /\ Coming(b)' = Coming(b) /\ Working(b)' = Working(b) /\ Completed(b)' = Completed(b)
        /\ Held(b)' = Held(b)
    BY <1>1, OthersHold
  <2>2. OnePlace(b) /\ Held(b) \cap Held(a) = {}
    BY <1>1 DEF Places
  <2>3. Held(b) \subseteq sent' \ finished'
    BY <2>2 DEF OnePlace
  <2>4. outPort'[b] = outPort[b]
    BY <1>1 DEF Others
  <2>5. OnePlace(b)'
    BY <2>1, <2>2, <2>3, <2>4 DEF OnePlace
  <2>6. Held(b) \cap Held(a)' = {}
    BY <2>2 DEF OnePlace
  <2> QED
    BY <2>1, <2>5, <2>6
<1>2. ASSUME NEW b \in Accs, NEW d \in Accs, b # d PROVE (Held(b) \cap Held(d) = {})'
  BY <1>1, <1>2 DEF Places
<1> QED
  BY <1>1, <1>2 DEF Places

\* A step inside of the wrapper moves no task.
LEMMA InsideStep ==
  ASSUME Ports, Places, NEW a \in Accs, pc[a] # "command", pc'[a] # "command",
         \A b \in Accs : b # a => pc'[b] = pc[b],
         UNCHANGED <<command, inPort, outPort, sent, finished>>
  PROVE  Ports' /\ Places'
<1>1. Ports'
  BY DEF Ports
<1>2. ASSUME NEW b \in Accs
      PROVE  /\ Coming(b)' = Coming(b) /\ Working(b)' = Working(b) /\ Completed(b)' = Completed(b)
             /\ Held(b)' = Held(b)
  <2>1. Working(b)' = Working(b)
    BY DEF Working
  <2>2. Coming(b)' = Coming(b) /\ Completed(b)' = Completed(b)
    BY DEF Coming, Completed
  <2> QED
    BY <2>1, <2>2 DEF Held
<1>3. ASSUME NEW b \in Accs PROVE OnePlace(b)'
  BY <1>2 DEF Places, OnePlace
<1>4. Places'
  BY <1>2, <1>3 DEF Places
<1> QED
  BY <1>1, <1>4

\* A sequence of one element is its head.
LEMMA OneLong ==
  ASSUME NEW T, NEW s \in Seq(T), s # <<>>, Len(s) <= 1
  PROVE  /\ Head(s) \in T /\ DOMAIN s = {1} /\ s[1] = Head(s)
         /\ Tail(s) \in Seq(T) /\ Len(Tail(s)) <= 1 /\ DOMAIN Tail(s) = {}
<1>1. Len(s) = 1
  <2>1. Len(s) \in Nat \ {0}
    BY EmptySeq
  <2> QED
    BY <2>1
<1>2. Head(s) \in T /\ Tail(s) \in Seq(T) /\ Len(Tail(s)) = 0
  BY <1>1, HeadTailProperties
<1>3. DOMAIN s = 1..1 /\ DOMAIN Tail(s) = 1..0
  BY <1>1, <1>2, LenProperties
<1>4. s[1] = Head(s)
  OBVIOUS
<1> QED
  BY <1>2, <1>3, <1>4

\* The task of a stream of one command, which is empty when it is read.
LEMMA OneCommand ==
  ASSUME Ports, NEW a \in Accs, inPort[a] # <<>>
  PROVE  /\ Head(inPort[a]) \in Commands
         /\ Coming(a) = {Head(inPort[a]).task}
         /\ Tail(inPort[a]) \in Seq(Commands) /\ Len(Tail(inPort[a])) <= 1
         /\ DOMAIN Tail(inPort[a]) = {}
<1>1. inPort[a] \in Seq(Commands) /\ Len(inPort[a]) <= 1
  BY DEF Ports
<1>2. /\ Head(inPort[a]) \in Commands /\ DOMAIN inPort[a] = {1}
      /\ inPort[a][1] = Head(inPort[a])
      /\ Tail(inPort[a]) \in Seq(Commands) /\ Len(Tail(inPort[a])) <= 1
      /\ DOMAIN Tail(inPort[a]) = {}
  BY <1>1, OneLong
<1> QED
  BY <1>2 DEF Coming

\* Reading a command takes its task from the stream into the wrapper.
LEMMA ReadCommandStep ==
  ASSUME IInv, NEW a \in Accs, ReadCommand(a)
  PROVE  IInv'
<1> DEFINE cmd == Head(inPort[a])
<1>1. Ports /\ Places /\ TypeOK /\ OnePlace(a)
  BY DEF IInv, Places
<1>2. /\ cmd \in Commands /\ Coming(a) = {cmd.task}
      /\ Tail(inPort[a]) \in Seq(Commands) /\ Len(Tail(inPort[a])) <= 1
      /\ DOMAIN Tail(inPort[a]) = {}
  BY <1>1, OneCommand DEF ReadCommand
<1>3. cmd.task \in TaskIds /\ cmd.periodic = Tasks[cmd.task].periodic
      /\ cmd.reps = Tasks[cmd.task].reps
  BY <1>2, CommandFields
<1> HIDE DEF cmd
<1>4. /\ command'[a] = cmd /\ inPort'[a] = Tail(inPort[a]) /\ pc'[a] = "in"
      /\ numReps'[a] = AskedReps(cmd.task)
      /\ pc[a] = "command"
      /\ UNCHANGED <<rep, local, mem, outPort, sent, finished>>
  BY <1>1, <1>3 DEF ReadCommand, Ports, TypeOK, AskedReps, cmd
<1>5. Others(a)
  BY <1>1 DEF ReadCommand, Ports, TypeOK, Others
<1>6. Coming(a)' = {} /\ Working(a)' = {cmd.task} /\ Completed(a)' = Completed(a)
  <2>1. DOMAIN inPort'[a] = {}
    BY <1>2, <1>4
  <2> QED
    BY <1>4, <2>1 DEF Coming, Working, Completed
<1>7. Held(a)' = Held(a)
  BY <1>2, <1>4, <1>6 DEF Held, Working
<1>8. OnePlace(a)'
  BY <1>1, <1>2, <1>4, <1>6, <1>7 DEF OnePlace
<1>9. Places'
  BY <1>1, <1>4, <1>5, <1>7, <1>8, PlacesMove
<1>10. Ports'
  <2>1. inPort' \in [Accs -> Seq(Commands)] /\ DOMAIN command' = Accs
    BY <1>1, <1>2 DEF ReadCommand, Ports
  <2>2. Len(inPort'[a]) <= 1 /\ command'[a] \in Commands
    BY <1>2, <1>4
  <2>3. ASSUME NEW b \in Accs, b # a
        PROVE  Len(inPort'[b]) <= 1 /\ (pc'[b] # "command" => command'[b] \in Commands)
    BY <1>1, <1>5, <2>3 DEF Ports, Others
  <2> QED
    BY <1>1, <1>4, <2>1, <2>2, <2>3 DEF Ports
<1>11. TypeOK'
  <2>1. /\ pc' \in [Accs -> {"command", "in", "exec", "out"}]
        /\ i' \in [Accs -> 1..NParams + 1] /\ numReps' \in [Accs -> 0..Forever]
    <3>1. AskedReps(cmd.task) \in 0..Forever /\ 1 \in 1..NParams + 1
      BY <1>3, RepsAsked, FpgaWrapperAssumption
    <3>2. numReps' = [numReps EXCEPT ![a] = AskedReps(cmd.task)]
      BY <1>3 DEF ReadCommand, AskedReps, cmd
    <3> QED
      BY <1>1, <3>1, <3>2 DEF ReadCommand, TypeOK
  <2>2. \A b \in Accs : pc'[b] # "command" => command'[b].task \in sent
    <3>1. cmd.task \in sent
      BY <1>1, <1>2 DEF OnePlace, Held
    <3> QED
      BY <1>1, <1>4, <1>5, <3>1 DEF TypeOK, Others
  <2> QED
    BY <1>1, <1>4, <2>1, <2>2 DEF TypeOK
<1>12. ASSUME NEW b \in Accs PROVE RepsLeft(b)'
  <2>1. CASE b = a
    BY <1>4, <2>1 DEF RepsLeft
  <2>2. CASE b # a
    BY <1>5, <2>2, OthersHold DEF IInv
  <2> QED
    BY <2>1, <2>2
<1> QED
  BY <1>9, <1>10, <1>11, <1>12 DEF IInv

--------------------------------------------------------------------------------
(* Steps inside of the wrapper *)

\* The task of a busy wrapper is one of the program.
LEMMA BusyTask ==
  ASSUME IInv, NEW a \in Accs, pc[a] # "command"
  PROVE  /\ command[a] \in Commands /\ command[a].task \in TaskIds
         /\ AskedReps(command[a].task) \in 1..Forever /\ Forever \in Nat /\ Forever > 1
         /\ AskedReps(command[a].task) = Forever =>
              Tasks[command[a].task].cancelAt \in 0..Forever - 1
<1>1. command[a] \in Commands
  BY DEF IInv, Ports
<1>2. command[a].task \in TaskIds
  BY <1>1, CommandFields
<1> QED
  BY <1>1, <1>2, RepsAsked

\* The copies advance their loop.
LEMMA CopyStep ==
  ASSUME IInv, NEW a \in Accs, CopyIn(a) \/ CopyOut(a)
  PROVE  IInv'
<1>1. Ports /\ Places /\ TypeOK
  BY DEF IInv
<1>2. /\ pc[a] # "command"
      /\ i' = [i EXCEPT ![a] = @ + 1] /\ i[a] \in 1..NParams
      /\ UNCHANGED <<pc, command, rep, numReps, inPort, outPort, sent, finished>>
  <2>1. CASE CopyIn(a)
    BY <1>1, <2>1, FpgaWrapperAssumption DEF CopyIn, TypeOK
  <2>2. CASE CopyOut(a)
    BY <2>2, OutDomain DEF CopyOut
  <2> QED
    BY <2>1, <2>2
<1>3. Ports' /\ Places'
  BY <1>1, <1>2, InsideStep
<1>4. TypeOK'
  <2>1. i' \in [Accs -> 1..NParams + 1]
    <3>1. i[a] + 1 \in 1..NParams + 1
      BY <1>2, FpgaWrapperAssumption
    <3> QED
      BY <1>1, <1>2, <3>1 DEF TypeOK
  <2> QED
    BY <1>1, <1>2, <2>1 DEF TypeOK
<1>5. ASSUME NEW b \in Accs PROVE RepsLeft(b)'
  BY <1>2 DEF IInv, RepsLeft
<1> QED
  BY <1>3, <1>4, <1>5 DEF IInv

\* After the copies the repetitions start at zero.
LEMMA CopiedInStep ==
  ASSUME IInv, NEW a \in Accs, CopiedIn(a)
  PROVE  IInv'
<1>1. Ports /\ Places /\ TypeOK /\ RepsLeft(a)
  BY DEF IInv
<1>2. pc[a] = "in" /\ UNCHANGED <<command, numReps, local, mem, inPort, outPort, sent, finished>>
  BY DEF CopiedIn
<1>3. /\ AskedReps(command[a].task) \in 1..Forever /\ Forever \in Nat
      /\ AskedReps(command[a].task) = Forever =>
           Tasks[command[a].task].cancelAt \in 0..Forever - 1
  BY <1>2, BusyTask
<1>4. /\ pc' \in [Accs -> {"command", "in", "exec", "out"}]
      /\ pc'[a] \in {"exec", "out"} /\ rep'[a] = 0
      /\ \A b \in Accs : b # a => pc'[b] = pc[b] /\ rep'[b] = rep[b]
  BY <1>1 DEF CopiedIn, TypeOK
<1>5. Ports' /\ Places'
  BY <1>1, <1>2, <1>4, InsideStep
<1>6. TypeOK'
  <2>1. i' \in [Accs -> 1..NParams + 1] /\ rep' \in [Accs -> 0..Forever]
    <3>1. 1 \in 1..NParams + 1 /\ 0 \in 0..Forever
      BY <1>3, FpgaWrapperAssumption
    <3> QED
      BY <1>1, <3>1 DEF CopiedIn, TypeOK
  <2> QED
    BY <1>1, <1>2, <1>4, <2>1 DEF TypeOK
<1>7. Others(a)
  BY <1>2, <1>4 DEF Others
<1>8. RepsLeft(a)'
  <2>1. numReps'[a] = AskedReps(command[a].task)
    BY <1>1, <1>2 DEF RepsLeft
  <2> QED
    BY <1>2, <1>3, <1>4, <2>1 DEF RepsLeft
<1>9. ASSUME NEW b \in Accs PROVE RepsLeft(b)'
  BY <1>7, <1>8, OthersHold DEF IInv
<1> QED
  BY <1>5, <1>6, <1>9 DEF IInv

\* A repetition leaves fewer to do: the count stays below what was asked for, and below
\* the cancellation of a task that runs forever.
LEMMA ExecuteStep ==
  ASSUME IInv, NEW a \in Accs, Execute(a)
  PROVE  IInv'
<1> DEFINE t == command[a].task
<1>1. Ports /\ Places /\ TypeOK /\ RepsLeft(a)
  BY DEF IInv
<1>2. /\ pc[a] = "exec" /\ Again(rep[a], numReps[a])
      /\ UNCHANGED <<pc, command, i, mem, inPort, outPort, sent, finished>>
  BY DEF Execute
<1>3. /\ AskedReps(t) \in 1..Forever /\ Forever \in Nat /\ Forever > 1
      /\ AskedReps(t) = Forever => Tasks[t].cancelAt \in 0..Forever - 1
  BY <1>2, BusyTask
<1>4. /\ numReps'[a] = IF rep[a] = Tasks[t].cancelAt THEN 0 ELSE numReps[a]
      /\ rep'[a] = rep[a] + 1
      /\ \A b \in Accs : b # a => rep'[b] = rep[b] /\ numReps'[b] = numReps[b]
  BY <1>1 DEF Execute, TypeOK
<1>5. rep[a] \in 0..Forever /\ numReps[a] \in {0, AskedReps(t)}
      /\ (numReps[a] = Forever => rep[a] <= Tasks[t].cancelAt)
  BY <1>1, <1>2 DEF TypeOK, RepsLeft
<1>6. rep[a] < Forever
  <2>1. CASE numReps[a] = Forever
    BY <1>3, <1>5, <2>1
  <2>2. CASE numReps[a] # Forever
    <3>1. rep[a] < numReps[a] /\ numReps[a] <= Forever
      BY <1>2, <1>3, <1>5, <2>2 DEF Again
    <3> QED
      BY <1>3, <1>5, <3>1
  <2> QED
    BY <2>1, <2>2
<1>7. TypeOK'
  <2>1. rep' \in [Accs -> 0..Forever] /\ numReps' \in [Accs -> 0..Forever]
    <3>1. rep[a] + 1 \in 0..Forever /\ 0 \in 0..Forever
      BY <1>3, <1>5, <1>6
    <3> QED
      BY <1>1, <3>1 DEF Execute, TypeOK
  <2> QED
    BY <1>1, <1>2, <2>1 DEF TypeOK
<1>8. Ports' /\ Places'
  BY <1>1, <1>2, InsideStep
<1>9. RepsLeft(a)'
  <2>1. numReps'[a] \in {0, AskedReps(t)}
    BY <1>4, <1>5
  <2>2. numReps'[a] = Forever => rep'[a] <= Tasks[t].cancelAt
    <3> SUFFICES ASSUME numReps'[a] = Forever PROVE rep'[a] <= Tasks[t].cancelAt
      OBVIOUS
    <3>1. numReps[a] = Forever /\ rep[a] # Tasks[t].cancelAt
      BY <1>3, <1>4
    <3>2. Tasks[t].cancelAt \in 0..Forever - 1
      BY <1>3, <1>5, <3>1
    <3> QED
      BY <1>3, <1>4, <1>5, <3>1, <3>2
  <2> QED
    BY <1>2, <2>1, <2>2 DEF RepsLeft
<1>10. Others(a)
  BY <1>2, <1>4 DEF Others
<1>11. ASSUME NEW b \in Accs PROVE RepsLeft(b)'
  BY <1>9, <1>10, OthersHold DEF IInv
<1> QED
  BY <1>7, <1>8, <1>11 DEF IInv

\* The copies out come after the repetitions.
LEMMA ExecutedStep ==
  ASSUME IInv, NEW a \in Accs, Executed(a)
  PROVE  IInv'
<1>1. Ports /\ Places /\ TypeOK
  BY DEF IInv
<1>2. /\ pc[a] = "exec" /\ pc'[a] = "out"
      /\ pc' \in [Accs -> {"command", "in", "exec", "out"}]
      /\ \A b \in Accs : b # a => pc'[b] = pc[b]
      /\ UNCHANGED <<command, i, rep, numReps, local, mem, inPort, outPort, sent, finished>>
  BY <1>1 DEF Executed, TypeOK
<1>3. Ports' /\ Places'
  BY <1>1, <1>2, InsideStep
<1>4. TypeOK'
  BY <1>1, <1>2 DEF TypeOK
<1>5. ASSUME NEW b \in Accs PROVE RepsLeft(b)'
  BY <1>2 DEF IInv, RepsLeft
<1> QED
  BY <1>3, <1>4, <1>5 DEF IInv

--------------------------------------------------------------------------------
(* Completions and the runtime *)

\* A completion in a stream is for a task of the program and names its parent.
LEMMA CompletionFields ==
  ASSUME NEW c \in Completions
  PROVE  c.task \in TaskIds /\ c.parent = Tasks[c.task].parent
BY DEF Completions

\* A finished task leaves the wrapper for the completions.
LEMMA FinishMoves ==
  ASSUME IInv, NEW a \in Accs, Finish(a)
  PROVE  Completed(a)' = Completed(a) \cup {command[a].task} /\ Others(a)
<1> DEFINE t == command[a].task
           done == [task |-> t, parent |-> command[a].parent]
           q == outPort[a]
<1>1. Ports /\ TypeOK /\ pc[a] = "out"
  BY DEF IInv, Finish
<1>2. done \in Completions /\ done.task = t
  <2>1. command[a] \in Commands
    BY <1>1, BusyTask
  <2> QED
    BY <2>1, CommandFields
<1>3. q \in Seq(Completions)
  BY <1>1 DEF Ports
<1>4. outPort' = [outPort EXCEPT ![a] = Append(q, done)]
  BY DEF Finish
<1>5. Others(a)
  BY <1>1 DEF Finish, Others, Ports, TypeOK
<1> HIDE DEF done, q, t
<1>6. outPort'[a] = Append(q, done)
  BY <1>1, <1>4 DEF Ports
<1>7. /\ DOMAIN Append(q, done) = 1..Len(q) + 1 /\ DOMAIN q = 1..Len(q) /\ Len(q) \in Nat
      /\ \A n \in 1..Len(q) : Append(q, done)[n] = q[n]
      /\ Append(q, done)[Len(q) + 1] = done
  <2>1. Append(q, done) \in Seq(Completions)
    BY <1>2, <1>3, AppendProperties
  <2> QED
    BY <1>2, <1>3, <2>1, AppendProperties, LenProperties
<1>8. Completed(a)' = {Append(q, done)[n].task : n \in 1..Len(q) + 1}
  BY <1>6, <1>7 DEF Completed
<1>9. Completed(a) = {q[n].task : n \in 1..Len(q)}
  BY <1>7 DEF Completed, q
<1>10. 1..Len(q) + 1 = 1..Len(q) \cup {Len(q) + 1}
  BY <1>7
<1>11. Completed(a)' = Completed(a) \cup {t}
  BY <1>2, <1>7, <1>8, <1>9, <1>10
<1> QED
  BY <1>5, <1>11 DEF t

\* Finishing a task takes it from the wrapper to the completions.
LEMMA FinishStep ==
  ASSUME IInv, NEW a \in Accs, Finish(a)
  PROVE  IInv'
<1> DEFINE t == command[a].task
           done == [task |-> t, parent |-> command[a].parent]
           q == outPort[a]
<1>1. Ports /\ Places /\ TypeOK /\ OnePlace(a)
  BY DEF IInv, Places
<1>2. pc[a] = "out" /\ UNCHANGED <<command, i, rep, numReps, local, mem, inPort, sent, finished>>
  BY DEF Finish
<1>3. done \in Completions /\ done.task = t
  <2>1. command[a] \in Commands
    BY <1>2, BusyTask
  <2> QED
    BY <2>1, CommandFields
<1>4. q \in Seq(Completions)
  BY <1>1 DEF Ports
<1> HIDE DEF done, q, t
<1>5. /\ outPort'[a] = Append(q, done) /\ pc'[a] = "command"
      /\ outPort' = [outPort EXCEPT ![a] = Append(q, done)]
      /\ pc' \in [Accs -> {"command", "in", "exec", "out"}]
      /\ \A b \in Accs : b # a => pc'[b] = pc[b] /\ outPort'[b] = outPort[b]
  <2>1. outPort' = [outPort EXCEPT ![a] = Append(q, done)]
    BY DEF Finish, q, done, t
  <2>2. pc' = [pc EXCEPT ![a] = "command"]
    BY DEF Finish
  <2> QED
    BY <1>1, <2>1, <2>2 DEF Ports, TypeOK
<1>6. Others(a) /\ Completed(a)' = Completed(a) \cup {t}
  BY FinishMoves DEF t
<1>7. /\ Append(q, done) \in Seq(Completions)
      /\ Len(Append(q, done)) = Len(q) + 1 /\ Len(q) \in Nat
      /\ DOMAIN Append(q, done) = 1..Len(q) + 1 /\ DOMAIN q = 1..Len(q)
      /\ \A n \in 1..Len(q) : Append(q, done)[n] = q[n]
      /\ Append(q, done)[Len(q) + 1] = done
  <2>1. Append(q, done) \in Seq(Completions)
    BY <1>3, <1>4, AppendProperties
  <2> QED
    BY <1>3, <1>4, <2>1, AppendProperties, LenProperties
<1>8. Coming(a)' = Coming(a) /\ Working(a)' = {} /\ Completed(a)' = Completed(a) \cup {t}
  BY <1>2, <1>5, <1>6 DEF Coming, Working
<1>9. Working(a) = {t}
  BY <1>2 DEF Working, t
<1>10. Held(a)' = Held(a)
  BY <1>8, <1>9 DEF Held
<1>11. OnePlace(a)'
  <2>1. ASSUME NEW m \in 1..Len(q) + 1, NEW n \in 1..Len(q) + 1,
               Append(q, done)[m].task = Append(q, done)[n].task
        PROVE  m = n
    <3>1. \A k \in 1..Len(q) : q[k].task # t
      BY <1>1, <1>7, <1>9 DEF OnePlace, Completed, q
    <3>2. CASE m \in 1..Len(q) /\ n \in 1..Len(q)
      BY <1>1, <1>7, <2>1, <3>2 DEF OnePlace, q
    <3>3. CASE m = Len(q) + 1 \/ n = Len(q) + 1
      BY <1>3, <1>7, <2>1, <3>1, <3>3
    <3> QED
      BY <1>7, <3>2, <3>3
  <2>2. \A m, n \in DOMAIN outPort'[a] : outPort'[a][m].task = outPort'[a][n].task => m = n
    BY <1>5, <1>7, <2>1
  <2> QED
    BY <1>1, <1>2, <1>8, <1>9, <1>10, <2>2 DEF OnePlace
<1>12. Places'
  BY <1>1, <1>2, <1>6, <1>10, <1>11, PlacesMove
<1>13. Ports'
  BY <1>1, <1>2, <1>5, <1>7 DEF Ports
<1>14. TypeOK'
  BY <1>1, <1>2, <1>5 DEF TypeOK
<1>15. ASSUME NEW b \in Accs PROVE RepsLeft(b)'
  <2>1. CASE b = a
    BY <1>5, <2>1 DEF RepsLeft
  <2>2. CASE b # a
    BY <1>6, <2>2, OthersHold DEF IInv
  <2> QED
    BY <2>1, <2>2
<1> QED
  BY <1>12, <1>13, <1>14, <1>15 DEF IInv

\* The runtime sends a task that was nowhere, over a stream that is empty.
LEMMA SendTaskStep ==
  ASSUME IInv, NEW a \in Accs, NEW t \in TaskIds, SendTask(a, t)
  PROVE  IInv'
<1>1. Ports /\ Places /\ TypeOK /\ OnePlace(a)
  BY DEF IInv, Places
<1>2. /\ t \notin sent /\ inPort[a] = <<>> /\ sent' = sent \cup {t}
      /\ UNCHANGED <<pc, command, i, rep, numReps, local, mem, outPort, finished>>
  BY DEF SendTask
<1>3. PICK p \in Orders : inPort' = [inPort EXCEPT ![a] = Append(@, CommandOf(t, p))]
  BY DEF SendTask, CommandOf
<1> DEFINE c == CommandOf(t, p)
           q == Append(inPort[a], c)
<1>4. c \in Commands /\ c.task = t
  BY DEF Commands, CommandOf
<1> HIDE DEF c
<1>5. q \in Seq(Commands) /\ Len(q) <= 1 /\ q[1] = c /\ DOMAIN q = {1}
  <2>1. inPort[a] \in Seq(Commands) /\ Len(inPort[a]) = 0
    BY <1>1, <1>2, EmptySeq DEF Ports
  <2>2. q \in Seq(Commands) /\ Len(q) = 1 /\ q[1] = c
    BY <1>4, <2>1, AppendProperties
  <2>3. DOMAIN q = 1..1
    BY <2>2, LenProperties
  <2>4. Len(q) <= 1
    BY <2>2
  <2> QED
    BY <2>2, <2>3, <2>4
<1>6. /\ inPort' \in [Accs -> Seq(Commands)] /\ inPort'[a] = q
      /\ \A b \in Accs : b # a => inPort'[b] = inPort[b]
  <2>1. inPort' = [inPort EXCEPT ![a] = q]
    BY <1>3 DEF c
  <2> HIDE DEF q
  <2> QED
    BY <1>1, <1>5, <2>1 DEF Ports
<1> HIDE DEF q
<1>7. Others(a)
  BY <1>2, <1>6 DEF Others
<1>8. /\ Coming(a) = {} /\ Coming(a)' = {t}
      /\ Working(a)' = Working(a) /\ Completed(a)' = Completed(a)
  <2>1. Coming(a) = {}
    BY <1>2 DEF Coming
  <2>2. Coming(a)' = {t}
    BY <1>4, <1>5, <1>6 DEF Coming
  <2> QED
    BY <1>2, <2>1, <2>2 DEF Working, Completed
<1>9. Held(a)' = Held(a) \cup {t}
  BY <1>8 DEF Held
<1>10. t \notin Held(a) /\ t \notin finished
  BY <1>1, <1>2 DEF OnePlace, TypeOK
<1>11. OnePlace(a)'
  BY <1>1, <1>2, <1>8, <1>9, <1>10 DEF OnePlace, Held
<1>12. Places'
  BY <1>1, <1>2, <1>7, <1>9, <1>11, PlacesMove
<1>13. Ports'
  <2>1. ASSUME NEW b \in Accs PROVE Len(inPort'[b]) <= 1
    <3>1. CASE b = a
      BY <1>5, <1>6, <3>1
    <3>2. CASE b # a
      BY <1>1, <1>6, <3>2 DEF Ports
    <3> QED
      BY <3>1, <3>2
  <2> QED
    BY <1>1, <1>2, <1>6, <2>1 DEF Ports
<1>14. TypeOK'
  BY <1>1, <1>2 DEF TypeOK
<1>15. ASSUME NEW b \in Accs PROVE RepsLeft(b)'
  BY <1>2 DEF IInv, RepsLeft
<1> QED
  BY <1>12, <1>13, <1>14, <1>15 DEF IInv

\* The runtime takes the first of the completions.
LEMMA CompleteMoves ==
  ASSUME IInv, NEW a \in Accs, Complete(a)
  PROVE  LET t == Head(outPort[a]).task IN
         /\ t \in Completed(a) /\ Completed(a)' = Completed(a) \ {t}
         /\ finished' = finished \cup {t} /\ Others(a)
<1> DEFINE q == outPort[a]
           t == Head(outPort[a]).task
<1>1. Ports /\ Places /\ TypeOK /\ OnePlace(a)
  BY DEF IInv, Places
<1>2. q # <<>> /\ finished' = finished \cup {t} /\ outPort' = [outPort EXCEPT ![a] = Tail(q)]
  BY DEF Complete
<1>3. q \in Seq(Completions)
  BY <1>1 DEF Ports
<1>4. Head(q) = q[1] /\ t = q[1].task
  OBVIOUS
<1>5. Others(a)
  BY <1>1 DEF Complete, Others, Ports, TypeOK
<1> HIDE DEF q, t
<1>6. /\ Len(q) \in Nat \ {0} /\ DOMAIN q = 1..Len(q) /\ DOMAIN Tail(q) = 1..Len(q) - 1
      /\ \A n \in 1..Len(q) - 1 : Tail(q)[n] = q[n + 1]
  <2>1. /\ Tail(q) \in Seq(Completions) /\ Len(Tail(q)) = Len(q) - 1
        /\ \A n \in 1..Len(Tail(q)) : Tail(q)[n] = q[n + 1]
    BY <1>2, <1>3, HeadTailProperties
  <2>2. Len(q) \in Nat \ {0}
    BY <1>2, <1>3, EmptySeq
  <2>3. DOMAIN q = 1..Len(q)
    BY <1>3, LenProperties
  <2>4. DOMAIN Tail(q) = 1..Len(Tail(q))
    BY <2>1, LenProperties
  <2> QED
    BY <2>1, <2>2, <2>3, <2>4
<1>7. outPort'[a] = Tail(q)
  BY <1>1, <1>2 DEF Ports
<1>8. 1 \in 1..Len(q)
  BY <1>6
<1>9. Completed(a) = {q[n].task : n \in 1..Len(q)}
  BY <1>6 DEF Completed, q
<1>10. Completed(a)' = {Tail(q)[n].task : n \in 1..Len(q) - 1}
  BY <1>6, <1>7 DEF Completed
<1>11. \A m, n \in 1..Len(q) : q[m].task = q[n].task => m = n
  BY <1>1, <1>6 DEF OnePlace, q
<1>12. /\ \A n \in 1..Len(q) : n # 1 => n - 1 \in 1..Len(q) - 1 /\ (n - 1) + 1 = n
       /\ \A n \in 1..Len(q) - 1 : n + 1 \in 1..Len(q) /\ n + 1 # 1
  BY <1>6
<1>13. ASSUME NEW s \in Completed(a)' PROVE s \in Completed(a) \ {t}
  <2>1. PICK n \in 1..Len(q) - 1 : s = Tail(q)[n].task
    BY <1>10
  <2>2. s = q[n + 1].task
    BY <1>6, <2>1
  <2> QED
    BY <1>4, <1>8, <1>9, <1>11, <1>12, <2>2
<1>14. ASSUME NEW s \in Completed(a), s # t PROVE s \in Completed(a)'
  <2>1. PICK n \in 1..Len(q) : s = q[n].task
    BY <1>9
  <2>2. n # 1
    BY <1>4, <1>14, <2>1
  <2>3. s = Tail(q)[n - 1].task /\ n - 1 \in 1..Len(q) - 1
    BY <1>6, <1>12, <2>1, <2>2
  <2> QED
    BY <1>10, <2>3
<1>15. t \in Completed(a)
  BY <1>4, <1>8, <1>9
<1> QED
  BY <1>2, <1>5, <1>13, <1>14, <1>15 DEF t, q

\* The runtime takes the first completion of a stream: its task is finished.
LEMMA CompleteStep ==
  ASSUME IInv, NEW a \in Accs, Complete(a)
  PROVE  IInv'
<1> DEFINE q == outPort[a]
           t == Head(outPort[a]).task
<1>1. Ports /\ Places /\ TypeOK /\ OnePlace(a)
  BY DEF IInv, Places
<1>2. /\ q # <<>> /\ finished' = finished \cup {t}
      /\ outPort' = [outPort EXCEPT ![a] = Tail(q)]
      /\ UNCHANGED <<pc, command, i, rep, numReps, local, mem, inPort, sent>>
  BY DEF Complete
<1>3. q \in Seq(Completions)
  BY <1>1 DEF Ports
<1>4. Head(q) = q[1] /\ t = q[1].task
  OBVIOUS
<1> HIDE DEF q, t
<1>5. /\ Tail(q) \in Seq(Completions) /\ Len(q) \in Nat \ {0}
      /\ DOMAIN q = 1..Len(q) /\ DOMAIN Tail(q) = 1..Len(q) - 1
      /\ \A n \in 1..Len(q) - 1 : Tail(q)[n] = q[n + 1]
  <2>1. /\ Tail(q) \in Seq(Completions) /\ Len(Tail(q)) = Len(q) - 1
        /\ \A n \in 1..Len(Tail(q)) : Tail(q)[n] = q[n + 1]
    BY <1>2, <1>3, HeadTailProperties
  <2>2. Len(q) \in Nat \ {0}
    BY <1>2, <1>3, EmptySeq
  <2>3. DOMAIN q = 1..Len(q)
    BY <1>3, LenProperties
  <2>4. DOMAIN Tail(q) = 1..Len(Tail(q))
    BY <2>1, LenProperties
  <2> QED
    BY <2>1, <2>2, <2>3, <2>4
<1>6. /\ outPort' \in [Accs -> Seq(Completions)] /\ outPort'[a] = Tail(q)
      /\ \A b \in Accs : b # a => outPort'[b] = outPort[b]
  BY <1>1, <1>2, <1>5 DEF Ports
<1>7. Others(a) /\ t \in Completed(a) /\ Completed(a)' = Completed(a) \ {t}
  BY CompleteMoves DEF t
<1>9. Coming(a)' = Coming(a) /\ Working(a)' = Working(a)
  BY <1>2 DEF Coming, Working
<1>10. Held(a)' = Held(a) \ {t}
  BY <1>1, <1>7, <1>9 DEF Held, OnePlace
<1>11. OnePlace(a)'
  <2>1. ASSUME NEW m \in 1..Len(q) - 1, NEW n \in 1..Len(q) - 1,
               Tail(q)[m].task = Tail(q)[n].task
        PROVE  m = n
    <3>1. m + 1 \in 1..Len(q) /\ n + 1 \in 1..Len(q) /\ q[m + 1].task = q[n + 1].task
      BY <1>5, <2>1
    <3>2. m + 1 = n + 1
      BY <1>1, <1>5, <3>1 DEF OnePlace, q
    <3> QED
      BY <3>2
  <2>2. \A m, n \in DOMAIN outPort'[a] : outPort'[a][m].task = outPort'[a][n].task => m = n
    BY <1>5, <1>6, <2>1
  <2> QED
    BY <1>1, <1>2, <1>7, <1>9, <1>10, <2>2 DEF OnePlace
<1>12. Places'
  BY <1>1, <1>2, <1>7, <1>10, <1>11, PlacesMove DEF Held
<1>13. Ports'
  BY <1>1, <1>2, <1>6 DEF Ports
<1>14. TypeOK'
  BY <1>1, <1>2, <1>7 DEF TypeOK, OnePlace, Held
<1>15. ASSUME NEW b \in Accs PROVE RepsLeft(b)'
  BY <1>2 DEF IInv, RepsLeft
<1> QED
  BY <1>12, <1>13, <1>14, <1>15 DEF IInv

\* Each step keeps every task in one place.
LEMMA NextIInv == IInv /\ [Next]_vars => IInv'
<1> SUFFICES ASSUME IInv, [Next]_vars PROVE IInv'
  OBVIOUS
<1>1. CASE UNCHANGED vars
  <2>1. Ports' /\ TypeOK' /\ \A a \in Accs : RepsLeft(a)'
    BY <1>1 DEF IInv, TypeOK, Ports, RepsLeft, vars
  <2>2. ASSUME NEW a \in Accs PROVE Held(a)' = Held(a) /\ OnePlace(a)'
    <3>1. Coming(a)' = Coming(a) /\ Working(a)' = Working(a) /\ Completed(a)' = Completed(a)
      BY <1>1 DEF Coming, Working, Completed, vars
    <3>2. Held(a)' = Held(a)
      BY <3>1 DEF Held
    <3>3. OnePlace(a)
      BY DEF IInv, Places
    <3> QED
      BY <1>1, <3>1, <3>2, <3>3 DEF OnePlace, vars
  <2>3. Places'
    BY <2>2 DEF IInv, Places
  <2> QED
    BY <2>1, <2>3 DEF IInv
<1>2. CASE Next
  <2>1. PICK a \in Accs : Wrapper(a) \/ (\E t \in TaskIds : SendTask(a, t)) \/ Complete(a)
    BY <1>2 DEF Next
  <2>2. CASE Wrapper(a)
    BY <2>2, ReadCommandStep, CopyStep, CopiedInStep, ExecuteStep, ExecutedStep, FinishStep
       DEF Wrapper
  <2>3. CASE \E t \in TaskIds : SendTask(a, t)
    BY <2>3, SendTaskStep
  <2>4. CASE Complete(a)
    BY <2>4, CompleteStep
  <2> QED
    BY <2>1, <2>2, <2>3, <2>4
<1> QED
  BY <1>1, <1>2

\* A task is in one place, so its completion is the only one, and nobody works on it.
LEMMA IInvMatch == IInv => CompletionsMatch
<1> SUFFICES ASSUME IInv, NEW a \in Accs, NEW b \in Accs, NEW m \in DOMAIN outPort[a]
             PROVE  LET c == outPort[a][m] IN
                    /\ c.task \in sent \ finished
                    /\ c.parent = Tasks[c.task].parent
                    /\ pc[b] # "command" => command[b].task # c.task
                    /\ \A n \in DOMAIN outPort[b] :
                         outPort[b][n].task = c.task => <<a, m>> = <<b, n>>
  BY DEF CompletionsMatch
<1> DEFINE c == outPort[a][m]
<1>1. Ports /\ Places /\ OnePlace(a)
  BY DEF IInv, Places
<1>2. c \in Completions
  <2>1. outPort[a] \in Seq(Completions)
    BY <1>1 DEF Ports
  <2>2. m \in 1..Len(outPort[a])
    BY <2>1, LenProperties
  <2> QED
    BY <2>1, <2>2, ElementOfSeq
<1>3. c.parent = Tasks[c.task].parent
  BY <1>2, CompletionFields
<1>4. c.task \in Completed(a) /\ c.task \in Held(a)
  BY DEF Completed, Held
<1>5. c.task \in sent \ finished
  BY <1>1, <1>4 DEF OnePlace
<1>6. a # b => c.task \notin Held(b)
  BY <1>1, <1>4 DEF Places
<1>7. pc[b] # "command" => command[b].task # c.task
  <2>1. pc[b] # "command" => command[b].task \in Working(b) /\ command[b].task \in Held(b)
    BY DEF Working, Held
  <2> QED
    BY <1>1, <1>4, <1>6, <2>1 DEF OnePlace
<1>8. ASSUME NEW n \in DOMAIN outPort[b], outPort[b][n].task = c.task
      PROVE  <<a, m>> = <<b, n>>
  <2>1. outPort[b][n].task \in Held(b)
    BY DEF Completed, Held
  <2>2. a = b
    BY <1>6, <1>8, <2>1
  <2> QED
    BY <1>1, <1>8, <2>2 DEF OnePlace
<1> QED
  BY <1>3, <1>5, <1>7, <1>8

\* The invariant holds of every behaviour of the wrappers and the runtime.
THEOREM IInvAlways == Spec => []IInv
BY InitIInv, NextIInv, PTL DEF Spec

\* The loops over arguments, outputs and repetitions stay within their bounds for every
\* program: a periodic task never runs more often than it asked.
THEOREM TypesAlways == Spec => []TypeOK
<1>1. IInv => TypeOK
  BY DEF IInv
<1> QED
  BY <1>1, IInvAlways, PTL

\* __mcxx_send_finished_task_cmd completes each task once, for the parent its command
\* named, when no wrapper works on it any more.
THEOREM CompletionsMatchAlways == Spec => []CompletionsMatch
BY IInvMatch, IInvAlways, PTL

--------------------------------------------------------------------------------
(* The data: what the tasks see and leave, against the program order *)

\* The programs of which the claims about data are true: the arguments arrive in the order
\* of the parameters, a task has one output in a region, and a command that runs nothing
\* copies out what it has copied in.
Proper ==
  /\ ~Unordered
  /\ \A t \in TaskIds :
       /\ \A j, k \in Tasks[t].out : Tasks[t].arg[j] = Tasks[t].arg[k] => j = k
       /\ ~Tasks[t].comp => Tasks[t].out \subseteq Tasks[t].in

\* What a task is to see, and its variables after each repetition from there.
Expected(t) == Arguments(t, Sequential[t - 1])

Run(t, v0) ==
  LET f[r \in 0..Repetitions(t)] ==
        IF r = 0 THEN v0 ELSE Written(t, r - 1, f[r - 1])
  IN f

IsRun(t, v0, f) ==
  f = [r \in 0..Repetitions(t) |-> IF r = 0 THEN v0 ELSE Written(t, r - 1, f[r - 1])]

\* The memory that a task of the program order leaves.
AfterTask(n, m) ==
  [d \in Addrs |->
     IF \E k \in Tasks[n].out : Tasks[n].arg[k] = d
     THEN AfterReps(n, Arguments(n, m))[CHOOSE k \in Tasks[n].out : Tasks[n].arg[k] = d]
     ELSE m[d]]

\* The tasks that write a region.
Writers(d) == {t \in TaskIds : d \in Writes(t)}

\* The parameters whose values a task determines: its arguments, and its outputs when
\* it has run.
Seen(t) == Tasks[t].in \cup (Params \ Cached)
Known(t, r) == IF r = 0 THEN Seen(t) ELSE Seen(t) \cup Tasks[t].out

\* The output that a turn of the copy-out loop is for.
OutParam(n) == CHOOSE k \in Outputs : Cardinality({m \in Outputs : m < k}) = n - 1

\* A task was sent when those it depends on had finished.
InOrder == \A t \in sent : \A s \in TaskIds : Before(s, t) => s \in finished

\* The repetition under way, and those that are left.
RepsExact(a) ==
  LET t == command[a].task
      c == Tasks[t].cancelAt IN
  pc[a] = "exec" =>
    /\ i[a] = 1
    /\ Tasks[t].comp
    /\ rep[a] \in 0..Repetitions(t)
    /\ numReps[a] = IF c \in 0..AskedReps(t) - 1 /\ rep[a] = c + 1 THEN 0 ELSE AskedReps(t)

\* The variables of an accelerator are those of its task in the program order: the
\* arguments copied in so far, all of them, and the outputs.
Locals(a) ==
  LET t == command[a].task IN
  /\ pc[a] = "in" => \A k \in Seen(t) : k < i[a] => local[a][k] = Expected(t)[k]
  /\ pc[a] = "exec" =>
       \A k \in Known(t, rep[a]) : local[a][k] = Run(t, Expected(t))[rep[a]][k]
  /\ pc[a] = "out" =>
       \A k \in Tasks[t].out : local[a][k] = AfterReps(t, Expected(t))[k]

\* A task has put its output for a region there.
PutBy(a, t, d) ==
  /\ pc[a] = "out" /\ command[a].task = t
  /\ \E k \in Tasks[t].out : Tasks[t].arg[k] = d /\ \E n \in 1..i[a] - 1 : OutParam(n) = k

Put(t, d) == t \in finished \/ \E a \in Accs : t \in Completed(a) \/ PutBy(a, t, d)

\* A region in which the first n tasks of the program, and no others, have put their
\* outputs holds what it holds after these tasks.
Regions ==
  \A d \in Addrs : \A n \in 0..Len(Tasks) :
    (\A t \in Writers(d) : Put(t, d) <=> t <= n) => mem[d] = Sequential[n][d]

Shapes ==
  /\ DOMAIN local = Accs /\ \A a \in Accs : DOMAIN local[a] = Params
  /\ DOMAIN mem = Addrs

DataInv == Shapes /\ InOrder /\ Regions /\ \A a \in Accs : RepsExact(a) /\ Locals(a)

--------------------------------------------------------------------------------
(* Naturals and the functions defined by recursion *)

\* A set of naturals has a least element.
LEMMA LeastNatural ==
  ASSUME NEW S \in SUBSET Nat, S # {}
  PROVE  \E n \in S : \A m \in S : n <= m
<1> DEFINE R == OpToRel(<, Nat)
<1>1. \A m, n \in Nat : m < n => <<m, n>> \in R
  BY Zenon DEF OpToRel
<1>2. IsWellFoundedOn(R, Nat)
  BY Zenon, NatLessThanWellFounded
<1> HIDE DEF R
<1>3. PICK n \in S : \A m \in S : <<m, n>> \notin R
  BY <1>2, WFMin
<1>4. ASSUME NEW m \in S PROVE n <= m
  <2>1. m \in Nat /\ n \in Nat
    OBVIOUS
  <2>2. ~(m < n)
    BY <1>1, <1>3, <2>1
  <2> QED
    BY <2>1, <2>2
<1> QED
  BY <1>4

\* A finite set of naturals has a greatest one.
LEMMA GreatestNatural ==
  ASSUME NEW N \in Nat, NEW S \in SUBSET (0..N), S # {}
  PROVE  Max(S) \in S /\ \A s \in S : s <= Max(S)
<1> DEFINE U == {u \in Nat : \A s \in S : s <= u}
<1>1. U \in SUBSET Nat /\ N \in U
  OBVIOUS
<1>2. PICK u \in U : \A v \in U : u <= v
  <2> HIDE DEF U
  <2> QED
    BY <1>1, LeastNatural
<1>3. u \in S
  <2> SUFFICES ASSUME u \notin S PROVE FALSE
    OBVIOUS
  <2>1. \A s \in S : s \in Nat /\ s < u
    BY <1>2
  <2>2. u \in Nat /\ u - 1 \in Nat
    <3>1. PICK s \in S : TRUE
      OBVIOUS
    <3> QED
      BY <1>2, <2>1, <3>1
  <2>3. u - 1 \in U
    BY <2>1, <2>2
  <2> QED
    BY <1>2, <2>2, <2>3
<1>4. \A s \in S : u >= s
  BY <1>2
<1>5. Max(S) = CHOOSE n \in S : \A s \in S : n >= s
  BY DEF Max
<1> HIDE DEF U
<1> QED
  BY <1>3, <1>4, <1>5

\* How many times a task runs.
LEMMA RepetitionsType ==
  ASSUME NEW t \in TaskIds
  PROVE  /\ Repetitions(t) \in Nat
         /\ Tasks[t].comp => Repetitions(t) >= 1
         /\ ~Tasks[t].comp => Repetitions(t) = 0
         /\ Tasks[t].comp =>
              Repetitions(t) = IF Tasks[t].cancelAt \in 0..AskedReps(t) - 1
                               THEN Tasks[t].cancelAt + 1 ELSE AskedReps(t)
BY RepsAsked DEF Repetitions, AskedReps

\* The iteration of AfterReps is a function: the counterexample with the fewest
\* repetitions would have one less.
LEMMA RunExists ==
  ASSUME NEW t \in TaskIds, NEW v0
  PROVE  \E f : IsRun(t, v0, f)
<1> DEFINE P(m) == \E f : f = [r \in 0..m |-> IF r = 0 THEN v0 ELSE Written(t, r - 1, f[r - 1])]
           N == Repetitions(t)
           Bad == {m \in 0..N : ~P(m)}
<1>1. P(0)
  <2> DEFINE f == [r \in 0..0 |-> v0]
  <2>1. f = [r \in 0..0 |-> IF r = 0 THEN v0 ELSE Written(t, r - 1, f[r - 1])]
    OBVIOUS
  <2> QED
    BY <2>1
<1>2. ASSUME NEW m \in Nat \ {0}, P(m - 1) PROVE P(m)
  <2>1. PICK f : f = [r \in 0..m-1 |-> IF r = 0 THEN v0 ELSE Written(t, r - 1, f[r - 1])]
    BY <1>2
  <2> DEFINE g == [r \in 0..m |-> IF r = 0 THEN v0 ELSE Written(t, r - 1, f[r - 1])]
             h == [r \in 0..m |-> IF r = 0 THEN v0 ELSE Written(t, r - 1, g[r - 1])]
  <2>2. ASSUME NEW r \in 0..m-1 PROVE g[r] = f[r]
    <3>1. r \in 0..m
      OBVIOUS
    <3> QED
      BY <2>1, <3>1
  <2>3. ASSUME NEW r \in 0..m PROVE g[r] = h[r]
    <3>1. CASE r = 0
      BY <3>1
    <3>2. CASE r # 0
      <4>1. r - 1 \in 0..m-1
        BY <3>2
      <4>2. g[r - 1] = f[r - 1]
        BY <4>1, <2>2
      <4>3. g[r] = Written(t, r - 1, f[r - 1]) /\ h[r] = Written(t, r - 1, g[r - 1])
        BY <3>2
      <4> QED
        BY <4>2, <4>3
    <3> QED
      BY <3>1, <3>2
  <2>4. g = h
    BY <2>3
  <2> HIDE DEF g
  <2> QED
    BY <2>4
<1>3. N \in Nat
  BY RepetitionsType
<1> HIDE DEF P, N
<1>4. Bad = {}
  <2> SUFFICES ASSUME Bad # {} PROVE FALSE
    OBVIOUS
  <2>1. Bad \in SUBSET Nat
    BY <1>3
  <2> HIDE DEF Bad
  <2>2. PICK m \in Bad : \A k \in Bad : m <= k
    BY <2>1, LeastNatural
  <2>3. m \in 0..N /\ ~P(m)
    BY DEF Bad
  <2>4. m # 0
    BY <1>1, <2>3
  <2>5. m - 1 \in 0..N /\ ~(m <= m - 1)
    BY <1>3, <2>3, <2>4
  <2>6. P(m - 1)
    BY <2>2, <2>5 DEF Bad
  <2> QED
    BY <1>2, <1>3, <2>3, <2>4, <2>6
<1>5. P(N)
  BY <1>3, <1>4
<1> QED
  BY <1>5 DEF P, N, IsRun

\* So the variables of a task's repetitions follow each other.
LEMMA RunEquation ==
  ASSUME NEW t \in TaskIds, NEW v0
  PROVE  /\ Run(t, v0)[0] = v0
         /\ \A r \in 1..Repetitions(t) : Run(t, v0)[r] = Written(t, r - 1, Run(t, v0)[r - 1])
         /\ AfterReps(t, v0) = Run(t, v0)[Repetitions(t)]
<1>1. Run(t, v0) = [r \in 0..Repetitions(t) |->
                       IF r = 0 THEN v0 ELSE Written(t, r - 1, Run(t, v0)[r - 1])]
  <2>1. \E f : f = [r \in 0..Repetitions(t) |-> IF r = 0 THEN v0 ELSE Written(t, r - 1, f[r - 1])]
    <3>1. \E f : IsRun(t, v0, f)
      BY RunExists
    <3> QED
      BY <3>1 DEF IsRun
  <2> QED
    BY <2>1 DEF Run
<1>2. AfterReps(t, v0) = Run(t, v0)[Repetitions(t)]
  BY DEF AfterReps, Run
<1>3. Repetitions(t) \in Nat
  BY RepetitionsType
<1> QED
  BY <1>1, <1>2, <1>3

\* The memories of the program order are a function too.
LEMMA SequentialExists ==
  \E f : f = [n \in 0..Len(Tasks) |-> IF n = 0 THEN InitMem ELSE AfterTask(n, f[n - 1])]
<1> DEFINE P(m) == \E f : f = [n \in 0..m |-> IF n = 0 THEN InitMem ELSE AfterTask(n, f[n - 1])]
           N == Len(Tasks)
           Bad == {m \in 0..N : ~P(m)}
<1>1. P(0)
  <2> DEFINE f == [n \in 0..0 |-> InitMem]
  <2>1. f = [n \in 0..0 |-> IF n = 0 THEN InitMem ELSE AfterTask(n, f[n - 1])]
    OBVIOUS
  <2> QED
    BY <2>1
<1>2. ASSUME NEW m \in Nat \ {0}, P(m - 1) PROVE P(m)
  <2>1. PICK f : f = [n \in 0..m-1 |-> IF n = 0 THEN InitMem ELSE AfterTask(n, f[n - 1])]
    BY <1>2
  <2> DEFINE g == [n \in 0..m |-> IF n = 0 THEN InitMem ELSE AfterTask(n, f[n - 1])]
             h == [n \in 0..m |-> IF n = 0 THEN InitMem ELSE AfterTask(n, g[n - 1])]
  <2>2. ASSUME NEW n \in 0..m-1 PROVE g[n] = f[n]
    <3>1. n \in 0..m
      OBVIOUS
    <3> QED
      BY <2>1, <3>1
  <2>3. ASSUME NEW n \in 0..m PROVE g[n] = h[n]
    <3>1. CASE n = 0
      BY <3>1
    <3>2. CASE n # 0
      <4>1. n - 1 \in 0..m-1
        BY <3>2
      <4>2. g[n - 1] = f[n - 1]
        BY <4>1, <2>2
      <4>3. g[n] = AfterTask(n, f[n - 1]) /\ h[n] = AfterTask(n, g[n - 1])
        BY <3>2
      <4> QED
        BY <4>2, <4>3
    <3> QED
      BY <3>1, <3>2
  <2>4. g = h
    BY <2>3
  <2> HIDE DEF g
  <2> QED
    BY <2>4
<1>3. N \in Nat
  BY FpgaWrapperAssumption
<1> HIDE DEF P, N
<1>4. Bad = {}
  <2> SUFFICES ASSUME Bad # {} PROVE FALSE
    OBVIOUS
  <2>1. Bad \in SUBSET Nat
    BY <1>3
  <2> HIDE DEF Bad
  <2>2. PICK m \in Bad : \A k \in Bad : m <= k
    BY <2>1, LeastNatural
  <2>3. m \in 0..N /\ ~P(m)
    BY DEF Bad
  <2>4. m # 0
    BY <1>1, <2>3
  <2>5. m - 1 \in 0..N /\ ~(m <= m - 1)
    BY <1>3, <2>3, <2>4
  <2>6. P(m - 1)
    BY <2>2, <2>5 DEF Bad
  <2> QED
    BY <1>2, <1>3, <2>3, <2>4, <2>6
<1>5. P(N)
  BY <1>3, <1>4
<1> QED
  BY <1>5 DEF P, N

\* The memory at the start of the program, and after each of its tasks.
LEMMA SequentialEquation ==
  /\ Sequential[0] = InitMem
  /\ \A n \in TaskIds : Sequential[n] = AfterTask(n, Sequential[n - 1])
<1>1. Sequential = [n \in 0..Len(Tasks) |-> IF n = 0 THEN InitMem ELSE AfterTask(n, Sequential[n - 1])]
  BY SequentialExists DEF Sequential, AfterTask
<1> QED
  BY <1>1, FpgaWrapperAssumption

\* A region holds what its last writer left: it does not change over tasks that do not
\* write it.
LEMMA Unwritten ==
  ASSUME NEW d \in Addrs, NEW m \in 0..Len(Tasks), NEW n \in m..Len(Tasks),
         \A s \in Writers(d) : ~(m < s /\ s <= n)
  PROVE  Sequential[n][d] = Sequential[m][d]
<1> DEFINE Bad == {j \in m..n : Sequential[j][d] # Sequential[m][d]}
<1>1. Len(Tasks) \in Nat /\ TaskIds = 1..Len(Tasks) /\ m \in Nat /\ n \in Nat
  BY FpgaWrapperAssumption
<1>2. SUFFICES ASSUME Bad # {} PROVE FALSE
  BY <1>1
<1>3. Bad \in SUBSET Nat
  BY <1>1
<1> HIDE DEF Bad
<1>4. PICK j \in Bad : \A k \in Bad : j <= k
  BY <1>2, <1>3, LeastNatural
<1>5. j \in m..n /\ Sequential[j][d] # Sequential[m][d]
  BY DEF Bad
<1>6. m < j /\ j \in TaskIds /\ j - 1 \in m..n /\ ~(j <= j - 1)
  BY <1>1, <1>5
<1>7. Sequential[j - 1][d] = Sequential[m][d]
  BY <1>4, <1>6 DEF Bad
<1>8. ~\E k \in Tasks[j].out : Tasks[j].arg[k] = d
  BY <1>1, <1>5, <1>6 DEF Writers, Writes
<1>9. Sequential[j] = AfterTask(j, Sequential[j - 1])
  BY <1>6, SequentialEquation
<1>10. Sequential[j][d] = Sequential[j - 1][d]
  BY <1>8, <1>9 DEF AfterTask
<1> QED
  BY <1>5, <1>7, <1>10

\* What a task leaves in a region it writes is its output for it.
LEMMA WrittenRegion ==
  ASSUME Proper, NEW t \in TaskIds, NEW k \in Tasks[t].out
  PROVE  /\ Tasks[t].arg[k] \in Addrs
         /\ Sequential[t][Tasks[t].arg[k]] = AfterReps(t, Expected(t))[k]
<1> DEFINE d == Tasks[t].arg[k]
<1>1. d \in Addrs
  BY FpgaWrapperAssumption
<1>2. (CHOOSE j \in Tasks[t].out : Tasks[t].arg[j] = d) = k
  BY DEF Proper
<1>3. Sequential[t] = AfterTask(t, Sequential[t - 1])
  BY SequentialEquation
<1> HIDE DEF d
<1>4. \E j \in Tasks[t].out : Tasks[t].arg[j] = d
  BY DEF d
<1>5. Sequential[t][d] =
        AfterReps(t, Expected(t))[CHOOSE j \in Tasks[t].out : Tasks[t].arg[j] = d]
  BY <1>1, <1>3, <1>4 DEF AfterTask, Expected
<1> QED
  BY <1>1, <1>2, <1>5 DEF d

--------------------------------------------------------------------------------
(* What commands and loops hold *)

\* Outputs are told apart by the number of outputs before them, so the copy-out loop
\* has a turn for each.
LEMMA OutTurn ==
  ASSUME NEW k \in Outputs
  PROVE  \E n \in 1..Cardinality(Outputs) : OutParam(n) = k
<1> DEFINE Less(j) == {m \in Outputs : m < j}
<1>1. /\ NParams \in Nat /\ Outputs \subseteq 1..NParams
      /\ IsFiniteSet(Outputs) /\ Cardinality(Outputs) \in Nat
  <2>1. NParams \in Nat /\ Outputs \subseteq 1..NParams
    BY FpgaWrapperAssumption DEF Outputs, Params
  <2>2. IsFiniteSet(1..NParams)
    BY <2>1, FS_Interval
  <2>3. IsFiniteSet(Outputs)
    BY <2>1, <2>2, FS_Subset
  <2> QED
    BY <2>1, <2>3, FS_CardinalityType
<1>2. \A j \in Outputs : IsFiniteSet(Less(j)) /\ Cardinality(Less(j)) \in Nat
  BY <1>1, FS_Subset, FS_CardinalityType
<1>3. ASSUME NEW j \in Outputs, NEW m \in Outputs, j < m
      PROVE  Cardinality(Less(j)) < Cardinality(Less(m))
  <2>1. Less(j) \subseteq Less(m) /\ j \in Less(m) /\ j \notin Less(j)
    <3>1. \A h \in Outputs : h \in Int
      BY <1>1
    <3>2. \A h \in Outputs : h < j => h < m
      BY <1>3, <3>1
    <3>3. j < m /\ ~(j < j)
      BY <1>3, <3>1
    <3> QED
      BY <3>2, <3>3
  <2> HIDE DEF Less
  <2>2. /\ Cardinality(Less(j)) <= Cardinality(Less(m))
        /\ Cardinality(Less(j)) # Cardinality(Less(m))
    BY <1>2, <2>1, FS_Subset
  <2> QED
    BY <1>2, <2>2
<1>4. Cardinality(Less(k)) < Cardinality(Outputs)
  <2>1. Less(k) \subseteq Outputs /\ k \notin Less(k)
    BY <1>1
  <2> HIDE DEF Less
  <2>2. /\ Cardinality(Less(k)) <= Cardinality(Outputs)
        /\ Cardinality(Less(k)) # Cardinality(Outputs)
    BY <1>1, <2>1, FS_Subset
  <2> QED
    BY <1>1, <1>2, <2>2
<1> DEFINE n == Cardinality(Less(k)) + 1
<1>5. n \in 1..Cardinality(Outputs) /\ Cardinality(Less(k)) = n - 1
  BY <1>1, <1>2, <1>4
<1>6. OutParam(n) = CHOOSE j \in Outputs : Cardinality(Less(j)) = n - 1
  BY DEF OutParam
<1>7. \A j \in Outputs : Cardinality(Less(j)) = n - 1 => j = k
  <2> SUFFICES ASSUME NEW j \in Outputs, Cardinality(Less(j)) = n - 1, j # k PROVE FALSE
    OBVIOUS
  <2>1. j < k \/ k < j
    BY <1>1
  <2> HIDE DEF Less, n
  <2> QED
    BY <1>2, <1>3, <1>5, <2>1
<1> HIDE DEF Less, n
<1> QED
  BY <1>5, <1>6, <1>7

\* What a command of a wrapper with ordered arguments holds.
LEMMA CommandData ==
  ASSUME ~Unordered, NEW c \in Commands
  PROVE  /\ c.comp = Tasks[c.task].comp
         /\ c.args = Words(c.task, [k \in Params |-> k])
<1>1. PICK t \in TaskIds, p \in Orders : c = CommandOf(t, p)
  BY DEF Commands
<1>2. p = [k \in Params |-> k]
  BY DEF Orders
<1> QED
  BY <1>1, <1>2 DEF CommandOf

\* What the loops of a busy wrapper work on.
LEMMA BusyData ==
  ASSUME Proper, IInv, NEW a \in Accs, pc[a] # "command"
  PROVE  LET t == command[a].task IN
         /\ t \in TaskIds /\ command[a].comp = Tasks[t].comp
         /\ Tasks[t].in \subseteq Cached /\ Tasks[t].out \subseteq Outputs
         /\ Cached \subseteq Params
         /\ \A k \in Cached : Tasks[t].arg[k] \in Addrs
         /\ \A k \in Params : /\ Raw(a, k) = Tasks[t].arg[k]
                              /\ InStep(a, k).id = k
                              /\ InStep(a, k).in = (k \in Tasks[t].in)
         /\ DOMAIN OutSteps(a) = 1..Cardinality(Outputs)
         /\ \A n \in DOMAIN OutSteps(a) :
              /\ OutSteps(a)[n].id = OutParam(n)
              /\ OutParam(n) \in Outputs => OutSteps(a)[n].out = (OutParam(n) \in Tasks[t].out)
<1> DEFINE t == command[a].task
<1>1. t \in TaskIds /\ command[a] \in Commands /\ ~Unordered
  BY BusyTask DEF Proper
<1>2. command[a].comp = Tasks[t].comp /\ command[a].args = Words(t, [k \in Params |-> k])
  BY <1>1, CommandData
<1> HIDE DEF t
<1>3. /\ Tasks[t].in \subseteq Cached /\ Tasks[t].out \subseteq Outputs
      /\ Cached \subseteq Params /\ \A k \in Cached : Tasks[t].arg[k] \in Addrs
  BY <1>1, FpgaWrapperAssumption DEF Outputs
<1>4. ASSUME NEW k \in Params
      PROVE  /\ Info(a, k).value = Tasks[t].arg[k] /\ Info(a, k).in = (k \in Tasks[t].in)
             /\ Info(a, k).out = (k \in Tasks[t].out)
  BY <1>2 DEF Info, Words
<1>5. ASSUME NEW k \in Params
      PROVE  /\ Raw(a, k) = Tasks[t].arg[k] /\ InStep(a, k).id = k
             /\ InStep(a, k).in = (k \in Tasks[t].in)
  BY <1>1, <1>4 DEF Raw, InStep, Info
<1>6. DOMAIN OutSteps(a) = 1..Cardinality(Outputs)
  BY DEF OutSteps
<1>7. ASSUME NEW n \in DOMAIN OutSteps(a)
      PROVE  /\ OutSteps(a)[n].id = OutParam(n)
             /\ OutParam(n) \in Outputs => OutSteps(a)[n].out = (OutParam(n) \in Tasks[t].out)
  <2>1. /\ OutSteps(a)[n].id = OutParam(n)
        /\ OutSteps(a)[n].out = Info(a, OutParam(n)).out
    BY <1>1, <1>6 DEF OutSteps, OutParam
  <2>2. OutParam(n) \in Outputs => OutParam(n) \in Params
    BY <1>3 DEF Outputs
  <2> QED
    BY <1>4, <2>1, <2>2
<1> QED
  BY <1>1, <1>2, <1>3, <1>5, <1>6, <1>7 DEF t

--------------------------------------------------------------------------------
(* What a step leaves in order *)

\* A step of accelerator a leaves the loops and the variables of the others alone.
OthersData(a) == \A b \in Accs : b # a => i'[b] = i[b] /\ local'[b] = local[b]

\* What a task has put, as far as one accelerator tells.
PutAt(a, t, d) == t \in finished \/ t \in Completed(a) \/ PutBy(a, t, d)

\* So they stay in order, and what is put changes with the accelerator of the step only.
LEMMA OthersInOrder ==
  ASSUME NEW a \in Accs, Others(a), OthersData(a), NEW b \in Accs, b # a
  PROVE  /\ RepsExact(b) => RepsExact(b)'
         /\ Locals(b) => Locals(b)'
         /\ \A t, d : PutBy(b, t, d)' = PutBy(b, t, d)
<1>1. /\ pc'[b] = pc[b] /\ command'[b] = command[b] /\ i'[b] = i[b]
      /\ local'[b] = local[b] /\ rep'[b] = rep[b] /\ numReps'[b] = numReps[b]
  BY DEF Others, OthersData
<1>2. RepsExact(b) => RepsExact(b)'
  BY <1>1 DEF RepsExact
<1>3. Locals(b) => Locals(b)'
  BY <1>1 DEF Locals
<1>4. \A t, d : PutBy(b, t, d)' = PutBy(b, t, d)
  BY <1>1 DEF PutBy
<1> QED
  BY <1>2, <1>3, <1>4

\* What is put changes with what the accelerator of the step tells.
LEMMA PutMoves ==
  ASSUME NEW a \in Accs, Others(a), OthersData(a), NEW t, NEW d,
         PutAt(a, t, d)' <=> PutAt(a, t, d)
  PROVE  Put(t, d)' <=> Put(t, d)
<1>1. \A b \in Accs : b # a => Completed(b)' = Completed(b) /\ PutBy(b, t, d)' = PutBy(b, t, d)
  BY OthersHold, OthersInOrder
<1> QED
  BY <1>1 DEF Put, PutAt

\* A task that has put something was sent.
LEMMA PutSent ==
  ASSUME IInv, NEW t, NEW d, Put(t, d)
  PROVE  t \in sent
<1>1. TypeOK /\ \A a \in Accs : Held(a) \subseteq sent
  BY DEF IInv, Places, OnePlace
<1>2. \A a \in Accs : t \in Completed(a) \/ PutBy(a, t, d) => t \in Held(a)
  BY DEF PutBy, Held, Working
<1> QED
  BY <1>1, <1>2 DEF Put, TypeOK

\* The task in the hands of a wrapper is not finished, no other accelerator has it, and
\* what it has put was put by that wrapper.
LEMMA BusyPlace ==
  ASSUME IInv, NEW a \in Accs, pc[a] # "command"
  PROVE  LET t == command[a].task IN
         /\ t \in sent /\ t \notin finished
         /\ \A b \in Accs : t \notin Completed(b)
         /\ \A b \in Accs : b # a /\ pc[b] # "command" => command[b].task # t
         /\ \A d : Put(t, d) <=> PutBy(a, t, d)
<1> DEFINE t == command[a].task
<1>1. Places /\ OnePlace(a) /\ t \in Working(a)
  BY DEF IInv, Places, Working
<1>2. t \in sent /\ t \notin finished
  BY <1>1 DEF OnePlace, Held
<1>3. ASSUME NEW b \in Accs, b # a PROVE t \notin Held(b)
  BY <1>1, <1>3 DEF Places, Held
<1>4. \A b \in Accs : t \notin Completed(b)
  BY <1>1, <1>3 DEF OnePlace, Held
<1>5. ASSUME NEW b \in Accs, b # a, pc[b] # "command" PROVE command[b].task # t
  BY <1>3, <1>5 DEF Held, Working
<1>6. ASSUME NEW d PROVE Put(t, d) <=> PutBy(a, t, d)
  BY <1>2, <1>4, <1>5 DEF Put, PutBy
<1> QED
  BY <1>2, <1>4, <1>5, <1>6

\* The region of an argument copied in holds what the tasks before in the program have
\* left: they have finished, and no later one was sent.
LEMMA ReadsInOrder ==
  ASSUME Proper, IInv, InOrder, Regions, NEW a \in Accs, pc[a] = "in",
         NEW k \in Tasks[command[a].task].in
  PROVE  mem[Tasks[command[a].task].arg[k]] = Expected(command[a].task)[k]
<1> DEFINE t == command[a].task
           d == Tasks[t].arg[k]
<1>1. t \in TaskIds /\ d \in Addrs /\ k \in Cached /\ k \in Params
  BY BusyData
<1>2. /\ t \in sent /\ t \notin finished
      /\ \A e : Put(t, e) <=> PutBy(a, t, e)
  BY BusyPlace
<1>3. ~PutBy(a, t, d)
  BY DEF PutBy
<1> HIDE DEF t
<1>4. d \in Reads(t)
  BY DEF Reads, t
<1> HIDE DEF d
<1>5. t \in 1..Len(Tasks) /\ t - 1 \in 0..Len(Tasks)
  BY <1>1, FpgaWrapperAssumption
<1>6. ASSUME NEW s \in Writers(d) PROVE Put(s, d) <=> s <= t - 1
  <2>1. s \in TaskIds /\ s \in Nat /\ d \in Writes(s)
    BY FpgaWrapperAssumption DEF Writers
  <2>2. CASE s < t
    <3>1. s \in finished
      BY <1>2, <1>4, <2>1, <2>2 DEF InOrder, Before
    <3> QED
      BY <1>5, <2>1, <2>2, <3>1 DEF Put
  <2>3. CASE s = t
    BY <1>2, <1>3, <1>5, <2>3
  <2>4. CASE t < s
    <3>1. Before(t, s)
      BY <1>4, <2>1, <2>4 DEF Before
    <3>2. s \notin sent
      BY <1>1, <1>2, <3>1 DEF InOrder
    <3>3. ~Put(s, d)
      BY <3>2, PutSent
    <3> QED
      BY <1>5, <2>1, <2>4, <3>3
  <2> QED
    BY <1>5, <2>1, <2>2, <2>3, <2>4
<1>7. mem[d] = Sequential[t - 1][d]
  BY <1>1, <1>5, <1>6 DEF Regions
<1>8. Expected(t)[k] = Sequential[t - 1][d]
  BY <1>1 DEF Expected, Arguments, d
<1> QED
  BY <1>7, <1>8 DEF t, d

--------------------------------------------------------------------------------
\* The regions stay in order when nothing is put and nothing is written.
LEMMA RegionsStay ==
  ASSUME Regions, UNCHANGED mem, \A d \in Addrs : \A t \in Writers(d) : Put(t, d)' <=> Put(t, d)
  PROVE  Regions'
BY DEF Regions

\* A step that leaves memory alone.
LEMMA QuietStep ==
  ASSUME DataInv, NEW a \in Accs, Others(a), OthersData(a), UNCHANGED <<mem, sent, finished>>,
         Shapes', RepsExact(a)', Locals(a)',
         \A d \in Addrs : \A t \in Writers(d) : PutAt(a, t, d)' <=> PutAt(a, t, d)
  PROVE  DataInv'
<1>1. InOrder'
  BY DEF DataInv, InOrder
<1>2. Regions'
  <2>1. \A d \in Addrs : \A t \in Writers(d) : Put(t, d)' <=> Put(t, d)
    BY PutMoves
  <2> QED
    BY <2>1, RegionsStay DEF DataInv
<1>3. ASSUME NEW b \in Accs PROVE RepsExact(b)' /\ Locals(b)'
  BY OthersInOrder DEF DataInv
<1> QED
  BY <1>1, <1>2, <1>3 DEF DataInv

\* A command read has no argument copied in.
LEMMA ReadCommandData ==
  ASSUME Proper, IInv, DataInv, NEW a \in Accs, ReadCommand(a)
  PROVE  DataInv'
<1>1. TypeOK /\ Ports /\ Shapes
  BY DEF IInv, DataInv
<1>2. /\ pc[a] = "command" /\ pc'[a] = "in" /\ i'[a] = 1
      /\ UNCHANGED <<rep, local, mem, outPort, sent, finished>>
  BY <1>1 DEF ReadCommand, TypeOK
<1>3. Others(a) /\ OthersData(a)
  BY <1>1 DEF ReadCommand, Ports, TypeOK, Others, OthersData
<1>4. Shapes' /\ RepsExact(a)'
  BY <1>1, <1>2 DEF Shapes, RepsExact
<1>5. Locals(a)'
  <2>1. command[a]' \in Commands
    <3>1. Head(inPort[a]) \in Commands
      BY <1>1, OneCommand DEF ReadCommand
    <3> QED
      BY <1>1, <3>1 DEF ReadCommand, Ports
  <2>2. command[a]'.task \in TaskIds
    BY <2>1, CommandFields
  <2>3. Seen(command[a]'.task) \subseteq 1..NParams
    BY <2>2, FpgaWrapperAssumption DEF Seen, Params
  <2>4. \A k \in Seen(command[a]'.task) : ~(k < 1)
    BY <2>3, FpgaWrapperAssumption
  <2> QED
    BY <1>2, <2>4 DEF Locals
<1>6. \A d \in Addrs : \A t \in Writers(d) : PutAt(a, t, d)' <=> PutAt(a, t, d)
  BY <1>2 DEF PutAt, PutBy, Completed
<1> QED
  BY <1>2, <1>3, <1>4, <1>5, <1>6, QuietStep

\* An argument copied in is the one the task is to see.
LEMMA CopyInData ==
  ASSUME Proper, IInv, DataInv, NEW a \in Accs, CopyIn(a)
  PROVE  DataInv'
<1> DEFINE t == command[a].task
           k == i[a]
<1>1. /\ TypeOK /\ Shapes /\ InOrder /\ Regions /\ Locals(a)
      /\ pc[a] = "in" /\ k \in Params
      /\ UNCHANGED <<pc, command, rep, numReps, mem, inPort, outPort, sent, finished>>
  BY FpgaWrapperAssumption DEF IInv, DataInv, CopyIn, TypeOK, Params
<1>2. /\ t \in TaskIds /\ Tasks[t].in \subseteq Cached /\ Cached \subseteq Params
      /\ \A j \in Cached : Tasks[t].arg[j] \in Addrs
      /\ Raw(a, k) = Tasks[t].arg[k] /\ InStep(a, k).id = k
      /\ InStep(a, k).in = (k \in Tasks[t].in)
  BY <1>1, BusyData
<1>3. k \in Tasks[t].in => mem[Tasks[t].arg[k]] = Expected(t)[k]
  BY <1>1, ReadsInOrder
<1> HIDE DEF t
<1>4. local' = [local EXCEPT ![a][k] =
                  IF k \notin Cached THEN Tasks[t].arg[k]
                  ELSE IF k \in Tasks[t].in THEN At(mem, Tasks[t].arg[k]) ELSE @]
  BY <1>2 DEF CopyIn
<1>5. i' = [i EXCEPT ![a] = k + 1]
  BY DEF CopyIn
<1> HIDE DEF k
<1>6. /\ i'[a] = k + 1 /\ DOMAIN local'[a] = Params
      /\ \A j \in Params : j # k => local'[a][j] = local[a][j]
      /\ k \notin Cached => local'[a][k] = Tasks[t].arg[k]
      /\ k \in Tasks[t].in => local'[a][k] = At(mem, Tasks[t].arg[k])
  BY <1>1, <1>2, <1>4, <1>5 DEF Shapes, TypeOK
<1>7. Others(a) /\ OthersData(a)
  BY <1>1, <1>4, <1>5 DEF Others, OthersData, Shapes, TypeOK
<1>8. Shapes'
  BY <1>1, <1>4, <1>6, <1>7 DEF Shapes, OthersData
<1>9. RepsExact(a)'
  BY <1>1 DEF RepsExact
<1>10. Locals(a)'
  <2>1. ASSUME NEW j \in Seen(t), j < k + 1 PROVE local'[a][j] = Expected(t)[j]
    <3>1. j \in Params /\ (j \in Tasks[t].in \/ j \notin Cached)
      BY <1>2 DEF Seen
    <3>2. CASE j = k
      <4>1. CASE k \notin Cached
        BY <1>1, <1>6, <3>2, <4>1 DEF Expected, Arguments
      <4>2. CASE k \in Tasks[t].in
        BY <1>2, <1>3, <1>6, <3>2, <4>2 DEF At
      <4> QED
        BY <3>1, <3>2, <4>1, <4>2
    <3>3. CASE j # k
      <4>1. j < k
        BY <1>1, <2>1, <3>1, <3>3 DEF Params
      <4>2. local[a][j] = Expected(t)[j]
        BY <1>1, <4>1 DEF Locals, t, k
      <4> QED
        BY <1>6, <3>1, <3>3, <4>2
    <3> QED
      BY <3>2, <3>3
  <2> QED
    BY <1>1, <1>6, <2>1 DEF Locals, t
<1>11. \A d \in Addrs : \A s \in Writers(d) : PutAt(a, s, d)' <=> PutAt(a, s, d)
  BY <1>1 DEF PutAt, PutBy, Completed
<1> QED
  BY <1>1, <1>7, <1>8, <1>9, <1>10, <1>11, QuietStep

\* When all arguments are there the task runs, or its outputs are what was copied in.
LEMMA CopiedInData ==
  ASSUME Proper, IInv, DataInv, NEW a \in Accs, CopiedIn(a)
  PROVE  DataInv'
<1> DEFINE t == command[a].task
<1>1. /\ TypeOK /\ Shapes /\ Locals(a) /\ RepsLeft(a)
      /\ pc[a] = "in" /\ i[a] > NParams
      /\ UNCHANGED <<command, numReps, local, mem, inPort, outPort, sent, finished>>
  BY DEF IInv, DataInv, CopiedIn
<1>2. t \in TaskIds /\ command[a].comp = Tasks[t].comp
  BY <1>1, BusyData
<1>3. /\ rep'[a] = 0 /\ i'[a] = 1 /\ pc'[a] = IF Tasks[t].comp THEN "exec" ELSE "out"
      /\ Others(a) /\ OthersData(a)
  BY <1>1, <1>2 DEF CopiedIn, TypeOK, Others, OthersData
<1> HIDE DEF t
<1>4. \A k \in Seen(t) : local[a][k] = Expected(t)[k]
  <2>1. Seen(t) \subseteq Params
    BY <1>2, FpgaWrapperAssumption DEF Seen
  <2>2. NParams \in Nat /\ i[a] \in Nat
    BY <1>1, FpgaWrapperAssumption DEF TypeOK
  <2>3. \A k \in Params : k < i[a]
    BY <1>1, <2>2 DEF Params
  <2> QED
    BY <1>1, <2>1, <2>3 DEF Locals, t
<1>5. Shapes'
  BY <1>1 DEF Shapes
<1>6. RepsExact(a)'
  <2>1. numReps[a] = AskedReps(t)
    BY <1>1 DEF RepsLeft, t
  <2>2. Repetitions(t) \in Nat
    BY <1>2, RepetitionsType
  <2>3. \A c \in 0..AskedReps(t) - 1 : 0 # c + 1
    BY <1>2, RepsAsked
  <2>4. pc'[a] = "exec" => Tasks[t].comp
    BY <1>3
  <2> QED
    BY <1>1, <1>3, <2>1, <2>2, <2>3, <2>4 DEF RepsExact, t
<1>7. Locals(a)'
  <2>1. Run(t, Expected(t))[0] = Expected(t)
    BY <1>2, RunEquation
  <2>2. pc'[a] = "exec" =>
          \A k \in Known(t, rep'[a]) : local'[a][k] = Run(t, Expected(t))[rep'[a]][k]
    BY <1>1, <1>3, <1>4, <2>1 DEF Known
  <2>3. pc'[a] = "out" => \A k \in Tasks[t].out : local'[a][k] = AfterReps(t, Expected(t))[k]
    <3> SUFFICES ASSUME pc'[a] = "out", NEW k \in Tasks[t].out
                 PROVE  local'[a][k] = AfterReps(t, Expected(t))[k]
      OBVIOUS
    <3>1. ~Tasks[t].comp /\ k \in Tasks[t].in
      BY <1>2, <1>3 DEF Proper
    <3>2. AfterReps(t, Expected(t)) = Expected(t)
      BY <1>2, <2>1, <3>1, RunEquation, RepetitionsType
    <3> QED
      BY <1>1, <1>4, <3>1, <3>2 DEF Seen
  <2> QED
    BY <1>1, <1>3, <2>2, <2>3 DEF Locals, t
<1>8. \A d \in Addrs : \A s \in Writers(d) : PutAt(a, s, d)' <=> PutAt(a, s, d)
  <2>1. \A s, d : ~PutBy(a, s, d) /\ ~PutBy(a, s, d)'
    BY <1>1, <1>3 DEF PutBy
  <2> QED
    BY <1>1, <2>1 DEF PutAt, Completed
<1> QED
  BY <1>1, <1>3, <1>5, <1>6, <1>7, <1>8, QuietStep

\* A repetition makes of the variables what it makes of them in the program order.
LEMMA ExecuteData ==
  ASSUME Proper, IInv, DataInv, NEW a \in Accs, Execute(a)
  PROVE  DataInv'
<1> DEFINE t == command[a].task
           c == Tasks[t].cancelAt
           r == rep[a]
<1>1. /\ TypeOK /\ Shapes /\ Locals(a) /\ RepsExact(a)
      /\ pc[a] = "exec" /\ Again(r, numReps[a])
      /\ UNCHANGED <<pc, command, i, mem, inPort, outPort, sent, finished>>
  BY DEF IInv, DataInv, Execute
<1>2. /\ t \in TaskIds /\ Tasks[t].in \subseteq Cached /\ Tasks[t].out \subseteq Outputs
      /\ Cached \subseteq Params
  BY <1>1, BusyData
<1>3. /\ AskedReps(t) \in 1..Forever /\ Forever \in Nat /\ Forever > 1
      /\ AskedReps(t) = Forever => c \in 0..Forever - 1
      /\ Repetitions(t) \in Nat
  BY <1>2, RepsAsked, RepetitionsType
<1>4. /\ i[a] = 1 /\ Tasks[t].comp /\ r \in 0..Repetitions(t)
      /\ numReps[a] = IF c \in 0..AskedReps(t) - 1 /\ r = c + 1 THEN 0 ELSE AskedReps(t)
  BY <1>1 DEF RepsExact
<1>5. Repetitions(t) = IF c \in 0..AskedReps(t) - 1 THEN c + 1 ELSE AskedReps(t)
  BY <1>2, <1>4, RepetitionsType
<1>6. /\ rep'[a] = r + 1 /\ numReps'[a] = IF r = c THEN 0 ELSE numReps[a]
      /\ local'[a] = Written(t, r, local[a])
      /\ Others(a) /\ OthersData(a)
  BY <1>1 DEF Execute, TypeOK, Shapes, Others, OthersData
<1>7. Shapes'
  <2>1. DOMAIN local' = Accs /\ DOMAIN local'[a] = Params
    BY <1>1, <1>6 DEF Execute, Shapes, Written
  <2> QED
    BY <1>1, <1>6, <2>1 DEF Shapes, OthersData
<1> HIDE DEF t, c, r
<1>8. ~(c \in 0..AskedReps(t) - 1 /\ r = c + 1) /\ numReps[a] = AskedReps(t)
      /\ r \in 0..Repetitions(t) - 1
  <2>1. ~(c \in 0..AskedReps(t) - 1 /\ r = c + 1)
    BY <1>1, <1>3, <1>4 DEF Again
  <2>2. numReps[a] = AskedReps(t)
    BY <1>4, <2>1
  <2>3. r # Repetitions(t)
    BY <1>1, <1>3, <1>5, <2>1, <2>2 DEF Again
  <2> QED
    BY <1>3, <1>4, <2>1, <2>2, <2>3
<1>9. RepsExact(a)'
  <2>1. r + 1 \in 0..Repetitions(t)
    BY <1>3, <1>8
  <2>2. numReps'[a] = IF c \in 0..AskedReps(t) - 1 /\ r + 1 = c + 1 THEN 0 ELSE AskedReps(t)
    <3>1. CASE r = c
      <4>1. c \in 0..AskedReps(t) - 1
        BY <1>1, <1>3, <1>8, <3>1 DEF Again
      <4> QED
        BY <1>6, <3>1, <4>1
    <3>2. CASE r # c
      <4>1. ~(c \in 0..AskedReps(t) - 1 /\ r + 1 = c + 1)
        BY <1>3, <1>8, <3>2
      <4> QED
        BY <1>6, <1>8, <3>2, <4>1
    <3> QED
      BY <3>1, <3>2
  <2> QED
    BY <1>1, <1>4, <1>6, <2>1, <2>2 DEF RepsExact, t, c
<1>10. Locals(a)'
  <2> DEFINE run == Run(t, Expected(t))
  <2>1. run[r + 1] = Written(t, r, run[r])
    <3>1. r + 1 \in 1..Repetitions(t) /\ (r + 1) - 1 = r
      BY <1>3, <1>8
    <3> QED
      BY <1>2, <3>1, RunEquation
  <2>2. \A k \in Known(t, r) : local[a][k] = run[r][k]
    BY <1>1 DEF Locals, t, r
  <2> HIDE DEF run
  <2>3. Seen(t) \subseteq Known(t, r) /\ Seen(t) \subseteq Params /\ Tasks[t].out \subseteq Params
    BY <1>2 DEF Known, Seen, Outputs
  <2>4. ASSUME NEW k \in Seen(t) \cup Tasks[t].out
        PROVE  Written(t, r, local[a])[k] = Written(t, r, run[r])[k]
    <3> DEFINE inputs(v) == [j \in Params |-> IF j \in Tasks[t].in \cup (Params \ Cached)
                                              THEN v[j] ELSE Unset]
    <3>1. inputs(local[a]) = inputs(run[r])
      BY <2>2, <2>3 DEF Seen
    <3>2. CASE k \in Tasks[t].out
      <4>1. /\ Written(t, r, local[a])[k] = <<t, r, inputs(local[a])>>
            /\ Written(t, r, run[r])[k] = <<t, r, inputs(run[r])>>
        BY <2>3, <3>2 DEF Written
      <4> QED
        BY <3>1, <4>1
    <3>3. CASE k \notin Tasks[t].out
      BY <2>2, <2>3, <2>4, <3>3 DEF Written
    <3> QED
      BY <3>2, <3>3
  <2>5. r + 1 # 0
    BY <1>3, <1>8
  <2>6. \A k \in Known(t, r + 1) : local'[a][k] = run[r + 1][k]
    BY <1>6, <2>1, <2>4, <2>5 DEF Known
  <2> QED
    BY <1>1, <1>6, <2>6 DEF Locals, t, run
<1>11. \A d \in Addrs : \A s \in Writers(d) : PutAt(a, s, d)' <=> PutAt(a, s, d)
  BY <1>1 DEF PutAt, PutBy, Completed
<1> QED
  BY <1>1, <1>6, <1>7, <1>9, <1>10, <1>11, QuietStep

\* The repetitions end when they are as many as in the program order.
LEMMA ExecutedData ==
  ASSUME Proper, IInv, DataInv, NEW a \in Accs, Executed(a)
  PROVE  DataInv'
<1> DEFINE t == command[a].task
           c == Tasks[t].cancelAt
<1>1. /\ TypeOK /\ Shapes /\ Locals(a) /\ RepsExact(a)
      /\ pc[a] = "exec" /\ pc'[a] = "out" /\ ~Again(rep[a], numReps[a])
      /\ UNCHANGED <<command, i, rep, numReps, local, mem, inPort, outPort, sent, finished>>
      /\ Others(a) /\ OthersData(a)
  BY DEF IInv, DataInv, Executed, TypeOK, Others, OthersData
<1>2. t \in TaskIds
  BY <1>1, BusyData
<1>3. /\ AskedReps(t) \in 1..Forever /\ Forever \in Nat
      /\ AskedReps(t) = Forever => c \in 0..Forever - 1
      /\ Repetitions(t) \in Nat
  BY <1>2, RepsAsked, RepetitionsType
<1>4. /\ i[a] = 1 /\ Tasks[t].comp /\ rep[a] \in 0..Repetitions(t)
      /\ numReps[a] = IF c \in 0..AskedReps(t) - 1 /\ rep[a] = c + 1 THEN 0 ELSE AskedReps(t)
  BY <1>1 DEF RepsExact
<1>5. /\ Repetitions(t) >= 1
      /\ Repetitions(t) = IF c \in 0..AskedReps(t) - 1 THEN c + 1 ELSE AskedReps(t)
  BY <1>2, <1>4, RepetitionsType
<1> HIDE DEF t, c
<1>6. rep[a] = Repetitions(t) /\ rep[a] # 0
  BY <1>1, <1>3, <1>4, <1>5 DEF Again
<1>7. Locals(a)'
  <2>1. AfterReps(t, Expected(t)) = Run(t, Expected(t))[rep[a]]
    BY <1>2, <1>6, RunEquation
  <2>2. \A k \in Tasks[t].out : local[a][k] = AfterReps(t, Expected(t))[k]
    BY <1>1, <1>6, <2>1 DEF Locals, Known, t
  <2> QED
    BY <1>1, <2>2 DEF Locals, t
<1>8. Shapes' /\ RepsExact(a)'
  BY <1>1 DEF Shapes, RepsExact
<1>9. \A d \in Addrs : \A s \in Writers(d) : PutAt(a, s, d)' <=> PutAt(a, s, d)
  <2>1. \A s, d : ~PutBy(a, s, d) /\ ~PutBy(a, s, d)'
    BY <1>1, <1>4 DEF PutBy
  <2> QED
    BY <1>1, <2>1 DEF PutAt, Completed
<1> QED
  BY <1>1, <1>7, <1>8, <1>9, QuietStep

\* A copy out puts the output of its task: the last task in the program order to have put
\* something in the region, for the later ones wait for it.
LEMMA CopyOutData ==
  ASSUME Proper, IInv, DataInv, NEW a \in Accs, CopyOut(a)
  PROVE  DataInv'
<1> SUFFICES ASSUME NEW t, t = command[a].task PROVE DataInv'
  OBVIOUS
<1> DEFINE n == i[a]
           k == OutParam(n)
           d == Tasks[t].arg[k]
<1>1. /\ TypeOK /\ Shapes /\ InOrder /\ Regions /\ Locals(a)
      /\ pc[a] = "out" /\ n \in DOMAIN OutSteps(a) /\ n \in Nat
      /\ UNCHANGED <<pc, command, rep, numReps, local, inPort, outPort, sent, finished>>
      /\ i' = [i EXCEPT ![a] = n + 1]
  BY DEF IInv, DataInv, CopyOut, OutSteps
<1>2. /\ t \in TaskIds /\ Tasks[t].out \subseteq Outputs /\ Outputs \subseteq Params
      /\ k \in Outputs => Raw(a, k) = d
      /\ DOMAIN OutSteps(a) = 1..Cardinality(Outputs)
      /\ OutSteps(a)[n].id = k
      /\ k \in Outputs => OutSteps(a)[n].out = (k \in Tasks[t].out)
  BY <1>1, BusyData DEF Outputs
<1>3. /\ t \in sent /\ t \notin finished
      /\ \A e : Put(t, e) <=> PutBy(a, t, e)
      /\ \A b \in Accs : t \notin Completed(b)
      /\ \A b \in Accs : b # a /\ pc[b] # "command" => command[b].task # t
  BY <1>1, BusyPlace
<1>4. mem' = IF k \in Tasks[t].out THEN [mem EXCEPT ![d] = local[a][k]] ELSE mem
  <2>1. OutSteps(a)[n].out /\ OutSteps(a)[n].id \in Outputs <=> k \in Tasks[t].out
    BY <1>2
  <2> QED
    BY <1>2, <2>1 DEF CopyOut
<1> HIDE DEF n, k, d
<1>5. /\ i'[a] = n + 1 /\ Others(a) /\ OthersData(a)
  BY <1>1 DEF Others, OthersData, TypeOK
<1>6. Shapes' /\ RepsExact(a)' /\ Locals(a)' /\ InOrder'
  <2>1. DOMAIN mem' = DOMAIN mem
    BY <1>4
  <2> QED
    BY <1>1, <2>1 DEF Shapes, RepsExact, Locals, InOrder
<1>7. ASSUME NEW e PROVE PutBy(a, t, e)' <=> PutBy(a, t, e) \/ (k \in Tasks[t].out /\ d = e)
  <2>1. 1..(n + 1) - 1 = 1..n - 1 \cup {n}
    <3>1. n \in Nat /\ n >= 1
      BY <1>1, <1>2
    <3> QED
      BY <3>1
  <2>2. k = OutParam(n)
    BY DEF k
  <2> QED
    BY <1>1, <1>5, <2>1, <2>2 DEF PutBy, n, d
<1>8. ASSUME NEW s, NEW e, s # t PROVE Put(s, e)' <=> Put(s, e)
  <2>1. PutAt(a, s, e)' <=> PutAt(a, s, e)
    BY <1>1, <1>8 DEF PutAt, PutBy, Completed
  <2> QED
    BY <1>5, <2>1, PutMoves
<1>9. ASSUME NEW e PROVE Put(t, e)' <=> Put(t, e) \/ (k \in Tasks[t].out /\ d = e)
  <2>1. \A b \in Accs : Completed(b)' = Completed(b)
    BY <1>1 DEF Completed
  <2>2. ASSUME NEW b \in Accs, b # a PROVE ~PutBy(b, t, e)'
    BY <1>1, <1>3, <2>2 DEF PutBy
  <2> QED
    BY <1>1, <1>3, <1>7, <2>1, <2>2 DEF Put
<1>10. Regions'
  <2> SUFFICES ASSUME NEW e \in Addrs, NEW m \in 0..Len(Tasks),
                      \A s \in Writers(e) : Put(s, e)' <=> s <= m
               PROVE  mem'[e] = Sequential[m][e]
    BY DEF Regions
  <2>1. CASE ~(k \in Tasks[t].out /\ d = e)
    <3>1. mem'[e] = mem[e]
      BY <1>4, <2>1
    <3>2. \A s \in Writers(e) : Put(s, e) <=> s <= m
      BY <1>8, <1>9, <2>1
    <3> QED
      BY <1>1, <3>1, <3>2 DEF Regions
  <2>2. CASE k \in Tasks[t].out /\ d = e
    <3>1. t \in 1..Len(Tasks) /\ Len(Tasks) \in Nat /\ TaskIds = 1..Len(Tasks)
      BY <1>2, FpgaWrapperAssumption
    <3>2. e \in Writes(t) /\ t \in Writers(e)
      BY <1>2, <2>2 DEF Writes, Writers, d
    <3>3. t <= m
      BY <1>9, <2>2, <3>2
    <3>4. ASSUME NEW s \in Writers(e), t < s, s <= m PROVE FALSE
      <4>1. s \in TaskIds /\ e \in Writes(s) /\ s # t
        BY <3>1, <3>4 DEF Writers
      <4>2. Put(s, e)
        BY <1>8, <3>4, <4>1
      <4>3. s \in sent
        BY <4>2, PutSent
      <4>4. Before(t, s)
        BY <3>2, <3>4, <4>1 DEF Before
      <4> QED
        BY <1>1, <1>2, <1>3, <4>3, <4>4 DEF InOrder
    <3>5. Sequential[m][e] = Sequential[t][e]
      <4>1. t \in 0..Len(Tasks) /\ m \in t..Len(Tasks)
        BY <3>1, <3>3
      <4> QED
        BY <3>4, <4>1, Unwritten
    <3>6. Sequential[t][e] = AfterReps(t, Expected(t))[k]
      BY <1>2, <2>2, WrittenRegion DEF d
    <3>7. mem'[e] = local[a][k]
      BY <1>1, <1>4, <2>2 DEF Shapes
    <3>8. local[a][k] = AfterReps(t, Expected(t))[k]
      BY <1>1, <2>2 DEF Locals
    <3> QED
      BY <3>5, <3>6, <3>7, <3>8
  <2> QED
    BY <2>1, <2>2
<1>11. ASSUME NEW b \in Accs PROVE RepsExact(b)' /\ Locals(b)'
  BY <1>5, <1>6, OthersInOrder DEF DataInv
<1> QED
  BY <1>6, <1>10, <1>11 DEF DataInv

\* A task that finishes has put all of its outputs.
LEMMA FinishData ==
  ASSUME Proper, IInv, DataInv, NEW a \in Accs, Finish(a)
  PROVE  DataInv'
<1> DEFINE t == command[a].task
<1>1. /\ TypeOK /\ Shapes
      /\ pc[a] = "out" /\ pc'[a] = "command" /\ i[a] \notin DOMAIN OutSteps(a)
      /\ UNCHANGED <<command, i, rep, numReps, local, mem, inPort, sent, finished>>
  BY DEF IInv, DataInv, Finish, TypeOK
<1>2. Completed(a)' = Completed(a) \cup {t} /\ Others(a) /\ OthersData(a)
  BY <1>1, FinishMoves DEF OthersData
<1>3. t \in TaskIds /\ Tasks[t].out \subseteq Outputs /\ DOMAIN OutSteps(a) = 1..Cardinality(Outputs)
  BY <1>1, BusyData
<1>4. i[a] \in Nat /\ Cardinality(Outputs) \in Nat /\ i[a] > Cardinality(Outputs)
  <2>1. NParams \in Nat /\ Outputs \subseteq 1..NParams
    BY FpgaWrapperAssumption DEF Outputs, Params
  <2>2. IsFiniteSet(Outputs)
    <3>1. IsFiniteSet(1..NParams)
      BY <2>1, FS_Interval
    <3> QED
      BY <2>1, <3>1, FS_Subset
  <2>3. Cardinality(Outputs) \in Nat
    BY <2>2, FS_CardinalityType
  <2>4. i[a] \in Nat /\ i[a] >= 1
    BY <1>1, <2>1 DEF TypeOK
  <2> QED
    BY <1>1, <1>3, <2>3, <2>4
<1> HIDE DEF t
<1>5. Shapes' /\ RepsExact(a)' /\ Locals(a)'
  BY <1>1 DEF Shapes, RepsExact, Locals
<1>6. ASSUME NEW d \in Addrs, NEW s \in Writers(d) PROVE PutAt(a, s, d)' <=> PutAt(a, s, d)
  <2>1. CASE s = t
    <3>1. PICK k \in Tasks[t].out : Tasks[t].arg[k] = d
      BY <1>6, <2>1 DEF Writers, Writes
    <3>2. PICK n \in 1..Cardinality(Outputs) : OutParam(n) = k
      BY <1>3, OutTurn
    <3>3. n \in 1..i[a] - 1
      BY <1>4
    <3>4. PutBy(a, s, d)
      BY <1>1, <2>1, <3>1, <3>2, <3>3 DEF PutBy, t
    <3> QED
      BY <1>2, <2>1, <3>4 DEF PutAt
  <2>2. CASE s # t
    BY <1>1, <1>2, <2>2 DEF PutAt, PutBy, t
  <2> QED
    BY <2>1, <2>2
<1> QED
  BY <1>1, <1>2, <1>5, <1>6, QuietStep

\* A task is sent when those before it have finished.
LEMMA SendTaskData ==
  ASSUME Proper, IInv, DataInv, NEW a \in Accs, NEW t \in TaskIds, SendTask(a, t)
  PROVE  DataInv'
<1>1. /\ Shapes /\ InOrder /\ Regions
      /\ \A s \in TaskIds : Before(s, t) => s \in finished
      /\ sent' = sent \cup {t}
      /\ UNCHANGED <<pc, command, i, rep, numReps, local, mem, outPort, finished>>
  BY DEF DataInv, SendTask
<1>2. InOrder'
  BY <1>1 DEF InOrder
<1>3. \A b \in Accs : RepsExact(b)' /\ Locals(b)'
  BY <1>1 DEF DataInv, RepsExact, Locals
<1>4. \A d \in Addrs : \A s \in Writers(d) : Put(s, d)' <=> Put(s, d)
  BY <1>1 DEF Put, PutBy, Completed
<1>5. Regions'
  BY <1>1, <1>4, RegionsStay
<1> QED
  BY <1>1, <1>2, <1>3, <1>5 DEF DataInv, Shapes

\* A completion received moves what its task has put from the stream to the runtime.
LEMMA CompleteData ==
  ASSUME Proper, IInv, DataInv, NEW a \in Accs, Complete(a)
  PROVE  DataInv'
<1> DEFINE t == Head(outPort[a]).task
<1>1. /\ Shapes /\ InOrder /\ Regions
      /\ UNCHANGED <<pc, command, i, rep, numReps, local, mem, inPort, sent>>
  BY DEF DataInv, Complete
<1>2. /\ t \in Completed(a) /\ Completed(a)' = Completed(a) \ {t}
      /\ finished' = finished \cup {t} /\ Others(a) /\ OthersData(a)
  BY <1>1, CompleteMoves DEF OthersData
<1> HIDE DEF t
<1>3. InOrder'
  BY <1>1, <1>2 DEF InOrder
<1>4. \A b \in Accs : RepsExact(b)' /\ Locals(b)'
  BY <1>1 DEF DataInv, RepsExact, Locals
<1>5. ASSUME NEW d \in Addrs, NEW s \in Writers(d) PROVE Put(s, d)' <=> Put(s, d)
  <2>1. PutAt(a, s, d)' <=> PutAt(a, s, d)
    BY <1>1, <1>2 DEF PutAt, PutBy
  <2> QED
    BY <1>2, <2>1, PutMoves
<1>6. Regions'
  BY <1>1, <1>5, RegionsStay
<1> QED
  BY <1>1, <1>3, <1>4, <1>6 DEF DataInv, Shapes

--------------------------------------------------------------------------------
\* Before anything is sent the memory is that of the start of the program.
LEMMA InitData == Init => DataInv
<1> SUFFICES ASSUME Init PROVE DataInv
  OBVIOUS
<1>1. Shapes
  BY DEF Init, Shapes, InitMem
<1>2. InOrder /\ \A a \in Accs : RepsExact(a) /\ Locals(a)
  BY DEF Init, InOrder, RepsExact, Locals
<1>3. ASSUME NEW t, NEW d PROVE ~Put(t, d)
  BY DEF Init, Put, PutBy, Completed
<1>4. ASSUME NEW d \in Addrs, NEW n \in 0..Len(Tasks),
             \A t \in Writers(d) : Put(t, d) <=> t <= n
      PROVE  mem[d] = Sequential[n][d]
  <2>1. \A t \in Writers(d) : ~(0 < t /\ t <= n)
    BY <1>3, <1>4
  <2>2. 0 \in 0..Len(Tasks)
    BY FpgaWrapperAssumption
  <2>3. Sequential[n][d] = Sequential[0][d]
    BY <2>1, <2>2, Unwritten
  <2> QED
    BY <2>3, SequentialEquation DEF Init
<1> QED
  BY <1>1, <1>2, <1>4 DEF DataInv, Regions

\* Each step keeps the data in order.
LEMMA NextData == Proper /\ IInv /\ DataInv /\ [Next]_vars => DataInv'
<1> SUFFICES ASSUME Proper, IInv, DataInv, [Next]_vars PROVE DataInv'
  OBVIOUS
<1>1. CASE UNCHANGED vars
  <2>1. Shapes' /\ InOrder'
    BY <1>1 DEF DataInv, Shapes, InOrder, vars
  <2>2. \A a \in Accs : RepsExact(a)' /\ Locals(a)'
    BY <1>1 DEF DataInv, RepsExact, Locals, vars
  <2>3. \A d \in Addrs : \A t \in Writers(d) : Put(t, d)' <=> Put(t, d)
    BY <1>1 DEF Put, PutBy, Completed, vars
  <2>4. Regions'
    BY <1>1, <2>3, RegionsStay DEF DataInv, vars
  <2> QED
    BY <2>1, <2>2, <2>4 DEF DataInv
<1>2. CASE Next
  <2>1. PICK a \in Accs : Wrapper(a) \/ (\E t \in TaskIds : SendTask(a, t)) \/ Complete(a)
    BY <1>2 DEF Next
  <2>2. CASE Wrapper(a)
    BY <2>2, ReadCommandData, CopyInData, CopiedInData, ExecuteData, ExecutedData,
       CopyOutData, FinishData DEF Wrapper
  <2>3. CASE \E t \in TaskIds : SendTask(a, t)
    BY <2>3, SendTaskData
  <2>4. CASE Complete(a)
    BY <2>4, CompleteData
  <2> QED
    BY <2>1, <2>2, <2>3, <2>4
<1> QED
  BY <1>1, <1>2

\* Before the first repetition the variables are those a task is to see.
LEMMA DataArgs ==
  ASSUME IInv, DataInv
  PROVE  ArgsArrive
<1> SUFFICES ASSUME NEW a \in Accs, pc[a] = "exec", rep[a] = 0,
                    NEW k \in Tasks[command[a].task].in \cup (Params \ Cached)
             PROVE  local[a][k] = Expected(command[a].task)[k]
  BY DEF ArgsArrive, Expected
<1>1. local[a][k] = Run(command[a].task, Expected(command[a].task))[0][k]
  BY DEF DataInv, Locals, Known, Seen
<1>2. command[a].task \in TaskIds
  BY BusyTask
<1> QED
  BY <1>1, <1>2, RunEquation

\* When the tasks sent that write a region have finished, so have the writers before
\* them: the last finished one has left what the region holds.
LEMMA DataMemory ==
  ASSUME IInv, DataInv
  PROVE  MemoryInOrder
<1> SUFFICES ASSUME NEW d \in Addrs, Writers(d) \cap sent \subseteq finished
             PROVE  mem[d] = Sequential[Max({0} \cup (Writers(d) \cap finished))][d]
  BY DEF MemoryInOrder, Writers
<1> DEFINE S == {0} \cup (Writers(d) \cap finished)
           n == Max(S)
<1>1. Len(Tasks) \in Nat /\ TaskIds = 1..Len(Tasks) /\ Writers(d) \subseteq TaskIds
      /\ finished \subseteq sent
  BY FpgaWrapperAssumption DEF Writers, IInv, TypeOK
<1>2. n \in S /\ \A s \in S : s <= n
  <2>1. S \in SUBSET (0..Len(Tasks)) /\ S # {}
    BY <1>1
  <2> HIDE DEF S
  <2> QED
    BY <1>1, <2>1, GreatestNatural
<1> HIDE DEF n
<1>3. n \in 0..Len(Tasks)
  BY <1>1, <1>2
<1>4. ASSUME NEW t \in Writers(d) PROVE Put(t, d) <=> t <= n
  <2>1. ASSUME Put(t, d) PROVE t <= n
    <3>1. t \in finished
      BY <2>1, PutSent
    <3> QED
      BY <1>2, <3>1
  <2>2. ASSUME t <= n PROVE Put(t, d)
    <3>1. n # 0 /\ n \in Writers(d) /\ n \in finished
      BY <1>1, <1>2, <2>2
    <3>2. CASE t = n
      BY <3>1, <3>2 DEF Put
    <3>3. CASE t < n
      <4>1. Before(t, n) /\ t \in TaskIds /\ n \in sent
        BY <1>1, <3>1, <3>3 DEF Before, Writers
      <4> QED
        BY <4>1 DEF DataInv, InOrder, Put
    <3> QED
      BY <1>1, <1>3, <2>2, <3>2, <3>3
  <2> QED
    BY <2>1, <2>2
<1>5. mem[d] = Sequential[n][d]
  BY <1>3, <1>4 DEF DataInv, Regions
<1> QED
  BY <1>5 DEF n

\* So the data are in order in every behaviour of a proper program.
THEOREM DataInvAlways ==
  ASSUME Proper
  PROVE  Spec => [](IInv /\ DataInv)
<1>1. Init => IInv /\ DataInv
  BY InitIInv, InitData
<1>2. IInv /\ DataInv /\ [Next]_vars => (IInv /\ DataInv)'
  BY NextIInv, NextData
<1> QED
  BY <1>1, <1>2, PTL DEF Spec

\* Whatever accelerator a task is sent to, and whatever the others do meanwhile, its user
\* function starts with the arguments it would see if the tasks ran one after the other.
THEOREM ArgsArriveAlways ==
  ASSUME Proper
  PROVE  Spec => []ArgsArrive
<1>1. IInv /\ DataInv => ArgsArrive
  BY DataArgs
<1> QED
  BY <1>1, DataInvAlways, PTL

\* And a region that no task under way writes holds what the program order leaves there,
\* with the repetitions each task asked for less those it cancelled.
THEOREM MemoryInOrderAlways ==
  ASSUME Proper
  PROVE  Spec => []MemoryInOrder
<1>1. IInv /\ DataInv => MemoryInOrder
  BY DataMemory
<1> QED
  BY <1>1, DataInvAlways, PTL
================================================================================
