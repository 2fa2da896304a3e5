------------------------------ MODULE FpgaWrapper -------------------------------
(***************************************************************************)
(* The wrapper the FPGA device emits around the user function of an        *)
(* accelerator (DeviceFPGA::gen_hls_wrapper in nanox-fpga.cpp): it reads a *)
(* command, copies the cached arrays in, calls the user function once or,  *)
(* for a periodic task, several times, copies the cached arrays out and    *)
(* tells the runtime that the task is finished.                            *)
(*                                                                         *)
(* The runtime, outside of this repository, sends the commands: it starts  *)
(* a task once the earlier tasks it depends on have finished.  A memory    *)
(* region is one value, and what a user function writes says which task    *)
(* wrote it, in which repetition and from which inputs.                    *)
(***************************************************************************)
EXTENDS Integers, Sequences, FiniteSetsExt

CONSTANTS Accs,       \* accelerators with the wrapper of one user function
          Addrs,      \* memory regions
          NParams,    \* parameters of the user function
          Cached,     \* parameters with localmem, copied by the wrapper
          ConstElem,  \* those of them whose elements are const
          Unordered,  \* fpga_unordered_args
          Forever,    \* 0xFFFFFFFF repetitions
          Tasks       \* the program: its tasks in order

Params == 1..NParams
TaskIds == DOMAIN Tasks

\* A task names a region for each cached parameter and a value for the others, the
\* parameters the runtime flags as copied in and out, whether the user function must
\* run (__comp_needed), the repetitions if it is periodic, and the repetition in
\* which the user function calls nanos_cancel_periodic_task, if any.
\* Forever is not a number of repetitions a task reaches: one that asks for it is cancelled.
ASSUME FpgaWrapperAssumption ==
  /\ NParams \in Nat
  /\ Len(Tasks) \in Nat /\ TaskIds = 1..Len(Tasks)
  /\ Forever \in Nat /\ Forever > 1
  /\ ConstElem \subseteq Cached /\ Cached \subseteq Params
  /\ Unordered \in BOOLEAN
  /\ \A t \in TaskIds :
       /\ \A k \in Cached : Tasks[t].arg[k] \in Addrs
       /\ Tasks[t].in \subseteq Cached /\ Tasks[t].out \subseteq Cached \ ConstElem
       /\ Tasks[t].comp \in BOOLEAN /\ Tasks[t].periodic \in BOOLEAN
       /\ Tasks[t].reps \in 1..Forever
       /\ Tasks[t].periodic /\ Tasks[t].reps = Forever => Tasks[t].cancelAt \in 0..Forever - 1

VARIABLES pc,       \* where the wrapper is
          command,  \* the command read: identifiers, and a word pair per argument
          i,        \* arguments or entries handled by the loop under way
          rep,      \* __mcxx_periTask_repNum
          numReps,  \* __mcxx_periTask_numReps
          local,    \* the static local arrays and the variables of the parameters
          mem,      \* the memory regions
          inPort,   \* commands sent and not read
          outPort,  \* completions sent and not received
          sent,     \* runtime: the tasks it has sent
          finished  \* runtime: the tasks it knows to be finished

vars == <<pc, command, i, rep, numReps, local, mem, inPort, outPort, sent, finished>>

InitMem == [d \in Addrs |-> <<0, 0, <<d>>>>]
Unset == <<0, 0, <<>>>>
NoCommand == [task |-> 0, parent |-> 0, comp |-> FALSE, periodic |-> FALSE,
              reps |-> 1, args |-> <<>>]

Init ==
  /\ pc = [a \in Accs |-> "command"]
  /\ command = [a \in Accs |-> NoCommand]
  /\ i = [a \in Accs |-> 1]
  /\ rep = [a \in Accs |-> 0]
  /\ numReps = [a \in Accs |-> 0]
  /\ local = [a \in Accs |-> [k \in Params |-> Unset]]
  /\ mem = InitMem
  /\ inPort = [a \in Accs |-> <<>>]
  /\ outPort = [a \in Accs |-> <<>>]
  /\ sent = {}
  /\ finished = {}

--------------------------------------------------------------------------------
(* The arguments as the wrapper stores them: __paramInfo and                 *)
(* __mcxx_raw_params are filled in the order in which arguments arrive.      *)

Info(a, k) == command[a].args[k]
Raw(a, k) == command[a].args[k].value

\* The copy-in code of the arguments, in the order of its loop: the parameter a
\* step is for, and its flags.  Ordered wrappers take the position for the name.
InStep(a, n) ==
  IF Unordered THEN [id |-> Info(a, n).id, in |-> Info(a, n).in]
  ELSE [id |-> n, in |-> Info(a, n).in]

Outputs == Cached \ ConstElem

\* What a copy reads: a word that is not the address of a region reads anything.
At(m, word) == IF word \in Addrs THEN m[word] ELSE Unset

\* The copy-out code: unordered wrappers go through __paramInfo_out, which holds
\* the words at the positions of the parameters that can be written.
OutSteps(a) ==
  [n \in 1..Cardinality(Outputs) |->
     LET k == CHOOSE k \in Outputs : Cardinality({m \in Outputs : m < k}) = n - 1 IN
     IF Unordered THEN [id |-> Info(a, k).id, out |-> Info(a, k).out]
     ELSE [id |-> k, out |-> Info(a, k).out]]

--------------------------------------------------------------------------------
(* The wrapper.                                                              *)

\* The words of a command: its code, __comp_needed and __destID, the identifiers,
\* the repetitions of a periodic one, and the arguments.
ReadCommand(a) ==
  /\ pc[a] = "command"
  /\ inPort[a] # <<>>
  /\ command' = [command EXCEPT ![a] = Head(inPort[a])]
  /\ inPort' = [inPort EXCEPT ![a] = Tail(@)]
  /\ numReps' = [numReps EXCEPT ![a] =
                   IF Head(inPort[a]).periodic THEN Head(inPort[a]).reps ELSE 1]
  /\ i' = [i EXCEPT ![a] = 1]
  /\ pc' = [pc EXCEPT ![a] = "in"]
  /\ UNCHANGED <<rep, local, mem, outPort, sent, finished>>

MutCopyIn(a) ==
  /\ pc[a] = "in"
  /\ i[a] <= NParams
  /\ LET s == InStep(a, i[a]) IN
       local' = [local EXCEPT ![a][s.id] =
         IF s.id \notin Cached THEN Raw(a, s.id) ELSE @]
  /\ i' = [i EXCEPT ![a] = @ + 1]
  /\ UNCHANGED <<pc, command, rep, numReps, mem, inPort, outPort, sent, finished>>

\* A cached array is read from memory when its flags say so, and keeps what it holds
\* when they do not; any other parameter takes the argument.
CopyIn(a) ==
  /\ pc[a] = "in"
  /\ i[a] <= NParams
  /\ LET s == InStep(a, i[a]) IN
       local' = [local EXCEPT ![a][s.id] =
         IF s.id \notin Cached THEN Raw(a, s.id)
         ELSE IF s.in THEN At(mem, Raw(a, s.id)) ELSE @]
  /\ i' = [i EXCEPT ![a] = @ + 1]
  /\ UNCHANGED <<pc, command, rep, numReps, mem, inPort, outPort, sent, finished>>

\* __comp_needed skips the calls, never the copies out.
CopiedIn(a) ==
  /\ pc[a] = "in"
  /\ i[a] > NParams
  /\ rep' = [rep EXCEPT ![a] = 0]
  /\ i' = [i EXCEPT ![a] = 1]
  /\ pc' = [pc EXCEPT ![a] = IF command[a].comp THEN "exec" ELSE "out"]
  /\ UNCHANGED <<command, numReps, local, mem, inPort, outPort, sent, finished>>

\* What a user function with the variables v computes for its outputs: a value that
\* tells the task, the repetition and the inputs.
Written(t, r, v) ==
  [k \in Params |->
     IF k \in Tasks[t].out
       THEN <<t, r, [j \in Params |-> IF j \in Tasks[t].in \cup (Params \ Cached)
                                      THEN v[j] ELSE Unset]>>
       ELSE v[k]]

Again(r, n) == r < n \/ n = Forever

MutExecute(a) ==
  LET t == command[a].task IN
  /\ pc[a] = "exec"
  /\ Again(rep[a], numReps[a])
  /\ local' = [local EXCEPT ![a] = Written(t, rep[a], @)]
  /\ rep' = [rep EXCEPT ![a] = @ + 1]
  /\ UNCHANGED <<pc, command, i, numReps, mem, inPort, outPort, sent, finished>>

\* One turn of the repetition loop: the user function, which may set numReps to 0
\* (nanos_cancel_periodic_task), and ++repNum.  The wait for the period is left out.
Execute(a) ==
  LET t == command[a].task IN
  /\ pc[a] = "exec"
  /\ Again(rep[a], numReps[a])
  /\ local' = [local EXCEPT ![a] = Written(t, rep[a], @)]
  /\ numReps' = [numReps EXCEPT ![a] = IF rep[a] = Tasks[t].cancelAt THEN 0 ELSE @]
  /\ rep' = [rep EXCEPT ![a] = @ + 1]
  /\ UNCHANGED <<pc, command, i, mem, inPort, outPort, sent, finished>>

MutExecuted(a) ==
  /\ pc[a] = "exec"
  /\ rep[a] = numReps[a]
  /\ pc' = [pc EXCEPT ![a] = "out"]
  /\ UNCHANGED <<command, i, rep, numReps, local, mem, inPort, outPort, sent, finished>>

Executed(a) ==
  /\ pc[a] = "exec"
  /\ ~Again(rep[a], numReps[a])
  /\ pc' = [pc EXCEPT ![a] = "out"]
  /\ UNCHANGED <<command, i, rep, numReps, local, mem, inPort, outPort, sent, finished>>

CopyOut(a) ==
  /\ pc[a] = "out"
  /\ i[a] \in DOMAIN OutSteps(a)
  /\ LET s == OutSteps(a)[i[a]] IN
       mem' = IF s.out /\ s.id \in Outputs
                THEN [mem EXCEPT ![Raw(a, s.id)] = local[a][s.id]] ELSE mem
  /\ i' = [i EXCEPT ![a] = @ + 1]
  /\ UNCHANGED <<pc, command, rep, numReps, local, inPort, outPort, sent, finished>>

MutFinish(a) ==
  /\ pc[a] = "out"
  /\ outPort' = [outPort EXCEPT ![a] =
       Append(@, [task |-> command[a].task, parent |-> command[a].parent])]
  /\ pc' = [pc EXCEPT ![a] = "command"]
  /\ UNCHANGED <<command, i, rep, numReps, local, mem, inPort, sent, finished>>

MutFinishParent(a) ==
  /\ pc[a] = "out"
  /\ i[a] \notin DOMAIN OutSteps(a)
  /\ outPort' = [outPort EXCEPT ![a] =
       Append(@, [task |-> command[a].task, parent |-> command[a].task])]
  /\ pc' = [pc EXCEPT ![a] = "command"]
  /\ UNCHANGED <<command, i, rep, numReps, local, mem, inPort, sent, finished>>

\* __mcxx_send_finished_task_cmd(__destID), after the last copy; the function
\* returns and is started again by the hardware.
Finish(a) ==
  /\ pc[a] = "out"
  /\ i[a] \notin DOMAIN OutSteps(a)
  /\ outPort' = [outPort EXCEPT ![a] =
       Append(@, [task |-> command[a].task, parent |-> command[a].parent])]
  /\ pc' = [pc EXCEPT ![a] = "command"]
  /\ UNCHANGED <<command, i, rep, numReps, local, mem, inPort, sent, finished>>

--------------------------------------------------------------------------------
(* The runtime, outside of this repository: it sends a task to any           *)
(* accelerator, busy ones included, when its predecessors have finished.     *)

Reads(t) == {Tasks[t].arg[k] : k \in Tasks[t].in}
Writes(t) == {Tasks[t].arg[k] : k \in Tasks[t].out}
Before(s, t) ==
  s < t /\ (Writes(s) \cap (Reads(t) \cup Writes(t)) # {} \/ Reads(s) \cap Writes(t) # {})

\* The argument words, in the order of the parameters or, for wrappers that claim to
\* support it, in any order.
Orders == IF Unordered THEN {p \in [Params -> Params] : \A j, k \in Params : p[j] = p[k] => j = k}
          ELSE {[k \in Params |-> k]}

Words(t, p) ==
  [n \in Params |-> [id |-> p[n], in |-> p[n] \in Tasks[t].in,
                     out |-> p[n] \in Tasks[t].out, value |-> Tasks[t].arg[p[n]]]]

SendTask(a, t) ==
  /\ t \notin sent
  /\ \A s \in TaskIds : Before(s, t) => s \in finished
  /\ inPort[a] = <<>>
  /\ \E p \in Orders :
       inPort' = [inPort EXCEPT ![a] = Append(@,
         [task |-> t, parent |-> Tasks[t].parent, comp |-> Tasks[t].comp,
          periodic |-> Tasks[t].periodic, reps |-> Tasks[t].reps, args |-> Words(t, p)])]
  /\ sent' = sent \cup {t}
  /\ UNCHANGED <<pc, command, i, rep, numReps, local, mem, outPort, finished>>

Complete(a) ==
  /\ outPort[a] # <<>>
  /\ finished' = finished \cup {Head(outPort[a]).task}
  /\ outPort' = [outPort EXCEPT ![a] = Tail(@)]
  /\ UNCHANGED <<pc, command, i, rep, numReps, local, mem, inPort, sent>>

--------------------------------------------------------------------------------
Wrapper(a) ==
  \/ ReadCommand(a) \/ CopyIn(a) \/ CopiedIn(a) \/ Execute(a) \/ Executed(a)
  \/ CopyOut(a) \/ Finish(a)

Next ==
  \E a \in Accs :
    \/ Wrapper(a)
    \/ \E t \in TaskIds : SendTask(a, t)
    \/ Complete(a)

Spec == Init /\ [][Next]_vars

\* The wrapper is hardware that runs all the time; the runtime receives completions
\* and sends the tasks that are ready.
Fairness ==
  /\ \A a \in Accs : WF_vars(Wrapper(a)) /\ WF_vars(Complete(a))
  /\ \A t \in TaskIds : WF_vars(\E a \in Accs : SendTask(a, t))

FairSpec == Spec /\ Fairness

--------------------------------------------------------------------------------
\* The wrapper handles tasks of the program, and its loops stay in their arrays.
TypeOK ==
  /\ pc \in [Accs -> {"command", "in", "exec", "out"}]
  /\ \A a \in Accs : pc[a] # "command" => command[a].task \in sent
  /\ i \in [Accs -> 1..NParams + 1]
  /\ rep \in [Accs -> 0..Forever]
  /\ numReps \in [Accs -> 0..Forever]
  /\ sent \subseteq TaskIds /\ finished \subseteq sent

\* How many times the user function of a task runs.
Repetitions(t) ==
  LET asked == IF Tasks[t].periodic THEN Tasks[t].reps ELSE 1 IN
  IF ~Tasks[t].comp THEN 0
  ELSE IF Tasks[t].cancelAt \in 0..asked - 1 THEN Tasks[t].cancelAt + 1 ELSE asked

\* The memory after the first n tasks of the program run one after the other, each
\* reading its arguments from memory and leaving its outputs there.
AfterReps(t, vars0) ==
  LET f[r \in 0..Repetitions(t)] ==
        IF r = 0 THEN vars0 ELSE Written(t, r - 1, f[r - 1])
  IN f[Repetitions(t)]

Arguments(t, m) ==
  [k \in Params |-> IF k \in Cached THEN m[Tasks[t].arg[k]] ELSE Tasks[t].arg[k]]

Sequential[n \in 0..Len(Tasks)] ==
  IF n = 0 THEN InitMem
  ELSE LET m == Sequential[n - 1]
           v == AfterReps(n, Arguments(n, m)) IN
       [d \in Addrs |->
          IF \E k \in Tasks[n].out : Tasks[n].arg[k] = d
          THEN v[CHOOSE k \in Tasks[n].out : Tasks[n].arg[k] = d]
          ELSE m[d]]

\* When the user function starts it sees, in each parameter, the argument the runtime
\* sent for that parameter; in an array copied in, what the tasks before it in the
\* program left in its region (not what the accelerator or another one had there).
ArgsArrive ==
  \A a \in Accs : pc[a] = "exec" /\ rep[a] = 0 =>
    LET t == command[a].task
        expected == Arguments(t, Sequential[t - 1])
    IN \A k \in Tasks[t].in \cup (Params \ Cached) : local[a][k] = expected[k]

\* A region no unfinished task writes holds what program order puts there: copies
\* of accelerators that run at the same time never mix, a completion is sent after the
\* last copy out, and repetitions are as many as asked, less those cancelled.
MemoryInOrder ==
  \A d \in Addrs :
    LET writers == {t \in TaskIds : d \in Writes(t)} IN
    writers \cap sent \subseteq finished =>
      mem[d] = Sequential[Max({0} \cup (writers \cap finished))][d]

\* A completion is for a task the wrapper is done with and names its parent; a task
\* is completed once.
CompletionsMatch ==
  \A a, b \in Accs : \A m \in DOMAIN outPort[a] :
    LET c == outPort[a][m] IN
    /\ c.task \in sent \ finished
    /\ c.parent = Tasks[c.task].parent
    /\ pc[b] # "command" => command[b].task # c.task
    /\ \A n \in DOMAIN outPort[b] : outPort[b][n].task = c.task => <<a, m>> = <<b, n>>

\* Every task of the program ends, with its repetitions, whatever accelerator it is
\* sent to and whatever that accelerator is doing.
EveryTaskEnds == \A t \in TaskIds : <>(t \in finished)
================================================================================
