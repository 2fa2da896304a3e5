# Verification of Mercurium (mcxx): FPGA protocols, task analysis, atomics and the driver

Mercurium is a source-to-source compiler for C, C++ and Fortran. It parses a
program, turns its OpenMP/OmpSs pragmas into trees, analyses them and lowers them to
calls of a run-time library. This branch adds a device to the Nanos++ lowering, which
emits a High Level Synthesis program for each task that runs on an FPGA: a *wrapper*
around the user function, and the API the function uses to create tasks, to wait for
them, to lock and to copy. That emitted code talks to hardware units over two streams,
runs concurrently on many accelerators, and has no tests (`src/src/tests` covers the
other devices only). It is what the models start from. They go on with three other
parts where order and interruption matter: the analysis that finds where tasks
synchronise, the code atomic constructs become, and the temporary files of the driver.

File names below are abbreviated:

| short | file |
|---|---|
| UTILS | `src/src/tl/omp/nanox-nodecl/devices/fpga/nanox-fpga-utils.hpp` |
| FPGA  | `src/src/tl/omp/nanox-nodecl/devices/fpga/nanox-fpga.cpp` |
| CRITICAL | `src/src/tl/omp/nanox-nodecl/tl-lower-critical.cpp` |
| SYNC  | `src/src/tl/analysis/pcfg/tl-task-sync.cpp` |
| ATOMICS | `src/src/tl/omp/lowering-common/tl-omp-lowering-atomics.cpp` |
| ATOMIC | `src/src/tl/omp/nanox-nodecl/tl-lower-atomic.cpp` |
| DRIVER | `src/src/driver/cxx-driver.c` |
| FILES | `src/src/driver/cxx-driver-utils.c` |

## 1. Inventory

`PROJECT.json` lists every component with its sources and whether it is modelled.

| component | state it keeps | operations | interacts with | hard behaviour | correct when |
|---|---|---|---|---|---|
| lock API (UTILS 1252-1341), used by critical regions (CRITICAL) | the code inside a region; words on the streams; the unit's owner | set, try, unset | lock unit, over `mcxx_outPort`/`mcxx_inPort` | refusals and retries, a release nobody acknowledges | one accelerator per region, unit and accelerators agree, some request is always served |
| task creation and taskwait (UTILS 1423-1504, FPGA 1009-1016, 1460-1475) | `__mcxx_taskId`, `__mcxx_taskComponents`, the packet being sent | create, retry, wait | scheduler, dependences unit, taskwait unit, the accelerators of the children | refusal, final mode, completions before or after the wait, a counter that outlives its task | a wait returns when all children have finished and not before; children keep their number; packets end where they say |
| task wrapper (FPGA `gen_hls_wrapper`, 929-1530) | command, arguments, cached arrays (static), repetitions | read command, copy in, run, repeat, cancel, copy out, finish | runtime, memory, user function | arguments in any order, stale static arrays, several accelerators on one memory | what is computed is what the program order computes, each task completed once for its own parent |
| shared memory port (UTILS 1505-1605) | word and element counters, local array | copy in, copy out | memory shared with other wrappers | arrays that begin and end inside a word that others write | every byte of the array moves and no other |
| FPGA pointers (UTILS 1051-1135) | addresses; the copy of a word in each reference | make a reference, read, assign | memory shared with other wrappers, user function | read-modify-write of a word, assignments inside of operands, overloads | an assignment changes its element to its value, and what it may take back is known |
| periods, sleep, clock (UTILS 1232-1245, FPGA 1435-1460) | time of the next repetition, number and count of repetitions | repeat, sleep, cancel | hardware counter, user function | 32 bit products, wrapping numbers, cancellation in any repetition | repetitions keep their distance, sleeps are as long as asked, a cancelled task ends |
| lowering of atomics (ATOMICS, ATOMIC, CRITICAL) | the location, the lock, locals of each thread | builtin, compare-and-swap loop, critical region | other threads | an update between the read and the exchange; two lowerings of one location | every update is atomic, its operand is evaluated once, and it ends |
| task synchronisation (SYNC) | alive tasks per node, points of synchronisation per task, edges | visit a node, end a pass, make the edges | the control flow graph, later analyses | cycles, nested tasks, order of visits, sets assigned and not only enlarged | the alive sets are those of the paths, no synchronisation is missed, a static one is certain, the passes end |
| driver (DRIVER, FILES) | list of temporary files, flags of the handler, a child process | create, mark, spawn, clean up, exit, handle a signal | operating system, native compilers | a signal in any step, a child that cleans, or dies cleaning, in the memory of its parent | no deleted node is used, an exit leaves nothing, a signal what it must |
| lowering of single, worksharing, reductions | emitted code and run-time objects | per construct | run-time library, threads | races between threads | one thread runs a single (planned) |
| other analyses (PCFG, liveness, reaching definitions, ranges) | sets per node | fixpoints | each other | cycles, termination | the sets are the ones the equations define (planned) |
| frontend, code generation, vectorizer, other devices, library | trees, scopes, symbols | one pass each | sequential calls | size | not modelled, see section 7 |

Parts interact through the streams: an accelerator writes words with a destination
(`HWR_LOCK_ID`, `HWR_SCHED_ID`, `HWR_DEPS_ID`, `HWR_TASKWAIT_ID`) on `mcxx_outPort`
and blocks on `mcxx_inPort`. The units on the other side, the runtime that sends
execution commands and the user functions are not in this repository; their models
contain what the emitted code relies on and are marked `external` in the map.

## 2. Modules

| module | what it is |
|---|---|
| `CriticalRegions` | abstract: a region is held by at most one accelerator |
| `FpgaLock` | the lock API and the lock unit; refines `CriticalRegions` |
| `FpgaLockProofs` | the proofs about `FpgaLock` |
| `ForkJoin` | abstract: a parent opens children, a join ends when none is open |
| `FpgaSpawn` | creation of children, taskwait, and the units they talk to; refines `ForkJoin` |
| `FpgaSpawnProofs` | the proofs about `FpgaSpawn` |
| `FpgaWrapper` | the wrapper, and the runtime that sends it tasks |
| `FpgaWrapperProofs` | the proofs about `FpgaWrapper` |
| `FpgaMemPort` | copies through the shared memory port |
| `FpgaMemPortProofs` | the proofs about `FpgaMemPort` |
| `ElementStore` | abstract: an array whose assignments change the element they name and may take its neighbours back |
| `FpgaRef` | pointers and references of task creating wrappers; refines `ElementStore` |
| `FpgaPeriodic` | periods, sleeps and cancellation of periodic tasks |
| `FpgaUtilsProofs` | the proofs about `FpgaRef` and `FpgaPeriodic` |
| `TaskSync` | the analysis of task synchronisation |
| `TaskSyncProofs` | the proofs about `TaskSync` |
| `AtomicLocation` | abstract: a location, changed by one update at a time |
| `AtomicUpdate` | what atomic constructs become; refines `AtomicLocation` |
| `AtomicUpdateProofs` | the proofs about `AtomicUpdate` |
| `TemporalFiles` | temporary files, cleanup, signals and processes of the driver |
| `TemporalFilesProofs` | the proofs about `TemporalFiles` |
| `MCFpgaSpawn`, `MCFpgaWrapper`, `MCFpgaRef`, `MCTaskSync`, `MCAtomicUpdate` | the shapes, programs and statements TLC runs |

Definitions whose name begins with `Mut` are faulty versions of the definition that
follows; they stand for a plausible bug and each is used to check that a property
would notice it.

### FpgaLock

`pc`, `want` and `held` are the user code's position; `out` and `inPort` are the two
streams; `owner` is the lock unit's. `SetLock`/`TryLock` are the calls up to the
blocking read of the acknowledgement (UTILS 1273, 1307), `SetLockAnswer` is the rest of
a turn of the do-while (anything but `ACK_OK_CODE` sends the request again),
`TryLockAnswer` tells the caller, `UnsetLock` sends the release and goes on at once.
`Grant`, `Refuse`, `Release` are the unit's. `HwLock(l)` is 0 for every lock: the code
sends the word `0 /*lock[0]*/` (UTILS 1270). `Nested` says whether the user code
enters a region from another one. The code then asks the unit for a lock that its own
accelerator holds and retries for ever, so the runs have `Nested = FALSE`; the theorems
of `FpgaLockProofs` hold for both values.

### FpgaSpawn

`Create` is `nanos_fpga_create_wd_async` (UTILS 1442) up to the read of the
acknowledgement: the packet has three words of header, a word per dependence, three per
copy and one per argument, and `LastBits` keeps the `last` bit of each as the code
computes it. `CreateAgain` is the loop going round: after `ACK_FINAL_CODE` without
dependences, after a refusal with them again. `Created` ends the loop, counts the child
and takes the branch of the final mode (1501) as the code writes it. `Wait`/`Waited` are
`nanos_fpga_wg_wait_completion`, `Start`/`End` the part of the wrapper that sets
`__mcxx_taskId` and clears `__mcxx_taskComponents` before the user function and returns
after it. A parent may end without waiting. A child is `queued`, `running`, `finished`
(its completion is on the way), `counted` by the taskwait unit and `joined`.

The taskwait unit is modelled as a counter per parent: it answers when as many children
as the request says have been counted. It does not know which children these are, so a
wrong count ends a wait too soon or never.

### FpgaWrapper

`pc` is the position in the generated function: `command` (blocking read), `in` (the
loop over the arguments), `exec` (the loop of repetitions), `out`. One turn of a loop is
an action, so accelerators interleave between arguments. A region of memory is one value,
and `Written` makes the value a record of who wrote it, in which repetition and from
which inputs, so that a stale or foreign value is always told apart. `InStep`, `Info`
and `Raw` keep the difference between the position of an argument and the number of its
parameter. The runtime (`SendTask`, `Complete`) starts a task when the earlier tasks
it depends on have finished, on any accelerator, with at most one command waiting in a
stream. Regions of different tasks share no word of the memory port; what happens when they
do is in `FpgaMemPort`. The wait for the period is in `FpgaPeriodic`; left out are the command that sets up
the instrumentation and wrappers whose function creates children (`FpgaSpawn` has them).

### FpgaMemPort

Memory and local arrays are functions of bytes. `TurnIn` is one turn of the loop of
`__mcxx_memcpy_port_in`, and `ReadWord` and `TurnOut` are one of `__mcxx_memcpy_port_out`, under
each combination of `fpga_unaligned_memory_port` and `fpga_check_limits_memory_port`, with
the arrays these options demand (`Permitted`, from the texts of the options, FPGA 524-532; the
code checks no alignment). Bytes that the code leaves uninitialised or reads past an array are
`Junk`.

With one of the options a turn assigns a range of a word of memory (UTILS 1540), which reads the
word, changes the range and stores the whole word; other wrappers may store to the word in
between. `held` is what a wrapper has read and not yet stored. Nothing in the code
asks for a store of single bytes. Without the options the buffer is stored as it is (1546) and
nothing is read. `exposed` is history: the bytes that a wrapper stored while another one was
between its read and its store of their word. These are the bytes that can be lost, and
`CopyComplete` promises all others. An element passes through a 64-bit integer (1566, 1593):
`ThroughRaw` keeps the first `RawBytes` of its bytes, and a wider element gets what is
uninitialised (in) or zeros (out). Left out: that a pipelined loop may read
its words earlier than a turn before (1560, 1587), which makes the time between read and store
longer; what writes to the memory other than wrappers.

### FpgaRef

When a task creates tasks, the pointers in its function become `mcxx_ptr_t` (FPGA 308) and
what they point to an `mcxx_ref_t` (UTILS 1051-1083). `mem` is the memory, byte by byte;
`refs` the references of each accelerator that wait to be assigned, the newest first, since
the operand of an assignment may call a function that assigns. `MakeRef` is the constructor,
which reads the word around the address; `Compute` is a right operand that is a value,
`ReadOperand` one that is read through another reference (`operator T`), `LeaveOperand` one
that stays a reference (`*p = *q`); `Assign` is `operator=`, which puts the value in the range of
the copied word and writes the word, and in the case of `*p = *q` the copy assignment that C++
declares for `mcxx_ref_t`, which writes no memory. `Plus` and `Subscript` are the two ways to
an address. Several references to one word may wait, of one accelerator or of several.

`ElementStore` says what a program can count on. An assignment changes the element it names to
the value of its right operand. Its neighbours, the elements of the same word, may go back to
what they were when its reference was made: that is the word written back. No other element
changes, and one whose operand stays a reference changes nothing. `elem`, `from`, `value` and
`isRef` of a reference keep what the program means. `LastKept` is the other half: what was
assigned while no other reference to the word waited stays until the next assignment to the
element, however often the neighbours are assigned. `last` remembers what that is.

`Indexes` are the subscripts of `p[i]` in programs. With one that is not 0 the assignment is to
another place than `*(p + i)` (section 6, 6). Left out: values wider than the eight bytes of the
integer they pass through (UTILS 1064; the assumption is `ElemSize <= 8`), `operator&` and
the conversions between pointers, which keep the address.

### FpgaPeriodic

`Start` reads a command (FPGA 1435-1446), `Repeat` and `Finish` are the head of the loop of
repetitions with the time of the next one (1447-1453), `Return` and `EndDelay` the wait after
the user function with the loop's increment (1455-1459). In the body the function may
`Sleep` and `Wake` (UTILS 1232-1243) and `Cancel` itself (1615-1619). `Tick` is a cycle of
the counter, which may come between any two steps. A time in the future is kept as the
cycles left until then, so that the 64-bit counter needs no value; an `unsigned int` is
below `Limit`, where products and numbers of repetitions wrap. `since`, `slept` and
`cancelled` are history, for the properties only. Its specification is named `TimeSpec`,
with `TimeInit`, `TimeNext` and `TimeTypeOK`, so that `FpgaUtilsProofs` can extend it together
with `FpgaRef`. The one cycle that `wait()` takes before the counter is
read first is not kept apart from other ticks.

### TaskSync

The walk of `compute_task_synchronizations_rec` (SYNC 690-899) is recursive over a graph
that it marks. Its recursion is the variable `agenda`, the visits still owed; `Visit`
takes the first and is, by the kind of the node, one of `VisitTask` ... `VisitOther`.
`liveIn`, `liveOut` are `get_live_in_tasks`/`get_live_out_tasks`, whose members are a
task with the number of its domain (`nextDomain`), `points` is the map of points of
synchronisation, `dead` the tasks that a dependence synchronised for certain. `EndPass`
is the do-while around the walk (1097-1108), `Connect` the edges (1114-1133) and
`ConnectPost` the tasks that outlive the function and `purge_exit_live_in_tasks_rec`
(1139-1165, 910-945). `TaskRel` is the match of the dependences of two tasks
(483-625), three-valued as `tribool`. `Depart` is the place where a set is assigned
(873-879) and where the passes learn that something changed.

A program is a constant: its nodes, edges and dependences, as the construction of the
graph leaves them. It has only nodes that can be reached, an entry and an exit of its
own for each graph and task, and `owner` names the task or function whose code a node is
(`IsProgram`).

What the alive sets should be is said by walks of the program, not by passes over
it. A position is a node and a side of it; `Ways` are the positions that follow one in the
program, `Forward` those that a task still alive goes on to, and `Reached(t, expired)` the
least set of positions that holds the one after t's creation and is closed under
`Forward` (`Spread`). Whether an expired task passes a wait with dependences depends on when
it expired, hence on the order of the visits (`WaitRel` reads `dead`, SYNC 382); so
`AliveExact` says exactly `Reached(t, {})` of the tasks that have not expired, and puts the
others between `Reached(t, {})` and `Reached(t, dead)`. `EveryTaskSyncs` is about the creations
from which the function can end (`Returns`).

Left out: the conditions that annotate an edge (946-1085), async
target tasks (1168-1328), and `task_matched_src_deps`, which is only read to compute the
parameter `keep_alive` that the caller never sees (finding 4).

### AtomicUpdate

`Lowering` is the dispatch of ATOMIC 219-244 over `Allowed` (ATOMICS 165-248) and
`UsesBuiltin`; a statement is the kind of its expression and the types of its sides.
`Fetch` is the builtin; `Operand`, `Load` and `Swap` the loop of `compare_and_exchange`
(the operand is evaluated once, before it; the swap compares the bits); `Enter`,
`Compute`, `Store`, `Leave` the critical region. Each is one access to the location. Left
out: the Fortran forms, which call the Nanos++ API; locations that are not 4 or 8 bytes
wide (no type is chosen for the exchange, the generated code does not compile); the copy
of this code in the GOMP lowering, whose read of the old value is not volatile.

### TemporalFiles

`pc` is the driver's place: `compile`, the steps of a creation (`made`, `link`, `unlink`,
`rename`: FILES 222-269, 300-331), `wait` for a child, `exit`, and the loop of
`temporal_files_cleanup` (`clean`, with `iter`). `handler` is the place of
`terminating_signal_handler`, which interrupts any step, the loop too, and stops the rest
while it runs. `freed` counts the nodes of the list already deleted: reading one of them
sets `misused`. `ever` remembers what was listed.

A child is `born` in the driver's own code: with `vfork` (`shares`) in its memory, with `fork`
with a copy of it (`inherited`). It executes its program; or it cannot, and exits; or a
signal comes first and is handled as in the driver. The last two clean, node by node
(`ChildBegins`, `ChildCleans`, `ChildCleaned`), and with `vfork` the nodes deleted, the flag
`in_cleanup_routine` and the registration of the cleanup (`atExit`) are the driver's. A
signal may stop the child at any of these steps (`ChildDies`): one that cannot be caught
(SIGKILL), or any one during the cleanup of exit, where the handler finds the flag set and dies
(DRIVER 5171-5174). What it leaves behind is the driver's state, with a list half
deleted and a flag that is set; `torn` remembers that this happened. Whether the library
counts the driver's exit as called already when a child in its memory began to exit is decided
by the library: both are possible.

Left out: directories (treated like files), a failing `mkstemp` or `unlink`, the calls the
handler makes that are not safe in one (`DELETE`, `fprintf`).

## 3. Runs

| run | instance | what it shows |
|---|---|---|
| `lock` | 3 accelerators, 1 lock | exclusion, agreement with the unit, the phases of a request, refinement of `CriticalRegions`; some request is always served and no release is lost |
| `lock_names` | 2 accelerators, 2 locks | violation: a request is refused because of a region of another name |
| `spawn` | 2 accelerators, 2 parents, 3 children, room for 1 | counts, child numbers, packets, the dialogue with the units, refinement of `ForkJoin`; every creation and every wait returns |
| `spawn_final` | 1 accelerator, 2 children | violation: a child with dependences created in final mode is not waited for |
| `wrapper` | 2 accelerators, 5 dependent tasks, 3 regions | arguments, memory and completions are those of the program order; every task ends |
| `wrapper_unordered` | one task, any order of arguments | violation: arguments reach the wrong parameters |
| `memport` | 2 wrappers, words of 4 bytes, elements of 1, 2 and 4 bytes through an integer of 2, 3 words of memory | every array, position and option, words read and stored in any order: its bytes move but for those a neighbour's store undid and those the integer does not hold; nothing else gets anywhere |
| `ref` (`MCFpgaRef`) | 2 accelerators, 3 elements of 2 bytes in 2 words, 2 references that wait, of one accelerator or of both | refinement of `ElementStore`; what was assigned alone in its word stays |
| `periodic` | numbers of 3 bits, two frequencies, five numbers of repetitions | repetitions a period apart, sleeps as long as asked, no repetition after a cancellation (`OnTime`); no drift and no wait after the last (`WaitsForTheNext`); tasks end |
| `task_sync` | every program of 3 slots in 6 shapes of control flow, with a nested task | the alive sets are those of the walks, no synchronisation is missed, a static one is certain, every task from which the function can end gets an edge; the passes end |
| `atomic` | 3 threads, one update each, every statement, critical regions on locations of their own | refinement of `AtomicLocation`; every update ends |
| `temporal_files` | 2 temporary files, 2 children, an object | an exit leaves nothing, a signal what it must, no deleted node is used; unless a child was stopped in its cleanup of the driver's list, and then what that had not reached; exit and signals end the driver |

The type invariants of `TaskSync`, `AtomicUpdate`, `TemporalFiles` and `FpgaRef` are proved and
not in these runs.

Nine more configurations give instances the runs leave out, on which TLC finds a property
violated; section 6 says what each shows:

| configuration | instance | violated |
|---|---|---|
| `TaskSyncReaders.cfg` (`MCTaskSync`) | straight lines of 3 tasks | `DependencesOrdered` |
| `AtomicUpdateMixed.cfg` (`MCAtomicUpdate`) | 2 threads, locations with both lowerings | `ImplementsAtomicLocation` |
| `FpgaRefSubscripts.cfg` (`MCFpgaRef`) | programs with `p[1]` | `OnlyTheNamed` |
| `FpgaRefCopies.cfg` (`MCFpgaRef`) | programs with `*p = *q` | `TakesEffect` |
| `FpgaRefNeighbours.cfg` (`MCFpgaRef`) | two accelerators on one word | `OnlyTheNamed` |
| `FpgaMemPortNeighbours.cfg` (`FpgaMemPort`) | two copies out to arrays that share a word | `Moved` |
| `FpgaMemPortWide.cfg` (`FpgaMemPort`) | elements wider than the integer | `Moved` |
| `TemporalFilesChild.cfg` (`TemporalFiles`) | one child | `AllRemoved` |
| `TemporalFilesDeleted.cfg` (`TemporalFiles`) | one child | `Sound` |

Bounds, and why they are enough:

- *lock*: the unit tells accelerators apart only by who owns the lock. Two can contend;
  the third sees both a holder and a competitor whose release is under way. The queues
  are not bounded: `PhaseInv` shows that a port never holds more than two commands.
- *spawn*: `Capacity = 1` makes refusals happen as soon as a second child is created,
  `MaxTasks = 3` lets a parent create two children with an order between them
  while another one creates a third, or creates again after a wait. `MaxTasks` is
  in the guard of `Create` only, and counts the creations under way. `MCShapes` has a
  child without dependences (scheduler) and one with a dependence and a copy
  (dependences unit, final mode). `CreationEnds` leans on the bound: with children
  without end, other accelerators could take every place that becomes free.
- *wrapper*: the program has a read after a write, a write after two reads, a task
  cancelled in its second repetition, a periodic task and a command with
  `__comp_needed` clear. Two accelerators run independent tasks at once and both
  have run before when the last tasks come, so that stale arrays could show.
  `Forever = 7` stands for `0xFFFFFFFF`; no task of the program has 7 repetitions.
- *memport*: three words are the first, a middle and the last word of an array, and
  elements of one and two bytes give every offset in a word; those of four do not fit into
  the integer, which has two bytes here and eight in the code. The second wrapper is the one
  that comes between a read and a store. Wider words differ in the numbers only; the
  proofs are for every width.
- *ref*: two elements share a word and the third has one of its own, so an assignment has a
  neighbour and an element that is not one, and two bytes in an element tell bytes from
  elements. The second accelerator and an assignment in the operand of the first are the
  two ways to come between the read of a word and its write; `MaxOpen = 2` bounds the
  references that wait over all accelerators. The values that programs begin with and
  compute (`Computed`) are two that differ in one byte; values that are read may be
  others. The accelerators are alike, and the run claims safety only, so permuting them is sound.
- *periodic*: with three bits, the products 5 * 3 and 3 * 3 wrap and 2 * 3 does not; the
  numbers of repetitions are none, one, some, the largest one that is not for ever and
  `Forever`, which lets the number of the repetition wrap. Sleeps are shorter and longer
  than periods.
- *task_sync*: a slot holds a task (writer, reader, both, through a pointer, or a task of
  a task expression), a taskwait, a barrier or a wait on a variable; the shapes are a line,
  a branch, a do-while, a while, a loop of one slot and two nested loops. A synchronisation needs a source, a
  target and something between that ends, hides or repeats the source: three slots. The
  task of the first slot may create another, which makes alive sets of two contexts; or the
  first slot is a wait on a variable, which a loop brings back to in a
  later pass, when the tasks it waits for may have expired.
- *atomic*: two threads make a swap fail; the third updates between the retry and its
  swap. The values are a few numbers, enough that a lost or doubled update leaves
  another one.
- *temporal_files*: with two temporary files one can be under creation while another is
  listed; two nodes are enough for a child to be stopped between them; two children let a step
  go wrong after a first child has failed. Every
  combination of `-k` (`--keep-files`) and `-K` (`--keep-all-files`) is an initial state.

## 4. Fairness

Accelerators are hardware: an accelerator that waits on a stream reads it when a
word is there, and the wrapper function restarts for ever. The units serve what
arrives. This is weak fairness of the reads, of the units and of the children; it is
per accelerator, since each has its own streams. The lock unit owes nobody a turn, so
`lock` claims that someone enters, never that each accelerator does. The body of a
critical region ends. Nothing forces the user code to create, to wait, or to end.

`CreationEnds` and `WaitEnds` follow from that. A refusal needs a queue that is full and
children leave the queue; an accelerator whose creation is answered FINAL sends it again
without dependences, to the scheduler, which has no final answer and may only refuse it
while the queue is full. A creation can go from one unit to the other several times
meanwhile; since the children of a behaviour are finitely many, the queue is empty in the
end and the creation is accepted. The units are not asked to be fair between accelerators,
so for unboundedly many children no such claim is made.

The analysis is a sequential program: `task_sync` assumes that it goes on (`WF_vars(Next)`).
In `periodic` the counter runs, the wrapper's loops go on, and the user function returns. It
may sleep and sleep again, so returning is strongly fair: it can return between two sleeps,
and in the end it does. `ref` claims no liveness.
Threads are scheduled: in `atomic` each thread that has begun an update goes on
(weak fairness of its steps; whether it begins one is free), and entering the critical region
is weakly fair only, so that `UpdatesEnd` rests on the finitely many updates. In
`temporal_files` the exit and the handler go on once begun; the compilation, the children
and the signals owe nothing.

## 5. What is proved

TLAPS checks these for every value of the constants (any number of accelerators,
locks, parents, children and argument counts, any program, file or width), from the named
assumptions of the modules, which TLC evaluates in the runs. Every invariant, action property
and refinement that a run checks is a theorem, and so is the type correctness of every
module with a run (`TypesAlways`, and `TimeTypesAlways` of `FpgaPeriodic`). Hypotheses of a
theorem besides these assumptions are named below: `Plain`, `Proper`, `Separate`, and that
children have arguments.

**FpgaLock.** `MutualExclusion` is not inductive: nothing in it speaks of a grant that
has not been read or of a release that has not arrived. `PhaseInv` adds it: the
traffic of an accelerator is always in one of six phases (idle, release sent, request
sent, both sent, granted, refused) and each fixes what the unit believes of it.
`PhasesAlways` proves `TypeOK /\ PhaseInv` inductive, one lemma per action, with
`Untouched` for the accelerators a step leaves alone. `LockIsExclusive` follows since an
accelerator in a region is the owner the unit knows, `OwnerAgreesAlways` by looking at the
ports in each phase, and `LockImplements` shows each step to be a step of
`CriticalRegions` or a stutter.

**FpgaSpawn.** `CountsAgree` and `ChildNumbers` need to know what is on the ports:
`DialogueInv` says that an accelerator has at most one question under way, that the
question still says what the accelerator would say now (so a retry cannot be stale),
that two accelerators never run the same parent and that a parent not yet started has
no children. `IInv == TypeOK /\ DialogueInv /\ CountsAgree /\ ChildNumbers` is
inductive (`IInvAlways`). `LocalStep` reduces steps that touch no child to what they do
to their accelerator; the three others (`AcceptStep`, `EndWaitStep`, `ChildStep`) are
argued on the set of children not joined: accepting adds its largest member, a wait's
answer empties it because its counted part has as many members as the whole, and the
progress of a child leaves it alone. From it:

- `DialogueAlways`: the dialogue itself, so every answer read is to the question that
  would be asked now;
- `CountsAgreeAlways`: the counter is the number of children to wait for, so a wait
  that finds 0 may skip the unit;
- `ChildNumbersAlways`: numbers are ranks of acceptance, whatever the retries;
- `PacketsFramedAlways`: when every child has an argument, a packet is as long as its
  header says and its last word alone has the last bit. `LastBitsShape` proves it of
  `LastBits` for any numbers of dependences, copies and arguments;
- `SpawnImplements`: creation and taskwait implement `ForkJoin`. `BoundInv` (children
  plus creations under way stay within `MaxTasks`) is there because the mapping names the
  children `1..MaxTasks`.

**FpgaWrapper.** `CompletionsMatch` needs to know where each task is. `Places` says that a
task that was sent and is not finished is in one place: the stream of one accelerator, its
wrapper, or its completions; `Ports` gives the words their types. `PlacesMove` argues a step
once: an accelerator takes new tasks from the runtime only, and finishes what it held.
`RepsLeft` ties the counters to the command, without which a task that repeats
forever could run past any bound: it has not passed its cancellation. From it
`TypesAlways` and `CompletionsMatchAlways`.

`ArgsArriveAlways` and `MemoryInOrderAlways` compare what the accelerators do at the same time
with `Sequential`, the program run task by task. They hold of programs with `Proper`:
arguments arrive in the order of the parameters (finding 3 is the other case), a task has one
output in a region (else the later copy wins, which the program order does not say), and a
command that runs nothing copies out only what it copied in (else it would write what an earlier
task left in the static array). The invariant is `DataInv`:

- `InOrder`: a task was sent when all it depends on had finished;
- `Regions`: if exactly the first `n` tasks have put their outputs in a region, among those
  that write it, the region holds what the program order leaves there after `n` tasks. So
  tasks may finish in any order, as long as each region sees its own writers in order;
- `RepsExact`: which repetition is under way, and how many the cancellation has left;
- `Locals`: the variables of an accelerator are those of its task in the program order, as far
  as they have been copied in, after so many repetitions, or until they are copied out.

`Sequential`, `AfterReps` and `Run` are recursive functions. That such a function exists, hence
satisfies its equation, and every other fact that goes over the tasks or the repetitions, is
shown by a least counterexample (`LeastNatural`), since the induction theorems of the
library take operators.

**FpgaMemPort.** The code counts in elements, the promise is about bytes. `Geometry` carries one
into the other, with `PerWord(c) * c.elem` the width of the port: byte `x` of word `w` is
byte `w * WordBytes + x - addr % WordBytes` of the array, and it is skipped, or
left out of the range that is written, exactly when that is not in the array. `TurnInEffect`
and `TurnOutEffect` state a turn in these terms. The invariant adds `Progress`, what is in
place after some turns; `Apart`, that nobody writes what another copy uses; and what a held word
is (`Fresh`): each of its bytes is what the memory may hold there (`MayBe`), and is what the memory does
hold unless it was stored since, hence is exposed. From it `CopyCompleteAlways` and
`NothingElseAlways`, for every width, element (also wider than the integer), array, option and
order of reads and stores.

**FpgaPeriodic.** `TimeInv` says that time passed and time left make a period (`PeriodKept`, between
the start of a repetition and the end of the wait after it) or a sleep (`SleepKept`), and
that a task which cancelled itself has no repetitions left. From it `TimeTypesAlways`,
`WaitsForTheNextAlways`, and `OnTimeAlways`, the action property, for any width of the numbers, any
frequency, periods, sleeps and numbers of repetitions.

**FpgaRef.** Under `Plain` (subscripts are 0, or elements have one byte): `LastKeptAlways` and
`RefsImplement`; `TypesAlways` needs no hypothesis. Nothing is assumed of the order of
assignments or of the words they share. The invariant adds to `TypeOK` that a reference is at
the address of the element it means (`RefsPlaced`), which is where `Plain` is used (`Plus`
counts in elements, and an element never crosses a word), and that a reference which waits has
read the value `last` remembers of each neighbour in its word (`BuffersKept`). It stays so
since an assignment either is alone in its word, so that nobody else holds it, or gives up the
promise (`NoValue`). An assignment changes one word, in it the range of one element, and the
rest becomes what its copy holds, which is what the abstract assignment has `seen`.

**TaskSync.** For every program that `IsProgram` admits, with no other hypothesis:
`StaticIsCertainAlways`, `AliveExactAlways`, `EverySyncFoundAlways` and `EveryTaskSyncsAlways`.
The argument has four parts.

- `IInv`. `StaticIsCertain` is not inductive: a wait, or the purge at the end, turns the only
  synchronisation of an expired task into a static one. The invariant adds that an expired
  task has a static synchronisation already (`DeadHaveStatic`, `EdgesHaveStatic`), so that
  if it has one only, that one is static.
- `WalkInv`. An item of an alive set carries the number its code got in some pass, and is
  compared with numbers of a later pass. The order of the visits is the same in every pass:
  `IsHistory` is the sequence of agendas that the program alone determines, and `OnTheWalk`
  says that the analysis is somewhere on it. So a number stands for one code, and a code has
  one number (`DomainUnique`, `DomainOwner`). `NothingDropped` says that a node that is
  visited has its successors, and what is inside it, visited or owed; so at the end of a pass
  every node was visited.
- `LiveInv`. `OnlyReached`: an alive task came along a walk. In the other direction, `Settled`
  says of each node visited in a pass without a change so far that it has taken all that the
  nodes before it have and handed it on; after the pass this is true of all (`AllSettled`).
  `Recorded`: what is alive before a node that synchronises it has its point there.
- The end of the last pass. The positions at which a task is alive are then closed under the
  steps of the reference (`AliveGoesOn`), and `Reached` is the least such set (`ReachedLeast`,
  from `SpreadLeast`, which shows that the search in as many rounds as there are positions
  has nothing left to find). `EdgeInv` carries the points into the edges.

**AtomicUpdate.** Under the hypothesis `Separate` (no location mixes critical regions with the
other lowerings; `AtomicUpdateMixed.cfg` shows that it is needed): `TypesAlways`,
and `AtomicImplements`. The invariant says of each thread what its statement, its locals and
the lock tell of each other: between the load and the swap `__newval` is the result for
`__oldval`, so a swap that succeeds is an update of the value the location has.

**TemporalFiles.** `NeverMisusedAlways`, `CleanExitAlways`, `LeftBySignalAlways`. The invariant has
two parts. `Control` says who cleans and how far: one cleans at a time, the flag
`in_cleanup_routine` says that one does or that one was stopped in it, `freed` is the place of
whoever cleans or of whoever was stopped, and after a cleanup that was not stopped the list is
empty. After `torn` the driver has nothing left to do but to exit, so its own exit is the only
one that can come to the deleted nodes. `Files` accounts for the disk: everything that was ever
listed is still in the list, or is to be kept, or is gone, or may be brought back by a
child; every temporary name on the disk is listed or being created.

**Only model-checked.** Liveness under fairness, which TLAPS cannot prove: `SomeoneEnters`,
`ReleaseArrives`, `CreationEnds`, `WaitEnds`, `EveryTaskEnds`, `Terminates`, `UpdatesEnd`, `Ends`. The
properties of the configurations that fail are false, and stay with TLC.

## 6. Findings

The first three are runs; 4 to 11 are configurations of their own (section 3).

1. *All locks are one lock* (run `lock_names`). Every request carries the lock word 0
   (UTILS 1270), although CRITICAL 125 gives each critical name its own lock: regions of
   different names exclude each other and a region nested in one of another name is
   refused for ever.
2. *The wait of the final mode is dead code* (run `spawn_final`). `finalMode` is assigned
   from every acknowledgement (UTILS 1495) and the loop ends with `ACK_OK_CODE` only, so
   `numDeps > 0 && finalMode == 1` (1501) is never true: a child that the dependences
   unit turned to final mode is created without dependences and not waited for.
3. *Unordered arguments are mixed up* (run `wrapper_unordered`). Arguments are stored at
   the position of their arrival (FPGA 1371) and read at the number of their parameter.
4. *Tasks are never kept alive* (`TaskSyncReaders.cfg`). `keep_alive` is passed by value
   (SYNC 483) and set in the callee (644), so the caller (819-829) always sees false, although
   the comment at 635-640 says that an output synchronised with an input may have to stay
   alive: of `task out(x); task in(x); task in(x)` the second reader gets no edge from the
   writer.
5. *Mixed atomics* (`AtomicUpdateMixed.cfg`). An expression that is not allowed (`x = x + e`)
   becomes a critical region on `nanos_default_critical_lock` (ATOMIC 225), while another
   atomic construct on the same location becomes a builtin or an exchange that takes no lock:
   the region can overwrite its update. The warning (223) speaks of efficiency only.
6. *p[i] counts in bytes* (`FpgaRefSubscripts.cfg`). `operator[]` adds the index to the address
   (UTILS 1088), `operator +` the index times the size (1124). The pointer's type is all that
   is replaced, so `p[i]` is printed as it was written and is not `*(p + i)`.
7. *`*p = *q` writes nothing* (`FpgaRefCopies.cfg`). `operator=(const T)` is not a copy
   assignment; for two references of one type C++ takes the one it declares itself, which
   copies one temporary to the other. If `q` points to `const` the types differ and the value
   is written.
8. *Neighbours are lost* (`FpgaRefNeighbours.cfg`). A reference reads its whole word when it is
   made (UTILS 1059) and the assignment writes the whole word (1076): what another accelerator,
   or the operand of the same assignment, assigned to another element of the word in between is
   undone.
9. *Copies out lose bytes at the ends* (`FpgaMemPortNeighbours.cfg`). The options for unaligned
   arrays and for limits assign a range of a word (UTILS 1540). Two tasks that copy out at the same
   time, to arrays that meet inside of a word, may both read the word before either
   stores it: the second store undoes the first. The option's text promises "to support
   unaligned memory regions" (FPGA 525). Without support for unaligned arrays the last word of
   an array is still assigned in part when limits are checked, which is the default (FPGA 532).
10. *Wide elements lose their upper bytes* (`FpgaMemPortWide.cfg`). They pass through an
   `unsigned long long int` (UTILS 1566, 1593), and the check of widths in the wrapper
   (FPGA 1018-1039) asks only that the port is a multiple of the element.
11. *A child stopped in its cleanup leaves files* (`TemporalFilesChild.cfg`) *or deleted nodes*
   (`TemporalFilesDeleted.cfg`). A vforked child that cannot execute runs the driver's exit in the
   driver's memory (FILES 395, 451). If a signal stops it between two nodes, the driver's wait
   returns 1 (FILES 462-467) and the driver gives up. Either its exit no longer cleans, since the
   child's exit has taken the cleanup off the list of the library, or the child was killed
   in its handler's cleanup, and the driver's exit walks nodes that are deleted. With Ctrl-C,
   which goes to both, the driver's handler finds the flag of the child set (DRIVER 5171)
   and leaves the files that the child had not reached. The passing run states exactly this
   exception (`torn`) and nothing more.

For 6 to 8 the promise is the comment that pointers are replaced by `mcxx_ptr_t` variables
(FPGA 308), which leaves the program its meaning.

Limits of properties that hold: `PacketsFramed` needs children with arguments; a child
without arguments, copies and dependences gets a packet without a last word
(UTILS 1490). `CopyComplete` leaves out the bytes of 9 and 10, and `NeverMisused`, `CleanExit` and
`LeftBySignal` the case of 11. `StaticIsCertain` speaks of the certainty of the relation between a
task and its point, not of whether every run gets from one to the other.

`EverySyncFound` leaves expired tasks out of the waits without dependences: tasks of a
loop that synchronise each other (`while (..) { task out(x); task in(x); }`, then a
taskwait) expire before the wait and have edges, yet no path of edges leads to the wait.
`AliveExact` gives two bounds for expired tasks, since a wait with dependences stops a task
before it expires and lets it pass afterwards. In `do { waiton(x); do { task in(x); task out(x); }
while (..); } while (..);` the second pass brings the writer to the wait, which stops it, and then to
the reader, where it expires; no set changes, the passes end and the writer is not alive
after the wait. If something else in the function made a third pass necessary, the writer would pass
the wait in it.
`EveryTaskSyncs` leaves out tasks whose creation is followed by an endless loop: no
synchronisation and no end of the function follows, and they have no edge.
`OnTime` is about products that fit into 32 bits: a longer period or sleep
wraps and is cut short (FPGA 1446, UTILS 1238). `WaitsForTheNext` leaves cancelled tasks out:
the time of the next repetition is computed before the repetition, so a task that cancels
itself waits for a repetition that does not come.
`LeftBySignal` is about signals outside of the cleanup of exit; one that comes during it
leaves what the cleanup had not reached, as the code intends (DRIVER 5171).

Seen while reading and not modelled: `fpga_memory_ports_mode` is registered with
`set_function_copy_suffix_from_str` (FPGA 541-544); `__temp` has the type of the location, so
`x *= 1.5` on an integer multiplies by 1 (ATOMICS 318); the message "Disable gdb from now"
(FILES 778) comes with `do_not_run_gdb = 0`; the probe of tar
(`src/src/driver/fortran/cxx-driver-fortran.c` 289) goes on after a forked child
that could not execute it has removed the driver's temporary files.

## 7. What is not modelled, and why

- The frontend (over 300 000 lines), code generation and the vectorizer are sequential
  rewriting of unbounded trees: a faithful model would be a second implementation.
- Other devices emit calls; the protocols behind them are in run-time libraries outside
  of this repository.
- Text generation of the FPGA device (declarations, symbol replacement, printing).
- The clock calls (`nanos_fpga_get_time_*`) read the counter and change nothing.
- What the runtime does with a command a wrapper does not know or sends to a wrapper
  that waits for an acknowledgement on the same stream: decided outside.
- What each module leaves out of its component is said in section 2, with the component
  marked `partly` in `PROJECT.json`.

## 8. Plan

What is left, in order of importance; each line names the module, its source and what to
check.

1. Single and its barrier, worksharing, reductions, as one family over threads.
2. Liveness and reaching definitions as equations on bounded graphs.
3. Async target tasks and the conditions of edges in `TaskSync`.
4. The Fortran driver's use of `TemporalFiles` (wrapped modules, the probe of tar).
5. Proofs of what 1 to 4 add.
6. The modules on either side of an interface as one: a wrapper that creates children
   (`FpgaWrapper` with `FpgaSpawn`), and its periods (`FpgaPeriodic`).
