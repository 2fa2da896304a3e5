--------------------------- MODULE FpgaPeriodic ---------------------------
(***************************************************************************)
(* Time in the wrapper of an FPGA task: the repetitions of a periodic one  *)
(* (gen_hls_wrapper in nanox-fpga.cpp), their cancellation and the sleeps  *)
(* of the user function (nanox-fpga-utils.hpp).  Both wait until a counter *)
(* of cycles passes a time, which is computed by a product of unsigned     *)
(* ints.  What the wrapper does besides is in FpgaWrapper.                 *)
(*                                                                         *)
(* Times are kept as the cycles left until the counter reaches them, which *)
(* a tick counts down; the counter has 64 bits and does not wrap.          *)
(***************************************************************************)
EXTENDS Integers

CONSTANTS Limit,    \* 2 to the bits of an unsigned int
          Freqs,    \* cycles of a microsecond (mcxx_freqPort)
          Periods,  \* of tasks, in microseconds
          Reps,     \* repetitions of tasks
          Sleeps    \* arguments of usleep

UInts == 0..Limit - 1
Forever == Limit - 1  \* 0xFFFFFFFF repetitions

ASSUME FpgaPeriodicAssumption ==
  /\ Limit \in Nat /\ Limit > 1
  /\ Freqs \cup Periods \cup Reps \cup Sleeps \subseteq UInts

VARIABLES freq,       \* mcxx_freqPort
          pc,         \* where the wrapper is: idle, loop, body, sleep, or delay
          period,     \* of the command, in microseconds
          cycles,     \* __task_period, multiplied
          rep,        \* __mcxx_periTask_repNum
          numReps,    \* __mcxx_periTask_numReps
          left,       \* cycles until __time_delay
          usec,       \* argument of usleep
          wake,       \* cycles until __usec_cycles
          since,      \* history: cycles since the last repetition began
          slept,      \* history: cycles since usleep was called
          cancelled   \* history: the task has called nanos_cancel_periodic_task

timeVars == <<freq, pc, period, cycles, rep, numReps, left, usec, wake, since, slept, cancelled>>

\* History stops counting here: no wait is that long.
Long == Limit

Wrapped(n) == n % Limit

Cycles(us) == Wrapped(us * freq)

TimeInit ==
  /\ freq \in Freqs
  /\ pc = "idle"
  /\ period = 0 /\ cycles = 0 /\ rep = 0 /\ numReps = 0
  /\ left = 0 /\ usec = 0 /\ wake = 0
  /\ since = Long /\ slept = Long
  /\ cancelled = FALSE

-----------------------------------------------------------------------------
\* A command that starts a task (code 1: one repetition) or a periodic one (code 5).
Start ==
  /\ pc = "idle"
  /\ \/ numReps' = 1 /\ period' = 0
     \/ numReps' \in Reps /\ period' \in Periods
  /\ cycles' = Cycles(period')
  /\ rep' = 0
  /\ pc' = "loop"
  /\ since' = Long
  /\ cancelled' = FALSE
  /\ UNCHANGED <<freq, left, usec, wake, slept>>

MutDueSooner(r, n) == Wrapped(r + 2) < n \/ n = Forever

\* Another repetition is to follow this one.
Due(r, n) == Wrapped(r + 1) < n \/ n = Forever

Again == rep < numReps \/ numReps = Forever

\* The loop goes on: the time of the next repetition is computed before this one.
Repeat ==
  /\ pc = "loop"
  /\ Again
  /\ left' = IF Due(rep, numReps) THEN cycles ELSE 0
  /\ since' = 0
  /\ pc' = "body"
  /\ UNCHANGED <<freq, period, cycles, rep, numReps, usec, wake, slept, cancelled>>

Finish ==
  /\ pc = "loop"
  /\ ~Again
  /\ pc' = "idle"
  /\ UNCHANGED <<freq, period, cycles, rep, numReps, left, usec, wake, since, slept, cancelled>>

MutCancel ==
  /\ pc = "body"
  /\ numReps' = rep
  /\ cancelled' = TRUE
  /\ UNCHANGED <<freq, pc, period, cycles, rep, left, usec, wake, since, slept>>

\* The user function calls nanos_cancel_periodic_task.
Cancel ==
  /\ pc = "body"
  /\ numReps' = 0
  /\ cancelled' = TRUE
  /\ UNCHANGED <<freq, pc, period, cycles, rep, left, usec, wake, since, slept>>

\* It calls usleep, which reads the counter.
Sleep ==
  /\ pc = "body"
  /\ usec' \in Sleeps
  /\ wake' = Cycles(usec')
  /\ slept' = 0
  /\ pc' = "sleep"
  /\ UNCHANGED <<freq, period, cycles, rep, numReps, left, since, cancelled>>

Wake ==
  /\ pc = "sleep"
  /\ wake = 0
  /\ pc' = "body"
  /\ UNCHANGED <<freq, period, cycles, rep, numReps, left, usec, wake, since, slept, cancelled>>

MutReturn ==
  /\ pc = "body"
  /\ left' = IF Due(rep, numReps) THEN cycles ELSE 0
  /\ pc' = "delay"
  /\ UNCHANGED <<freq, period, cycles, rep, numReps, usec, wake, since, slept, cancelled>>

\* The user function returns.
Return ==
  /\ pc = "body"
  /\ pc' = "delay"
  /\ UNCHANGED <<freq, period, cycles, rep, numReps, left, usec, wake, since, slept, cancelled>>

MutEndDelay ==
  /\ pc = "delay"
  /\ left = 0
  /\ rep' = rep + 1
  /\ pc' = "loop"
  /\ UNCHANGED <<freq, period, cycles, numReps, left, usec, wake, since, slept, cancelled>>

\* The time has come, and ++repNum.
EndDelay ==
  /\ pc = "delay"
  /\ left = 0
  /\ rep' = Wrapped(rep + 1)
  /\ pc' = "loop"
  /\ UNCHANGED <<freq, period, cycles, numReps, left, usec, wake, since, slept, cancelled>>

Down(n) == IF n = 0 THEN 0 ELSE n - 1
Up(n) == IF n = Long THEN Long ELSE n + 1

\* A cycle of the counter.
Tick ==
  /\ left' = Down(left)
  /\ wake' = Down(wake)
  /\ since' = Up(since)
  /\ slept' = Up(slept)
  /\ UNCHANGED <<freq, pc, period, cycles, rep, numReps, usec, cancelled>>

Wrapper == Repeat \/ Finish \/ Wake \/ EndDelay

TimeNext == Start \/ Wrapper \/ Cancel \/ Sleep \/ Return \/ Tick

\* The counter runs, the loops of the wrapper poll it, and user functions return,
\* however often they sleep.
Fairness == WF_timeVars(Tick) /\ WF_timeVars(Wrapper) /\ SF_timeVars(Return)

TimeSpec == TimeInit /\ [][TimeNext]_timeVars /\ Fairness

-----------------------------------------------------------------------------
TimeTypeOK ==
  /\ freq \in Freqs
  /\ pc \in {"idle", "loop", "body", "sleep", "delay"}
  /\ {period, cycles, rep, numReps, left, usec, wake} \subseteq UInts
  /\ {since, slept} \subseteq 0..Long
  /\ cancelled \in BOOLEAN

\* A period or a sleep whose cycles an unsigned int holds.
Fits(us) == us * freq \in UInts

\* A wait after a repetition is for the next one: it ends a period after this one began,
\* whatever this one took, sleeps included, and the last repetition has none.  (A task that
\* cancels itself before its last repetition still waits for the next.)
WaitsForTheNext ==
  pc \in {"body", "sleep", "delay"} /\ left > 0 =>
    /\ since + left = cycles
    /\ cancelled \/ numReps = Forever \/ Wrapped(rep + 1) # numReps

\* Repetitions begin a period apart, or more when one takes longer, also the last one and
\* those after the number of the repetition wraps; none begins after the task cancelled
\* itself, in whichever repetition it did; and sleeps are as long as they were asked to be.
OnTime ==
  [][/\ pc = "loop" /\ pc' = "body" =>
          ~cancelled /\ (Fits(period) => since >= period * freq)
     /\ pc = "sleep" /\ pc' = "body" =>
          (Fits(usec) => slept >= usec * freq)]_timeVars

\* Every task ends, but for those that repeat forever and are not cancelled.
Ends ==
  pc # "idle" ~> (pc = "idle" \/ (numReps = Forever /\ ~cancelled))
=============================================================================
