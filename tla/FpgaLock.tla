-------------------------------- MODULE FpgaLock --------------------------------
(***************************************************************************)
(* The lock API the FPGA device emits into every accelerator wrapper       *)
(* (nanos_set_lock, nanos_try_lock, nanos_unset_lock in                    *)
(* nanox-fpga-utils.hpp), over the two streams of an accelerator: commands *)
(* leave through mcxx_outPort towards the lock unit of the hardware        *)
(* runtime, acknowledgements come back through mcxx_inPort.                *)
(*                                                                         *)
(* A request may be refused: set_lock then sends it again, try_lock tells  *)
(* its caller.  A release is not acknowledged, so the accelerator goes on  *)
(* (and may request again) while its release is still on the way.          *)
(***************************************************************************)
EXTENDS Naturals, Sequences

CONSTANTS Accs,    \* accelerators running user code
          Locks,   \* lock objects (names of critical regions) of the user code
          NoAcc,   \* owner of a free lock
          Nested   \* whether the user code nests regions of different names

ASSUME FpgaLockAssumption ==
  /\ Locks # {}
  /\ NoAcc \notin Accs
  /\ Nested \in BOOLEAN

VARIABLES pc,      \* "run": user code; "set", "try": waiting for the answer
          want,    \* the lock of the last request
          held,    \* locks the user code holds
          out,     \* commands on mcxx_outPort not yet taken by the lock unit
          inPort,  \* answers on mcxx_inPort not yet read
          owner    \* lock unit: who was granted each hardware lock

vars == <<pc, want, held, out, inPort, owner>>

ACK_REJECT_CODE == 0
ACK_OK_CODE == 1
Acks == {ACK_REJECT_CODE, ACK_OK_CODE}

\* The lock word: "tmp = 0 /*lock[0]*/", the same for every lock object.
HwLock(l) == 0

HwLocks == {HwLock(l) : l \in Locks}

MutSetCmd(l) == [cmd |-> "set", lock |-> l]

\* Command codes 0x04 and 0x06 in the low byte of the word.
SetCmd(l) == [cmd |-> "set", lock |-> HwLock(l)]
UnsetCmd(l) == [cmd |-> "unset", lock |-> HwLock(l)]
Cmds == [cmd : {"set", "unset"}, lock : HwLocks]

Init ==
  /\ pc = [a \in Accs |-> "run"]
  /\ want \in [Accs -> Locks]
  /\ held = [a \in Accs |-> {}]
  /\ out = [a \in Accs |-> <<>>]
  /\ inPort = [a \in Accs |-> <<>>]
  /\ owner = [h \in HwLocks |-> NoAcc]

--------------------------------------------------------------------------------
(* The accelerator.                                                          *)

\* What the user code may ask for: a lock it does not hold already, and, when
\* it does not nest regions, only outside of every region.
MayRequest(a, l) ==
  /\ pc[a] = "run"
  /\ l \notin held[a]
  /\ Nested \/ held[a] = {}

Request(a, l, op) ==
  /\ MayRequest(a, l)
  /\ pc' = [pc EXCEPT ![a] = op]
  /\ want' = [want EXCEPT ![a] = l]
  /\ out' = [out EXCEPT ![a] = Append(@, SetCmd(l))]
  /\ UNCHANGED <<held, inPort, owner>>

\* nanos_set_lock and nanos_try_lock up to the blocking read of mcxx_inPort.
SetLock(a, l) == Request(a, l, "set")
TryLock(a, l) == Request(a, l, "try")

ReadAck(a, ack) ==
  /\ inPort[a] # <<>>
  /\ ack = Head(inPort[a])
  /\ inPort' = [inPort EXCEPT ![a] = Tail(@)]

Granted(a) ==
  /\ pc' = [pc EXCEPT ![a] = "run"]
  /\ held' = [held EXCEPT ![a] = @ \cup {want[a]}]
  /\ UNCHANGED <<want, out, owner>>

MutSetLockAnswer(a) ==
  /\ pc[a] = "set"
  /\ \E ack \in Acks : ReadAck(a, ack)
  /\ Granted(a)

MutSetLockNoRetry(a) ==
  /\ pc[a] = "set"
  /\ \E ack \in Acks :
       /\ ReadAck(a, ack)
       /\ \/ /\ ack = ACK_OK_CODE
             /\ Granted(a)
          \/ /\ ack # ACK_OK_CODE
             /\ UNCHANGED <<pc, want, held, out, owner>>

\* The rest of an iteration of nanos_set_lock's do-while: anything but
\* ACK_OK_CODE sends the request again.
SetLockAnswer(a) ==
  /\ pc[a] = "set"
  /\ \E ack \in Acks :
       /\ ReadAck(a, ack)
       /\ \/ /\ ack = ACK_OK_CODE
             /\ Granted(a)
          \/ /\ ack # ACK_OK_CODE
             /\ out' = [out EXCEPT ![a] = Append(@, SetCmd(want[a]))]
             /\ UNCHANGED <<pc, want, held, owner>>

\* nanos_try_lock answers its caller with (ack == ACK_OK_CODE).
TryLockAnswer(a) ==
  /\ pc[a] = "try"
  /\ \E ack \in Acks :
       /\ ReadAck(a, ack)
       /\ \/ /\ ack = ACK_OK_CODE
             /\ Granted(a)
          \/ /\ ack # ACK_OK_CODE
             /\ pc' = [pc EXCEPT ![a] = "run"]
             /\ UNCHANGED <<want, held, out, owner>>

MutUnsetUnsent(a, l) ==
  /\ pc[a] = "run"
  /\ l \in held[a]
  /\ held' = [held EXCEPT ![a] = @ \ {l}]
  /\ UNCHANGED <<pc, want, out, inPort, owner>>

MutUnsetLock(a, l) ==
  /\ pc[a] = "run"
  /\ l \in held[a]
  /\ out' = [out EXCEPT ![a] = Append(@, UnsetCmd(l))]
  /\ UNCHANGED <<pc, want, held, inPort, owner>>

\* nanos_unset_lock sends the release and does not wait for an answer.
UnsetLock(a, l) ==
  /\ pc[a] = "run"
  /\ l \in held[a]
  /\ held' = [held EXCEPT ![a] = @ \ {l}]
  /\ out' = [out EXCEPT ![a] = Append(@, UnsetCmd(l))]
  /\ UNCHANGED <<pc, want, inPort, owner>>

--------------------------------------------------------------------------------
(* The lock unit (HWR_LOCK_ID), outside of this repository: it takes the     *)
(* commands of an accelerator in order and answers each request.             *)

Grant(a) ==
  LET h == Head(out[a]).lock IN
  /\ out[a] # <<>>
  /\ Head(out[a]).cmd = "set"
  /\ owner[h] = NoAcc
  /\ owner' = [owner EXCEPT ![h] = a]
  /\ out' = [out EXCEPT ![a] = Tail(@)]
  /\ inPort' = [inPort EXCEPT ![a] = Append(@, ACK_OK_CODE)]
  /\ UNCHANGED <<pc, want, held>>

Refuse(a) ==
  LET h == Head(out[a]).lock IN
  /\ out[a] # <<>>
  /\ Head(out[a]).cmd = "set"
  /\ owner[h] # NoAcc
  /\ out' = [out EXCEPT ![a] = Tail(@)]
  /\ inPort' = [inPort EXCEPT ![a] = Append(@, ACK_REJECT_CODE)]
  /\ UNCHANGED <<pc, want, held, owner>>

Release(a) ==
  LET h == Head(out[a]).lock IN
  /\ out[a] # <<>>
  /\ Head(out[a]).cmd = "unset"
  /\ owner' = [owner EXCEPT ![h] = NoAcc]
  /\ out' = [out EXCEPT ![a] = Tail(@)]
  /\ UNCHANGED <<pc, want, held, inPort>>

--------------------------------------------------------------------------------
LockUnit(a) == Grant(a) \/ Refuse(a) \/ Release(a)

Next ==
  \E a \in Accs :
    \/ \E l \in Locks : SetLock(a, l) \/ TryLock(a, l) \/ UnsetLock(a, l)
    \/ SetLockAnswer(a)
    \/ TryLockAnswer(a)
    \/ LockUnit(a)

Spec == Init /\ [][Next]_vars

\* The lock unit serves every accelerator, an accelerator that is waiting reads
\* its port, and the body of a critical region ends.  Nothing makes the user
\* code enter a region, and the lock unit owes nobody a turn.
Fairness ==
  \A a \in Accs :
    /\ WF_vars(LockUnit(a))
    /\ WF_vars(SetLockAnswer(a) \/ TryLockAnswer(a))
    /\ WF_vars(pc[a] = "run" /\ \E l \in Locks : UnsetLock(a, l))

FairSpec == Spec /\ Fairness

--------------------------------------------------------------------------------
\* The ports carry lock commands and acknowledgements and nothing else.
TypeOK ==
  /\ pc \in [Accs -> {"run", "set", "try"}]
  /\ want \in [Accs -> Locks]
  /\ held \in [Accs -> SUBSET Locks]
  /\ out \in [Accs -> Seq(Cmds)]
  /\ inPort \in [Accs -> Seq(Acks)]
  /\ owner \in [HwLocks -> Accs \cup {NoAcc}]

\* Mutual exclusion of the code between nanos_set_lock and nanos_unset_lock,
\* although a release may be overtaken by the requests of other accelerators.
MutualExclusion ==
  \A a, b \in Accs : a # b => held[a] \cap held[b] = {}

\* The unit believes an accelerator holds the lock exactly when that accelerator
\* does, or is about to read that it does, or has its release on the way.
OwnerAgrees ==
  \A a \in Accs :
    (\E h \in HwLocks : owner[h] = a) <=>
      \/ held[a] # {}
      \/ ACK_OK_CODE \in {inPort[a][i] : i \in 1..Len(inPort[a])}
      \/ "unset" \in {out[a][i].cmd : i \in 1..Len(out[a])}

\* Where a request or a release of accelerator a can be: nowhere, in the output
\* port, or answered; and what the lock unit believes in each case.
NoTrafficOf(a) == out[a] = <<>> /\ inPort[a] = <<>>
Believed(a) == owner[0] = a <=> held[a] # {}
Releasing(a) == owner[0] = a /\ held[a] = {}

Idle(a) == pc[a] = "run" /\ NoTrafficOf(a) /\ Believed(a)
ReleaseSent(a) ==
  pc[a] = "run" /\ out[a] = <<[cmd |-> "unset", lock |-> 0]>> /\ inPort[a] = <<>> /\ Releasing(a)
RequestSent(a) ==
  pc[a] # "run" /\ out[a] = <<[cmd |-> "set", lock |-> 0]>> /\ inPort[a] = <<>> /\ Believed(a)
BothSent(a) ==
  /\ pc[a] # "run"
  /\ out[a] = <<[cmd |-> "unset", lock |-> 0], [cmd |-> "set", lock |-> 0]>>
  /\ inPort[a] = <<>>
  /\ Releasing(a)
GrantSent(a) ==
  pc[a] # "run" /\ out[a] = <<>> /\ inPort[a] = <<ACK_OK_CODE>> /\ Releasing(a)
RefusalSent(a) ==
  pc[a] # "run" /\ out[a] = <<>> /\ inPort[a] = <<ACK_REJECT_CODE>> /\ Believed(a)

Phase(a) ==
  /\ \/ Idle(a) \/ ReleaseSent(a) \/ RequestSent(a)
     \/ BothSent(a) \/ GrantSent(a) \/ RefusalSent(a)
  /\ \A l, m \in held[a] : l = m

\* At every moment the traffic of an accelerator is in one of these six phases and
\* it is inside one region at the most: the inductive invariant of the protocol.
PhaseInv == \A a \in Accs : Phase(a)

\* The lock API implements critical regions.
Abstract == INSTANCE CriticalRegions
ImplementsCriticalRegions == Abstract!Spec

\* Of the accelerators that ask with nanos_set_lock, some one is always served in
\* the end: retries never lock everybody out.
SomeoneEnters ==
  (\E a \in Accs : pc[a] = "set") ~> (\E a \in Accs : held[a] # {})

\* An unacknowledged release is never lost: the lock unit frees the lock, or the
\* accelerator is back inside a region.
ReleaseArrives ==
  \A a \in Accs :
    (held[a] = {} /\ \E h \in HwLocks : owner[h] = a)
      ~> (held[a] # {} \/ \A h \in HwLocks : owner[h] # a)

\* Requests are refused on account of the lock they name: when the unit refuses a
\* request for a lock, some accelerator was the last to ask for the same lock.
RefusedForItsLock ==
  [][\A a \in Accs : Refuse(a) =>
       \E b \in Accs \ {a} : want[a] \in held[b] \cup {want[b]}]_vars
================================================================================
