----------------------------- MODULE FpgaLockProofs -----------------------------
(***************************************************************************)
(* For any set of accelerators and any lock objects: the lock API excludes *)
(* accelerators from each other's critical regions and implements          *)
(* CriticalRegions.  The inductive invariant is TypeOK with PhaseInv, which *)
(* says where the request or the release of each accelerator is.           *)
(***************************************************************************)
EXTENDS FpgaLock, SequenceTheorems, TLAPS

\* Appending to a port that holds one command gives a port that holds two.
LEMMA AppendToOne ==
  ASSUME NEW T, NEW x \in T, NEW y \in T
  PROVE  Append(<<x>>, y) = <<x, y>>
<1> DEFINE s == <<x>>
           t == <<x, y>>
<1>1. /\ s \in Seq(T) /\ Len(s) = 1 /\ s[1] = x
      /\ t \in Seq(T) /\ Len(t) = 2 /\ t[1] = x /\ t[2] = y
  OBVIOUS
<1>2. /\ Append(s, y) \in Seq(T) /\ Len(Append(s, y)) = 2
      /\ Append(s, y)[1] = x /\ Append(s, y)[2] = y
  BY <1>1, AppendProperties
<1> HIDE DEF s, t
<1>3. \A i \in 1..2 : Append(s, y)[i] = t[i]
  BY <1>1, <1>2
<1>4. Append(s, y) = t
  BY <1>1, <1>2, <1>3, SeqEqual
<1> QED
  BY <1>4 DEF s, t

\* One lock word stands for all lock objects, so there is one hardware lock.
LEMMA OneHwLock == HwLocks = {0}
BY FpgaLockAssumption DEF HwLocks, HwLock

\* The two commands the ports can carry, written out.
SetWord == [cmd |-> "set", lock |-> 0]
UnsetWord == [cmd |-> "unset", lock |-> 0]

\* The commands an accelerator sends are these two words, whatever the lock object.
LEMMA Words ==
  /\ \A l \in Locks : SetCmd(l) = SetWord /\ UnsetCmd(l) = UnsetWord
  /\ SetWord \in Cmds /\ UnsetWord \in Cmds
  /\ SetWord # UnsetWord
BY OneHwLock DEF SetCmd, UnsetCmd, HwLock, SetWord, UnsetWord, Cmds

\* The inductive invariant.
IInv == TypeOK /\ PhaseInv

\* Initially every port is empty, nobody is inside a region, the lock is free.
LEMMA InitIInv == Init => IInv
<1> SUFFICES ASSUME Init PROVE TypeOK /\ PhaseInv
  BY DEF IInv
<1>1. TypeOK
  BY DEF Init, TypeOK
<1>2. ASSUME NEW a \in Accs PROVE Phase(a)
  BY <1>2, OneHwLock, FpgaLockAssumption DEF Init, Phase, Idle, NoTrafficOf, Believed
<1> QED
  BY <1>1, <1>2 DEF PhaseInv

\* What the actions of one accelerator leave to the others.
Untouched(a) ==
  /\ pc'[a] = pc[a] /\ held'[a] = held[a] /\ out'[a] = out[a] /\ inPort'[a] = inPort[a]
  /\ owner'[0] = a <=> owner[0] = a

\* An accelerator none of whose variables changes keeps its phase.
LEMMA UntouchedPhase ==
  ASSUME NEW a \in Accs, Phase(a), Untouched(a)
  PROVE  Phase(a)'
BY DEF Phase, Untouched, Idle, ReleaseSent, RequestSent, BothSent, GrantSent, RefusalSent,
       NoTrafficOf, Believed, Releasing

\* Every step preserves the types.
LEMMA NextTypeOK == TypeOK /\ [Next]_vars => TypeOK'
<1> SUFFICES ASSUME TypeOK, [Next]_vars PROVE TypeOK'
  OBVIOUS
<1> USE DEF TypeOK
<1>1. ASSUME NEW a \in Accs, NEW l \in Locks, NEW op \in {"set", "try"}, Request(a, l, op)
      PROVE  TypeOK'
  <2>1. SetCmd(l) \in Cmds
    BY Words
  <2>2. out' \in [Accs -> Seq(Cmds)]
    BY <1>1, <2>1, AppendProperties DEF Request
  <2> QED
    BY <1>1, <2>2 DEF Request, MayRequest
<1>2. ASSUME NEW a \in Accs, NEW l \in Locks, UnsetLock(a, l) PROVE TypeOK'
  <2>1. UnsetCmd(l) \in Cmds
    BY Words
  <2>2. out' \in [Accs -> Seq(Cmds)]
    BY <1>2, <2>1, AppendProperties DEF UnsetLock
  <2> QED
    BY <1>2, <2>2 DEF UnsetLock
<1>3. ASSUME NEW a \in Accs, NEW ack \in Acks, ReadAck(a, ack)
      PROVE  inPort' \in [Accs -> Seq(Acks)]
  BY <1>3, HeadTailProperties DEF ReadAck
<1>4. ASSUME NEW a \in Accs, inPort' \in [Accs -> Seq(Acks)], Granted(a) PROVE TypeOK'
  BY <1>4 DEF Granted
<1>5. ASSUME NEW a \in Accs, SetLockAnswer(a) PROVE TypeOK'
  <2>1. PICK ack \in Acks :
          /\ ReadAck(a, ack)
          /\ \/ Granted(a)
             \/ /\ out' = [out EXCEPT ![a] = Append(@, SetCmd(want[a]))]
                /\ UNCHANGED <<pc, want, held, owner>>
    BY <1>5 DEF SetLockAnswer
  <2>2. inPort' \in [Accs -> Seq(Acks)]
    BY <1>3, <2>1
  <2>3. CASE Granted(a)
    BY <1>4, <2>2, <2>3
  <2>4. CASE /\ out' = [out EXCEPT ![a] = Append(@, SetCmd(want[a]))]
             /\ UNCHANGED <<pc, want, held, owner>>
    <3>1. SetCmd(want[a]) \in Cmds
      BY Words
    <3>2. out' \in [Accs -> Seq(Cmds)]
      BY <2>4, <3>1, AppendProperties
    <3> QED
      BY <2>2, <2>4, <3>2
  <2> QED
    BY <2>1, <2>3, <2>4
<1>6. ASSUME NEW a \in Accs, TryLockAnswer(a) PROVE TypeOK'
  <2>1. PICK ack \in Acks :
          /\ ReadAck(a, ack)
          /\ \/ Granted(a)
             \/ pc' = [pc EXCEPT ![a] = "run"] /\ UNCHANGED <<want, held, out, owner>>
    BY <1>6 DEF TryLockAnswer
  <2>2. inPort' \in [Accs -> Seq(Acks)]
    BY <1>3, <2>1
  <2> QED
    BY <1>4, <2>1, <2>2
<1>7. ASSUME NEW a \in Accs, LockUnit(a) PROVE TypeOK'
  <2>1. out[a] # <<>> /\ out' = [out EXCEPT ![a] = Tail(@)]
    BY <1>7 DEF LockUnit, Grant, Refuse, Release
  <2>2. Head(out[a]) \in Cmds /\ Tail(out[a]) \in Seq(Cmds)
    BY <2>1, HeadTailProperties
  <2>3. out' \in [Accs -> Seq(Cmds)] /\ Head(out[a]).lock \in HwLocks
    BY <2>1, <2>2 DEF Cmds
  <2>4. ACK_OK_CODE \in Acks /\ ACK_REJECT_CODE \in Acks
    BY DEF Acks
  <2>5. CASE Grant(a)
    BY <2>3, <2>4, <2>5, AppendProperties DEF Grant
  <2>6. CASE Refuse(a)
    BY <2>3, <2>4, <2>6, AppendProperties DEF Refuse
  <2>7. CASE Release(a)
    BY <2>3, <2>7 DEF Release
  <2> QED
    BY <1>7, <2>5, <2>6, <2>7 DEF LockUnit
<1>8. CASE UNCHANGED vars
  BY <1>8 DEF vars
<1> QED
  BY <1>1, <1>2, <1>5, <1>6, <1>7, <1>8 DEF Next, SetLock, TryLock

\* A request leaves from the ports being empty or holding only a release.
LEMMA RequestPhase ==
  ASSUME NEW a \in Accs, NEW l \in Locks, NEW op \in {"set", "try"},
         TypeOK, Phase(a), Request(a, l, op)
  PROVE  Phase(a)'
<1> USE DEF TypeOK
<1>1. /\ pc'[a] # "run" /\ held'[a] = held[a] /\ inPort'[a] = inPort[a] /\ owner' = owner
      /\ out'[a] = Append(out[a], SetWord)
  BY Words DEF Request
<1>2. CASE Idle(a)
  <2>1. out'[a] = <<SetWord>>
    BY <1>1, <1>2 DEF Idle, NoTrafficOf
  <2>2. RequestSent(a)'
    BY <1>1, <1>2, <2>1 DEF Idle, NoTrafficOf, RequestSent, Believed, SetWord
  <2> QED
    BY <1>1, <2>2 DEF Phase
<1>3. CASE ReleaseSent(a)
  <2>1. out'[a] = <<UnsetWord, SetWord>>
    BY <1>1, <1>3, AppendToOne, Words DEF ReleaseSent, UnsetWord
  <2>2. BothSent(a)'
    BY <1>1, <1>3, <2>1 DEF ReleaseSent, BothSent, Releasing, SetWord, UnsetWord
  <2> QED
    BY <1>1, <2>2 DEF Phase
<1> QED
  BY <1>2, <1>3 DEF Phase, Request, MayRequest, RequestSent, BothSent, GrantSent, RefusalSent

\* A release leaves from empty ports, since only one region is ever entered.
LEMMA UnsetPhase ==
  ASSUME NEW a \in Accs, NEW l \in Locks, TypeOK, Phase(a), UnsetLock(a, l)
  PROVE  Phase(a)'
<1> USE DEF TypeOK
<1>1. /\ pc'[a] = "run" /\ inPort'[a] = inPort[a] /\ owner' = owner
      /\ held'[a] = held[a] \ {l} /\ l \in held[a]
      /\ out'[a] = Append(out[a], UnsetWord)
  BY Words DEF UnsetLock
<1>2. Idle(a)
  BY <1>1 DEF Phase, UnsetLock, ReleaseSent, Releasing, RequestSent, BothSent, GrantSent, RefusalSent
<1>3. held'[a] = {}
  BY <1>1 DEF Phase
<1>4. out'[a] = <<UnsetWord>>
  BY <1>1, <1>2 DEF Idle, NoTrafficOf
<1>5. ReleaseSent(a)'
  BY <1>1, <1>2, <1>3, <1>4 DEF Idle, NoTrafficOf, Believed, ReleaseSent, Releasing, UnsetWord
<1> QED
  BY <1>3, <1>5 DEF Phase

\* An answer is read when it is the only traffic of the accelerator.
LEMMA AnswerRead ==
  ASSUME NEW a \in Accs, NEW ack \in Acks, TypeOK, Phase(a), ReadAck(a, ack)
  PROVE  /\ out[a] = <<>> /\ inPort'[a] = <<>>
         /\ ack = ACK_OK_CODE => Releasing(a)
         /\ ack # ACK_OK_CODE => Believed(a)
<1>1. inPort[a] = <<ack>>
  BY DEF Phase, ReadAck, Idle, NoTrafficOf, ReleaseSent, RequestSent, BothSent, GrantSent, RefusalSent
<1>2. GrantSent(a) \/ RefusalSent(a)
  BY <1>1 DEF Phase, Idle, NoTrafficOf, ReleaseSent, RequestSent, BothSent
<1>3. inPort'[a] = <<>>
  BY <1>1 DEF TypeOK, ReadAck
<1> QED
  BY <1>1, <1>2, <1>3 DEF GrantSent, RefusalSent, ACK_OK_CODE, ACK_REJECT_CODE

\* A grant makes the accelerator the holder the unit already takes it for.
LEMMA GrantedPhase ==
  ASSUME NEW a \in Accs, TypeOK, Granted(a), Releasing(a), out[a] = <<>>, inPort'[a] = <<>>
  PROVE  Phase(a)'
BY DEF TypeOK, Granted, Releasing, Phase, Idle, NoTrafficOf, Believed

\* nanos_set_lock enters its region or asks again, from empty ports in both cases.
LEMMA SetAnswerPhase ==
  ASSUME NEW a \in Accs, TypeOK, Phase(a), SetLockAnswer(a)
  PROVE  Phase(a)'
<1> USE DEF TypeOK
<1>1. PICK ack \in Acks :
        /\ ReadAck(a, ack)
        /\ \/ ack = ACK_OK_CODE /\ Granted(a)
           \/ /\ ack # ACK_OK_CODE
              /\ out' = [out EXCEPT ![a] = Append(@, SetCmd(want[a]))]
              /\ UNCHANGED <<pc, want, held, owner>>
  BY DEF SetLockAnswer
<1>2. /\ out[a] = <<>> /\ inPort'[a] = <<>>
      /\ ack = ACK_OK_CODE => Releasing(a)
      /\ ack # ACK_OK_CODE => Believed(a)
  BY <1>1, AnswerRead
<1>3. CASE ack = ACK_OK_CODE
  BY <1>1, <1>2, <1>3, GrantedPhase
<1>4. CASE ack # ACK_OK_CODE
  <2>1. out'[a] = <<SetWord>>
    BY <1>1, <1>2, <1>4, Words
  <2>2. RequestSent(a)'
    BY <1>1, <1>2, <1>4, <2>1 DEF SetLockAnswer, RequestSent, Believed, SetWord
  <2> QED
    BY <1>1, <1>4, <2>2 DEF Phase
<1> QED
  BY <1>3, <1>4

\* nanos_try_lock enters its region or gives up, and leaves nothing on the ports.
LEMMA TryAnswerPhase ==
  ASSUME NEW a \in Accs, TypeOK, Phase(a), TryLockAnswer(a)
  PROVE  Phase(a)'
<1> USE DEF TypeOK
<1>1. PICK ack \in Acks :
        /\ ReadAck(a, ack)
        /\ \/ ack = ACK_OK_CODE /\ Granted(a)
           \/ /\ ack # ACK_OK_CODE
              /\ pc' = [pc EXCEPT ![a] = "run"]
              /\ UNCHANGED <<want, held, out, owner>>
  BY DEF TryLockAnswer
<1>2. /\ out[a] = <<>> /\ inPort'[a] = <<>>
      /\ ack = ACK_OK_CODE => Releasing(a)
      /\ ack # ACK_OK_CODE => Believed(a)
  BY <1>1, AnswerRead
<1>3. CASE ack = ACK_OK_CODE
  BY <1>1, <1>2, <1>3, GrantedPhase
<1>4. CASE ack # ACK_OK_CODE
  <2>1. Idle(a)'
    BY <1>1, <1>2, <1>4 DEF Idle, NoTrafficOf, Believed
  <2> QED
    BY <1>1, <1>4, <2>1 DEF Phase
<1> QED
  BY <1>3, <1>4

\* The lock unit takes a command from a port that holds one or two.
LEMMA UnitPhase ==
  ASSUME NEW a \in Accs, TypeOK, Phase(a), LockUnit(a)
  PROVE  Phase(a)'
<1> USE DEF TypeOK
<1>0. 0 \in HwLocks /\ a # NoAcc
  BY OneHwLock, FpgaLockAssumption
<1>1. out[a] # <<>> /\ out'[a] = Tail(out[a]) /\ pc' = pc /\ held' = held
  BY DEF LockUnit, Grant, Refuse, Release
<1>2. CASE RequestSent(a)
  <2>1. /\ Head(out[a]) = SetWord /\ out'[a] = <<>>
    BY <1>1, <1>2 DEF RequestSent, SetWord
  <2>2. CASE Grant(a)
    <3>1. inPort'[a] = <<ACK_OK_CODE>> /\ owner'[0] = a /\ owner[0] = NoAcc
      BY <1>0, <1>2, <2>1, <2>2 DEF Grant, RequestSent, SetWord
    <3>2. held[a] = {}
      BY <1>0, <1>2, <3>1 DEF RequestSent, Believed
    <3>3. GrantSent(a)'
      BY <1>1, <1>2, <2>1, <3>1, <3>2 DEF RequestSent, GrantSent, Releasing
    <3> QED
      BY <1>1, <3>3 DEF Phase
  <2>3. CASE Refuse(a)
    <3>1. inPort'[a] = <<ACK_REJECT_CODE>> /\ owner' = owner
      BY <1>2, <2>3 DEF Refuse, RequestSent
    <3>2. RefusalSent(a)'
      BY <1>1, <1>2, <2>1, <3>1 DEF RequestSent, RefusalSent, Believed
    <3> QED
      BY <1>1, <3>2 DEF Phase
  <2>4. ~Release(a)
    BY <2>1 DEF Release, SetWord
  <2> QED
    BY <2>2, <2>3, <2>4 DEF LockUnit
<1>3. CASE ReleaseSent(a) \/ BothSent(a)
  <2>1. Head(out[a]) = UnsetWord
    BY <1>3 DEF ReleaseSent, BothSent, UnsetWord
  <2>2. Release(a)
    BY <2>1 DEF LockUnit, Grant, Refuse, UnsetWord
  <2>3. inPort' = inPort /\ owner'[0] # a /\ held[a] = {}
    BY <1>0, <1>3, <2>1, <2>2 DEF Release, UnsetWord, ReleaseSent, BothSent, Releasing
  <2>4. CASE ReleaseSent(a)
    <3>1. Idle(a)'
      BY <1>1, <2>3, <2>4 DEF ReleaseSent, Idle, NoTrafficOf, Believed
    <3> QED
      BY <1>1, <3>1 DEF Phase
  <2>5. CASE BothSent(a)
    <3>1. out'[a] = <<SetWord>>
      BY <1>1, <2>5 DEF BothSent, SetWord
    <3>2. RequestSent(a)'
      BY <1>1, <2>3, <2>5, <3>1 DEF BothSent, RequestSent, Believed, SetWord
    <3> QED
      BY <1>1, <3>2 DEF Phase
  <2> QED
    BY <1>3, <2>4, <2>5
<1> QED
  BY <1>1, <1>2, <1>3 DEF Phase, Idle, NoTrafficOf, GrantSent, RefusalSent

\* An accelerator inside a region is the owner the unit knows.
LEMMA HolderOwns ==
  ASSUME NEW a \in Accs, Phase(a), held[a] # {}
  PROVE  owner[0] = a
BY DEF Phase, Idle, ReleaseSent, RequestSent, BothSent, GrantSent, RefusalSent, Believed, Releasing

\* The lock unit takes the lock from its owner only, and gives it to one that asked.
LEMMA UnitOwner ==
  ASSUME NEW a \in Accs, TypeOK, Phase(a), LockUnit(a), NEW b \in Accs \ {a}
  PROVE  owner'[0] = b <=> owner[0] = b
<1>0. 0 \in HwLocks /\ b # NoAcc
  BY OneHwLock, FpgaLockAssumption
<1>1. CASE Grant(a)
  <2>1. Head(out[a]).lock = 0
    <3>1. Head(out[a]) \in Cmds
      BY <1>1, HeadTailProperties DEF TypeOK, Grant
    <3> QED
      BY <3>1, OneHwLock DEF Cmds
  <2> QED
    BY <1>0, <1>1, <2>1 DEF Grant, TypeOK
<1>2. CASE Refuse(a)
  BY <1>2 DEF Refuse
<1>3. CASE Release(a)
  <2>1. ReleaseSent(a) \/ BothSent(a)
    BY <1>3 DEF Phase, Release, Idle, NoTrafficOf, RequestSent, GrantSent, RefusalSent
  <2>2. owner[0] = a /\ Head(out[a]).lock = 0
    BY <2>1 DEF ReleaseSent, BothSent, Releasing
  <2> QED
    BY <1>0, <1>3, <2>2 DEF Release, TypeOK
<1> QED
  BY <1>1, <1>2, <1>3 DEF LockUnit

\* What an accelerator does is not seen by another one, the lock apart.
LEMMA OthersUntouched ==
  ASSUME NEW a \in Accs, NEW b \in Accs \ {a}, TypeOK, Phase(a),
         \/ \E l \in Locks : SetLock(a, l) \/ TryLock(a, l) \/ UnsetLock(a, l)
         \/ SetLockAnswer(a) \/ TryLockAnswer(a) \/ LockUnit(a)
  PROVE  Untouched(b)
<1> USE DEF TypeOK, Untouched
<1>1. CASE \E l \in Locks : SetLock(a, l) \/ TryLock(a, l)
  BY <1>1 DEF SetLock, TryLock, Request
<1>2. CASE \E l \in Locks : UnsetLock(a, l)
  BY <1>2 DEF UnsetLock
<1>3. CASE SetLockAnswer(a)
  BY <1>3 DEF SetLockAnswer, ReadAck, Granted
<1>4. CASE TryLockAnswer(a)
  BY <1>4 DEF TryLockAnswer, ReadAck, Granted
<1>5. CASE LockUnit(a)
  <2>1. /\ pc'[b] = pc[b] /\ held'[b] = held[b]
        /\ out'[b] = out[b] /\ inPort'[b] = inPort[b]
    BY <1>5 DEF LockUnit, Grant, Refuse, Release
  <2> QED
    BY <1>5, <2>1, UnitOwner
<1> QED
  BY <1>1, <1>2, <1>3, <1>4, <1>5

\* The invariant is inductive.
LEMMA NextIInv == IInv /\ [Next]_vars => IInv'
<1> SUFFICES ASSUME IInv, [Next]_vars PROVE TypeOK' /\ \A b \in Accs : Phase(b)'
  BY DEF IInv, PhaseInv
<1>1. TypeOK /\ \A b \in Accs : Phase(b)
  BY DEF IInv, PhaseInv
<1>2. TypeOK'
  BY <1>1, NextTypeOK
<1>3. ASSUME NEW a \in Accs,
             \/ \E l \in Locks : SetLock(a, l) \/ TryLock(a, l) \/ UnsetLock(a, l)
             \/ SetLockAnswer(a) \/ TryLockAnswer(a) \/ LockUnit(a),
             NEW b \in Accs
      PROVE  Phase(b)'
  <2>1. CASE b = a
    BY <1>1, <1>3, <2>1, RequestPhase, UnsetPhase, SetAnswerPhase, TryAnswerPhase, UnitPhase
       DEF SetLock, TryLock
  <2>2. CASE b # a
    <3>1. Untouched(b)
      BY <1>1, <1>3, <2>2, OthersUntouched
    <3> QED
      BY <1>1, <3>1, UntouchedPhase
  <2> QED
    BY <2>1, <2>2
<1>4. CASE UNCHANGED vars
  <2>1. \A b \in Accs : Untouched(b)
    BY <1>4 DEF vars, Untouched
  <2> QED
    BY <1>1, <1>2, <2>1, UntouchedPhase
<1> QED
  BY <1>2, <1>3, <1>4 DEF Next

\* The types and the phases hold in every behaviour, whatever the accelerators,
\* the lock objects and the nesting of regions.
THEOREM PhasesAlways == Spec => [](TypeOK /\ PhaseInv)
<1>1. IInv <=> TypeOK /\ PhaseInv
  BY DEF IInv
<1> QED
  BY <1>1, InitIInv, NextIInv, PTL DEF Spec

\* Ports carry commands and acknowledgements only, and accelerators wait at the reads
\* of nanos_set_lock and nanos_try_lock or run.
THEOREM TypesAlways == Spec => []TypeOK
<1>1. IInv => TypeOK
  BY DEF IInv
<1> QED
  BY <1>1, InitIInv, NextIInv, PTL DEF Spec

\* A region is entered by one accelerator at a time (nanos_set_lock and
\* nanos_try_lock return success to one holder).
LEMMA IInvExclusion == IInv => MutualExclusion
BY HolderOwns DEF IInv, PhaseInv, MutualExclusion

\* nanos_set_lock and nanos_try_lock let one accelerator at a time into the region of a
\* lock, however requests, refusals and late releases interleave.
THEOREM LockIsExclusive == Spec => []MutualExclusion
BY InitIInv, NextIInv, IInvExclusion, PTL DEF Spec

\* In each phase the unit believes of the accelerator what its regions and ports say:
\* that it holds the lock, will read that it does, or has its release on the way.
LEMMA IInvAgrees == IInv => OwnerAgrees
<1> SUFFICES ASSUME IInv, NEW a \in Accs
             PROVE  owner[0] = a <=>
                      \/ held[a] # {}
                      \/ ACK_OK_CODE \in {inPort[a][i] : i \in 1..Len(inPort[a])}
                      \/ "unset" \in {out[a][i].cmd : i \in 1..Len(out[a])}
  BY OneHwLock DEF OwnerAgrees
<1> DEFINE acks(s) == {s[i] : i \in 1..Len(s)}
           cmds(s) == {s[i].cmd : i \in 1..Len(s)}
<1>1. /\ acks(<<>>) = {} /\ cmds(<<>>) = {}
      /\ \A x : acks(<<x>>) = {x} /\ cmds(<<x>>) = {x.cmd}
      /\ \A x, y : cmds(<<x, y>>) = {x.cmd, y.cmd}
  <2>1. Len(<<>>) = 0 /\ 1..0 = {} /\ 1..1 = {1} /\ 1..2 = {1, 2}
    OBVIOUS
  <2>2. ASSUME NEW x PROVE acks(<<x>>) = {x} /\ cmds(<<x>>) = {x.cmd}
    BY <2>1, Len(<<x>>) = 1, <<x>>[1] = x
  <2>3. ASSUME NEW x, NEW y PROVE cmds(<<x, y>>) = {x.cmd, y.cmd}
    BY <2>1, Len(<<x, y>>) = 2, <<x, y>>[1] = x, <<x, y>>[2] = y
  <2>4. acks(<<>>) = {} /\ cmds(<<>>) = {}
    BY <2>1
  <2> QED
    BY <2>2, <2>3, <2>4
<1>2. owner[0] = a <=>
        held[a] # {} \/ ACK_OK_CODE \in acks(inPort[a]) \/ "unset" \in cmds(out[a])
  <2>1. ACK_OK_CODE # ACK_REJECT_CODE
    BY DEF ACK_OK_CODE, ACK_REJECT_CODE
  <2>2. Phase(a)
    BY DEF IInv, PhaseInv
  <2> HIDE DEF acks, cmds
  <2>3. CASE Idle(a)
    BY <1>1, <2>3 DEF Idle, NoTrafficOf, Believed
  <2>4. CASE ReleaseSent(a)
    BY <1>1, <2>4 DEF ReleaseSent, Releasing
  <2>5. CASE RequestSent(a)
    BY <1>1, <2>5 DEF RequestSent, Believed
  <2>6. CASE BothSent(a)
    BY <1>1, <2>6 DEF BothSent, Releasing
  <2>7. CASE GrantSent(a)
    BY <1>1, <2>7 DEF GrantSent, Releasing
  <2>8. CASE RefusalSent(a)
    BY <1>1, <2>1, <2>8 DEF RefusalSent, Believed
  <2> QED
    BY <2>2, <2>3, <2>4, <2>5, <2>6, <2>7, <2>8 DEF Phase
<1> QED
  BY <1>2

\* The lock unit and the accelerators agree on who holds the lock, counting the
\* acknowledgements not read yet and the releases not arrived yet.
THEOREM OwnerAgreesAlways == Spec => []OwnerAgrees
BY InitIInv, NextIInv, IInvAgrees, PTL DEF Spec

\* Every step of the protocol is a step of CriticalRegions or leaves the regions
\* as they are: a grant enters a region nobody is in, a release leaves it.
LEMMA StepRefines == IInv /\ [Next]_vars => [Abstract!Next]_held
<1> SUFFICES ASSUME IInv, [Next]_vars PROVE Abstract!Next \/ held' = held
  OBVIOUS
<1>1. TypeOK /\ \A b \in Accs : Phase(b)
  BY DEF IInv, PhaseInv
<1>2. ASSUME NEW a \in Accs, NEW ack \in Acks,
             ReadAck(a, ack), ack = ACK_OK_CODE, Granted(a)
      PROVE  Abstract!Next
  <2>1. Releasing(a)
    BY <1>1, <1>2, AnswerRead
  <2>2. \A b \in Accs : want[a] \notin held[b]
    BY <1>1, <2>1, HolderOwns DEF Releasing
  <2>3. want[a] \in Locks
    BY <1>1 DEF TypeOK
  <2>4. Abstract!Enter(a, want[a])
    BY <1>2, <2>2 DEF Abstract!Enter, Granted
  <2> QED
    BY <2>3, <2>4 DEF Abstract!Next
<1>3. ASSUME NEW a \in Accs, SetLockAnswer(a) \/ TryLockAnswer(a)
      PROVE  Abstract!Next \/ held' = held
  BY <1>2, <1>3 DEF SetLockAnswer, TryLockAnswer
<1>4. ASSUME NEW a \in Accs, NEW l \in Locks, UnsetLock(a, l)
      PROVE  Abstract!Next
  BY <1>4 DEF UnsetLock, Abstract!Next, Abstract!Leave
<1>5. ASSUME NEW a \in Accs, NEW l \in Locks, SetLock(a, l) \/ TryLock(a, l)
      PROVE  held' = held
  BY <1>5 DEF SetLock, TryLock, Request
<1>6. ASSUME NEW a \in Accs, LockUnit(a)
      PROVE  held' = held
  BY <1>6 DEF LockUnit, Grant, Refuse, Release
<1>7. CASE UNCHANGED vars
  BY <1>7 DEF vars
<1> QED
  BY <1>3, <1>4, <1>5, <1>6, <1>7 DEF Next

\* The lock API implements critical regions: what the streams and the unit do besides
\* entering and leaving is not seen.
THEOREM LockImplements == Spec => ImplementsCriticalRegions
<1>1. Init => Abstract!Init
  BY DEF Init, Abstract!Init
<1> QED
  BY <1>1, InitIInv, NextIInv, StepRefines, PTL
     DEF Spec, ImplementsCriticalRegions, Abstract!Spec
================================================================================
