----------------------------- MODULE FpgaSpawnProofs ----------------------------
(***************************************************************************)
(* For any accelerators, parents, shapes of children and capacity: the     *)
(* counter of children agrees with the children accepted, the children of  *)
(* a task are numbered in order, every packet is as long as it announces,  *)
(* and creation and taskwait implement ForkJoin.  The inductive invariant, *)
(* IInv, is TypeOK with DialogueInv, CountsAgree and ChildNumbers;         *)
(* HasArguments joins it for the packets and BoundInv for the refinement.  *)
(***************************************************************************)
EXTENDS FpgaSpawn, SequenceTheorems, FiniteSetTheorems, TLAPS

Creation == [deps : Nat, copies : Nat, args : Nat, currentNumDeps : Nat]

--------------------------------------------------------------------------------
(* Packets.                                                                  *)

\* A sequence some of whose elements are replaced.
LEMMA Replaced ==
  ASSUME NEW S, NEW s \in Seq(S), NEW t, t = [i \in DOMAIN s |-> t[i]],
         \A i \in DOMAIN s : t[i] \in S
  PROVE  t \in Seq(S) /\ Len(t) = Len(s) /\ DOMAIN t = DOMAIN s
<1>1. Len(s) \in Nat /\ DOMAIN s = 1..Len(s)
  OBVIOUS
<1>2. t \in [1..Len(s) -> S]
  BY <1>1
<1> QED
  BY <1>1, <1>2

\* A sequence of bits is written as the function of the positions.
LEMMA BitSeq ==
  ASSUME NEW n \in Nat, NEW P \in [1..n -> BOOLEAN]
  PROVE  P \in Seq(BOOLEAN) /\ Len(P) = n
OBVIOUS

\* Bits before and after the seam of a concatenation.
LEMMA ConcatBits ==
  ASSUME NEW m \in Nat, NEW n \in Nat,
         NEW s \in Seq(BOOLEAN), NEW t \in Seq(BOOLEAN), Len(s) = m, Len(t) = n
  PROVE  /\ s \o t \in Seq(BOOLEAN) /\ Len(s \o t) = m + n
         /\ \A i \in 1..(m + n) : (s \o t)[i] <=> IF i <= m THEN s[i] ELSE t[i - m]
<1>1. /\ s \o t \in Seq(BOOLEAN) /\ Len(s \o t) = Len(s) + Len(t)
      /\ \A i \in 1..(Len(s) + Len(t)) :
           (s \o t)[i] = IF i <= Len(s) THEN s[i] ELSE t[i - Len(s)]
  BY ConcatProperties, Zenon
<1> QED
  BY <1>1, Zenon

\* The packet of a creation is as long as its header announces, and when the child
\* has an argument its last word alone has the last bit.
LEMMA LastBitsShape ==
  ASSUME NEW c \in Creation
  PROVE  LET len == 3 + c.currentNumDeps + 3 * c.copies + c.args IN
         /\ LastBits(c) \in Seq(BOOLEAN)
         /\ Len(LastBits(c)) = len
         /\ c.args > 0 => \A i \in 1..len : LastBits(c)[i] <=> i = len
<1> DEFINE d == c.currentNumDeps
           k == 3 * c.copies
           n == c.args
           h == <<FALSE, FALSE, FALSE>>
           D == [i \in 1..d |-> i = c.deps /\ c.args = 0 /\ c.copies = 0]
           K == [i \in 1..k |-> i = k /\ c.args = 0]
           A == [i \in 1..n |-> i = n]
           s1 == h \o D
           s2 == s1 \o K
           s3 == s2 \o A
<1>1. d \in Nat /\ k \in Nat /\ n \in Nat
  BY DEF Creation
<1>2. h \in Seq(BOOLEAN) /\ Len(h) = 3 /\ \A i \in 1..3 : h[i] = FALSE
  OBVIOUS
<1>3. /\ D \in Seq(BOOLEAN) /\ Len(D) = d
      /\ n > 0 => \A i \in 1..d : D[i] = FALSE
  <2>1. D \in [1..d -> BOOLEAN]
    OBVIOUS
  <2>2. D \in Seq(BOOLEAN) /\ Len(D) = d
    BY <1>1, <2>1, BitSeq
  <2> QED
    BY <1>1, <2>2
<1>4. /\ K \in Seq(BOOLEAN) /\ Len(K) = k
      /\ n > 0 => \A i \in 1..k : K[i] = FALSE
  <2>1. K \in [1..k -> BOOLEAN]
    OBVIOUS
  <2>2. K \in Seq(BOOLEAN) /\ Len(K) = k
    BY <1>1, <2>1, BitSeq
  <2> QED
    BY <1>1, <2>2
<1>5. /\ A \in Seq(BOOLEAN) /\ Len(A) = n
      /\ \A i \in 1..n : A[i] <=> i = n
  <2>1. A \in [1..n -> BOOLEAN]
    OBVIOUS
  <2>2. A \in Seq(BOOLEAN) /\ Len(A) = n
    BY <1>1, <2>1, BitSeq
  <2> QED
    BY <1>1, <2>2
<1> HIDE DEF h, D, K, A, d, k, n
<1>6. /\ s1 \in Seq(BOOLEAN) /\ Len(s1) = 3 + d
      /\ n > 0 => \A i \in 1..(3 + d) : s1[i] = FALSE
  <2> DEFINE m == Len(h)
  <2>1. m \in Nat /\ m = 3
    BY <1>2
  <2>2. h \in Seq(BOOLEAN) /\ D \in Seq(BOOLEAN) /\ Len(D) = d
    BY <1>2, <1>3
  <2>3. /\ s1 \in Seq(BOOLEAN) /\ Len(s1) = m + d
        /\ \A i \in 1..(m + d) : s1[i] <=> IF i <= m THEN h[i] ELSE D[i - m]
    BY <2>2, ConcatProperties
  <2> HIDE DEF m
  <2>4. ASSUME n > 0, NEW i \in 1..(m + d) PROVE s1[i] = FALSE
    <3>1. CASE i <= m
      <4>1. i \in 1..3
        BY <1>1, <2>1, <3>1
      <4> QED
        BY <1>2, <2>3, <3>1, <4>1
    <3>2. CASE ~(i <= m)
      <4>1. i - m \in 1..d
        BY <1>1, <2>1, <3>2
      <4> QED
        BY <1>3, <2>3, <2>4, <3>2, <4>1
    <3> QED
      BY <3>1, <3>2
  <2> QED
    BY <2>1, <2>3, <2>4
<1> HIDE DEF s1
<1>7. /\ s2 \in Seq(BOOLEAN) /\ Len(s2) = 3 + d + k
      /\ n > 0 => \A i \in 1..(3 + d + k) : s2[i] = FALSE
  BY <1>1, <1>4, <1>6, ConcatBits
<1> HIDE DEF s2
<1>8. /\ s3 \in Seq(BOOLEAN) /\ Len(s3) = 3 + d + k + n
      /\ n > 0 => \A i \in 1..(3 + d + k + n) : s3[i] <=> i = 3 + d + k + n
  <2> DEFINE m == 3 + d + k
  <2>1. m \in Nat
    BY <1>1
  <2>2. /\ s2 \in Seq(BOOLEAN) /\ Len(s2) = m
        /\ n > 0 => \A i \in 1..m : s2[i] = FALSE
    BY <1>7
  <2> HIDE DEF m
  <2>3. s2 \in Seq(BOOLEAN) /\ Len(s2) = m /\ A \in Seq(BOOLEAN) /\ Len(A) = n
    BY <1>5, <2>2
  <2>4. /\ s3 \in Seq(BOOLEAN) /\ Len(s3) = m + n
        /\ \A i \in 1..(m + n) : s3[i] <=> IF i <= m THEN s2[i] ELSE A[i - m]
    BY <1>1, <2>1, <2>3, ConcatBits
  <2>5. n > 0 => \A i \in 1..(m + n) : s3[i] <=> i = m + n
    <3> SUFFICES ASSUME n > 0, NEW i \in 1..(m + n) PROVE s3[i] <=> i = m + n
      OBVIOUS
    <3>1. CASE i <= m
      <4>1. i \in 1..m /\ i # m + n
        BY <1>1, <2>1, <3>1
      <4> QED
        BY <2>2, <2>4, <3>1, <4>1
    <3>2. CASE ~(i <= m)
      <4>1. i - m \in 1..n /\ (i - m = n <=> i = m + n)
        BY <1>1, <2>1, <3>2
      <4> QED
        BY <1>5, <2>4, <3>2, <4>1
    <3> QED
      BY <3>1, <3>2
  <2> QED
    BY <2>4, <2>5 DEF m
<1>9. s3 = LastBits(c)
  BY DEF s2, s1, h, D, K, A, d, k, n, LastBits
<1> HIDE DEF s3
<1> QED
  BY <1>8, <1>9 DEF d, k, n

\* The packets an accelerator sends are packets.
LEMMA PacketsTyped ==
  ASSUME TypeOK, NEW a \in Accs, pc[a] # "idle"
  PROVE  WaitPacket(a) \in Packets /\ \A c \in Creation : CreatePacket(a, c) \in Packets
<1>1. components[a] \in Nat /\ taskId[a] \in Parents
  BY DEF TypeOK
<1>2. <<FALSE, TRUE>> \in Seq(BOOLEAN)
  OBVIOUS
<1>3. WaitPacket(a) \in Packets
  BY <1>1, <1>2 DEF WaitPacket, Packets
<1>4. ASSUME NEW c \in Creation PROVE CreatePacket(a, c) \in Packets
  <2>1. LastBits(c) \in Seq(BOOLEAN)
    BY LastBitsShape
  <2> QED
    BY <1>1, <2>1 DEF CreatePacket, Packets, Creation
<1> QED
  BY <1>3, <1>4

--------------------------------------------------------------------------------
(* Types.                                                                    *)

\* Initially every variable has its type.
LEMMA InitTypeOK == Init => TypeOK
BY DEF Init, TypeOK, Free

\* What is left on a port after a read are answers.
LEMMA ReadTyped ==
  ASSUME TypeOK, NEW a \in Accs, NEW w, Read(a, w)
  PROVE  inPort' \in [Accs -> Seq(Acks \cup {WaitOver})]
BY HeadTailProperties DEF TypeOK, Read

\* A packet that is sent leaves packets on the port.
LEMMA SendTyped ==
  ASSUME TypeOK, NEW a \in Accs, NEW p \in Packets, Send(a, p)
  PROVE  outPort' \in [Accs -> Seq(Packets)]
BY AppendProperties DEF TypeOK, Send

\* An answer that is sent leaves answers on the port.
LEMMA AnswerTyped ==
  ASSUME TypeOK, NEW a \in Accs, NEW w \in Acks \cup {WaitOver}, Answer(a, w)
  PROVE  inPort' \in [Accs -> Seq(Acks \cup {WaitOver})]
BY AppendProperties DEF TypeOK, Answer

\* A unit takes a packet, and leaves packets.
LEMMA TakeTyped ==
  ASSUME TypeOK, NEW a \in Accs, Take(a)
  PROVE  /\ outPort' \in [Accs -> Seq(Packets)]
         /\ Head(outPort[a]) \in Packets
BY HeadTailProperties DEF TypeOK, Take, Arrived

\* The answers the units give.
LEMMA AnswerWords ==
  /\ ACK_OK_CODE \in Acks /\ ACK_REJECT_CODE \in Acks /\ ACK_FINAL_CODE \in Acks
  /\ WaitOver \notin Acks
BY DEF Acks, ACK_OK_CODE, ACK_REJECT_CODE, ACK_FINAL_CODE, WaitOver

\* The steps of an accelerator's own code preserve the types.
LEMMA UserTypeOK ==
  ASSUME TypeOK, NEW a \in Accs,
         \/ \E p \in Parents : Start(a, p)
         \/ End(a)
         \/ \E s \in Shapes : Create(a, s)
         \/ CreateAgain(a) \/ Created(a) \/ Wait(a) \/ Waited(a)
  PROVE  TypeOK'
<1>1. ASSUME NEW p \in Parents, Start(a, p) PROVE TypeOK'
  <2>1. /\ toRun' \subseteq Parents
        /\ pc' \in [Accs -> {"idle", "run", "create", "join", "wait"}]
        /\ taskId' \in [Accs -> Parents \cup {NoTask}]
        /\ components' \in [Accs -> Nat]
    BY <1>1 DEF TypeOK, Start
  <2>2. \A b \in Accs : pc'[b] # "idle" => taskId'[b] \in Parents
    BY <1>1 DEF TypeOK, Start
  <2> QED
    BY <1>1, <2>1, <2>2 DEF TypeOK, Start
<1>2. CASE End(a)
  BY <1>2 DEF TypeOK, End
<1>3. ASSUME NEW s \in Shapes, Create(a, s) PROVE TypeOK'
  <2> DEFINE c == [deps |-> s.deps, copies |-> s.copies, args |-> s.args,
                   currentNumDeps |-> s.deps]
  <2>1. c \in Creation
    BY FpgaSpawnAssumption DEF Creation
  <2>2. CreatePacket(a, c) \in Packets
    BY <1>3, <2>1, PacketsTyped DEF Create
  <2>3. outPort' \in [Accs -> Seq(Packets)]
    BY <1>3, <2>2, SendTyped DEF Create
  <2> HIDE DEF c
  <2>4. creation' = [creation EXCEPT ![a] = c] /\ pc' = [pc EXCEPT ![a] = "create"]
        /\ pc[a] = "run" /\ UNCHANGED <<toRun, taskId, components, inPort, tasks>>
    BY <1>3 DEF Create, c
  <2> QED
    BY <2>1, <2>3, <2>4 DEF TypeOK, Creation
<1>4. CASE CreateAgain(a)
  <2>1. PICK ack \in Acks \ {ACK_OK_CODE} :
          LET c == [creation[a] EXCEPT !.currentNumDeps =
                      IF ack = ACK_FINAL_CODE THEN 0 ELSE creation[a].deps] IN
          /\ Read(a, ack)
          /\ creation' = [creation EXCEPT ![a] = c]
          /\ Send(a, CreatePacket(a, c))
    BY <1>4 DEF CreateAgain
  <2> DEFINE c == [creation[a] EXCEPT !.currentNumDeps =
                     IF ack = ACK_FINAL_CODE THEN 0 ELSE creation[a].deps]
  <2>2. c \in Creation
    BY DEF TypeOK, Creation
  <2>3. CreatePacket(a, c) \in Packets
    BY <1>4, <2>2, PacketsTyped DEF CreateAgain
  <2>4. outPort' \in [Accs -> Seq(Packets)]
    BY <2>1, <2>3, SendTyped
  <2>5. inPort' \in [Accs -> Seq(Acks \cup {WaitOver})]
    BY <2>1, ReadTyped
  <2>6. creation' = [creation EXCEPT ![a] = c]
    BY <2>1
  <2> HIDE DEF c
  <2> QED
    BY <1>4, <2>2, <2>4, <2>5, <2>6 DEF CreateAgain, TypeOK, Creation
<1>5. CASE Created(a)
  <2>1. inPort' \in [Accs -> Seq(Acks \cup {WaitOver})]
    BY <1>5, ReadTyped DEF Created
  <2>2. components' \in [Accs -> Nat]
    BY <1>5 DEF Created, TypeOK
  <2>3. /\ pc' \in [Accs -> {"idle", "run", "create", "join", "wait"}]
        /\ \A b \in Accs : pc'[b] # "idle" => pc[b] # "idle"
    BY <1>5 DEF Created, TypeOK
  <2> QED
    BY <1>5, <2>1, <2>2, <2>3 DEF Created, TypeOK
<1>6. CASE Wait(a)
  <2>1. WaitPacket(a) \in Packets
    BY <1>6, PacketsTyped DEF Wait
  <2>2. outPort' \in [Accs -> Seq(Packets)]
    BY <1>6, <2>1, SendTyped DEF Wait
  <2> QED
    BY <1>6, <2>2 DEF Wait, TypeOK
<1>7. CASE Waited(a)
  <2>1. inPort' \in [Accs -> Seq(Acks \cup {WaitOver})]
    BY <1>7, ReadTyped DEF Waited
  <2> QED
    BY <1>7, <2>1 DEF Waited, TypeOK
<1> QED
  BY <1>1, <1>2, <1>3, <1>4, <1>5, <1>6, <1>7

\* The steps of the units and of the children preserve the types.
LEMMA HardwareTypeOK ==
  ASSUME TypeOK,
         \/ \E a \in Accs : Unit(a)
         \/ \E i \in DOMAIN tasks : Child(i)
  PROVE  TypeOK'
<1>1. ASSUME NEW a \in Accs, Take(a), NEW w \in Acks \cup {WaitOver}, Answer(a, w),
             tasks' \in Seq(Children), UNCHANGED <<toRun, pc, taskId, components, creation>>
      PROVE  TypeOK'
  <2>1. /\ outPort' \in [Accs -> Seq(Packets)]
        /\ inPort' \in [Accs -> Seq(Acks \cup {WaitOver})]
    BY <1>1, TakeTyped, AnswerTyped
  <2> QED
    BY <1>1, <2>1 DEF TypeOK
<1>2. ASSUME NEW a \in Accs, Accept(a) PROVE TypeOK'
  <2> DEFINE p == Head(outPort[a])
             t == [parent |-> p.parent, num |-> p.num, state |-> "queued"]
  <2>1. p \in Packets
    BY <1>2, TakeTyped DEF Accept
  <2>2. t \in Children
    BY <2>1 DEF Packets, Children
  <2>3. tasks' = Append(tasks, t)
    BY <1>2 DEF Accept
  <2>4. tasks' \in Seq(Children)
    BY <2>2, <2>3, AppendProperties DEF TypeOK
  <2> QED
    BY <1>1, <1>2, <2>4, AnswerWords DEF Accept
<1>3. ASSUME NEW a \in Accs, Reject(a) \/ Final(a) PROVE TypeOK'
  BY <1>1, <1>3, AnswerWords DEF Reject, Final, TypeOK
<1>4. ASSUME NEW a \in Accs, EndWait(a) PROVE TypeOK'
  <2> DEFINE counted == ChildrenOf(Head(outPort[a]).parent) \cap InState("counted")
  <2>1. tasks' = [i \in DOMAIN tasks |->
                    IF i \in counted THEN [tasks[i] EXCEPT !.state = "joined"] ELSE tasks[i]]
    BY <1>4 DEF EndWait
  <2> HIDE DEF counted
  <2>2. \A i \in DOMAIN tasks : tasks[i] \in Children
    BY DEF TypeOK
  <2>3. \A i \in DOMAIN tasks : tasks'[i] \in Children
    BY <2>1, <2>2 DEF Children
  <2>4. tasks' = [i \in DOMAIN tasks |-> tasks'[i]]
    BY <2>1
  <2>5. tasks' \in Seq(Children)
    BY <2>3, <2>4, Replaced DEF TypeOK
  <2> QED
    BY <1>1, <1>4, <2>5, AnswerWords DEF EndWait
<1>5. ASSUME NEW i \in DOMAIN tasks, Child(i) PROVE TypeOK'
  <2>1. PICK st \in {"running", "finished", "counted"} :
          /\ tasks' = [tasks EXCEPT ![i].state = st]
          /\ UNCHANGED <<toRun, pc, taskId, components, creation, outPort, inPort>>
    BY <1>5 DEF Child, Run, Finish, CountFinished, Move
  <2>2. \A j \in DOMAIN tasks : tasks[j] \in Children
    BY DEF TypeOK
  <2>3. \A j \in DOMAIN tasks : tasks'[j] \in Children
    BY <2>1, <2>2 DEF Children
  <2>4. tasks' = [j \in DOMAIN tasks |-> tasks'[j]]
    BY <2>1
  <2>5. tasks' \in Seq(Children)
    BY <2>3, <2>4, Replaced DEF TypeOK
  <2> QED
    BY <2>1, <2>5 DEF TypeOK
<1> QED
  BY <1>2, <1>3, <1>4, <1>5 DEF Unit

\* Every step preserves the types.
LEMMA NextTypeOK == TypeOK /\ [Next]_vars => TypeOK'
<1>1. ASSUME TypeOK, UNCHANGED vars PROVE TypeOK'
  BY <1>1 DEF TypeOK, vars
<1> QED
  BY <1>1, UserTypeOK, HardwareTypeOK DEF Next

--------------------------------------------------------------------------------
(* The inductive invariant.                                                  *)

\* The part of CountsAgree that is about one accelerator.
Counted(a) ==
  pc[a] # "idle" =>
    Cardinality(Unjoined(taskId[a])) =
      IF inPort[a] = <<WaitOver>> THEN 0 ELSE components[a] + Unread(a, ACK_OK_CODE)

IInv == TypeOK /\ DialogueInv /\ CountsAgree /\ ChildNumbers

\* Initially no accelerator runs and no task has children.
LEMMA InitIInv == Init => IInv
<1> SUFFICES ASSUME Init PROVE IInv
  OBVIOUS
<1>1. \A p : ChildrenOf(p) = {} /\ Unjoined(p) = {}
  BY DEF Init, ChildrenOf, Unjoined
<1>2. DialogueInv
  BY <1>1 DEF Init, DialogueInv, Dialogue, Quiet
<1>3. CountsAgree /\ ChildNumbers
  BY <1>1 DEF Init, CountsAgree, ChildNumbers
<1> QED
  BY <1>2, <1>3, InitTypeOK DEF IInv

\* The words on the ports are told apart.
LEMMA OneWord ==
  /\ \A v, w : <<v>> = <<w>> <=> v = w
  /\ \A v : <<v>> # <<>> /\ Head(<<v>>) = v /\ Tail(<<v>>) = <<>>
<1>1. ASSUME NEW v, NEW w, <<v>> = <<w>> PROVE v = w
  <2>1. <<v>>[1] = <<w>>[1]
    BY <1>1
  <2> QED
    BY <2>1
<1> QED
  BY <1>1

\* The children of a task are finitely many.
LEMMA UnjoinedFinite ==
  ASSUME TypeOK, NEW p
  PROVE  IsFiniteSet(Unjoined(p)) /\ Unjoined(p) \subseteq 1..Len(tasks)
<1>1. Len(tasks) \in Nat /\ DOMAIN tasks = 1..Len(tasks)
  BY DEF TypeOK
<1>2. IsFiniteSet(1..Len(tasks))
  BY <1>1, FS_Interval
<1>3. Unjoined(p) \in SUBSET (1..Len(tasks))
  BY <1>1 DEF Unjoined, ChildrenOf
<1> QED
  BY <1>2, <1>3, FS_Subset

\* An accelerator that a step leaves alone, and whose children it leaves alone,
\* keeps its part of the invariant.
Kept(b) ==
  /\ pc'[b] = pc[b] /\ taskId'[b] = taskId[b] /\ components'[b] = components[b]
  /\ creation'[b] = creation[b] /\ outPort'[b] = outPort[b] /\ inPort'[b] = inPort[b]
  /\ pc[b] # "idle" => Unjoined(taskId[b])' = Unjoined(taskId[b])

\* Its question, the answers to it and its count are then what they were.
LEMMA KeptParts ==
  ASSUME NEW b \in Accs, Dialogue(b), Counted(b), Kept(b)
  PROVE  Dialogue(b)' /\ Counted(b)'
<1>1. CreatePacket(b, creation[b])' = CreatePacket(b, creation[b]) /\ WaitPacket(b)' = WaitPacket(b)
  BY DEF Kept, CreatePacket, WaitPacket, LastBits
<1>2. Question(b)' = Question(b) /\ Answers(b)' = Answers(b)
  BY <1>1 DEF Kept, Question, Answers
<1>3. Dialogue(b)'
  BY <1>2 DEF Kept, Dialogue, Quiet, Asked, Answered
<1>4. Counted(b)'
  BY DEF Kept, Counted, Unread
<1> QED
  BY <1>3, <1>4

\* A step of the accelerator a and its ports that touches no child and starts no task.
Local(a) ==
  /\ UNCHANGED <<tasks, toRun, taskId>>
  /\ pc'[a] # "idle" => pc[a] # "idle"
  /\ \A b \in Accs \ {a} :
       /\ pc'[b] = pc[b] /\ components'[b] = components[b] /\ creation'[b] = creation[b]
       /\ outPort'[b] = outPort[b] /\ inPort'[b] = inPort[b]

\* Of such a step only what it does to a has to be looked at.
LEMMA LocalStep ==
  ASSUME IInv, NEW a \in Accs, Local(a), Dialogue(a)', Counted(a)'
  PROVE  DialogueInv' /\ CountsAgree' /\ ChildNumbers'
<1>1. \A p : Unjoined(p)' = Unjoined(p) /\ ChildrenOf(p)' = ChildrenOf(p)
  BY DEF Local, Unjoined, ChildrenOf, InState
<1>2. ASSUME NEW b \in Accs PROVE Dialogue(b)' /\ Counted(b)'
  <2>1. CASE b # a
    <3>1. Unjoined(taskId[b])' = Unjoined(taskId[b])
      BY DEF Local, Unjoined, ChildrenOf, InState
    <3>2. Kept(b)
      BY <2>1, <3>1 DEF Local, Kept
    <3> QED
      BY <3>2, KeptParts DEF IInv, DialogueInv, CountsAgree, Counted
  <2> QED
    BY <2>1
<1>3. \A b \in Accs : pc'[b] # "idle" => pc[b] # "idle"
  BY DEF Local
<1>4. DialogueInv'
  BY <1>1, <1>2, <1>3 DEF Local, IInv, DialogueInv
<1>5. CountsAgree'
  BY <1>2 DEF CountsAgree, Counted
<1>6. ChildNumbers'
  BY <1>1 DEF Local, IInv, ChildNumbers
<1> QED
  BY <1>4, <1>5, <1>6

\* What an accelerator that reads an answer knows.
LEMMA AnswerRead ==
  ASSUME IInv, NEW a \in Accs, NEW w, Read(a, w), pc[a] \in {"create", "wait"}
  PROVE  outPort[a] = <<>> /\ inPort[a] = <<w>> /\ inPort'[a] = <<>>
<1>1. Answered(a)
  BY DEF IInv, DialogueInv, Dialogue, Asked, Read
<1>2. PICK v \in Answers(a) : inPort[a] = <<v>>
  BY <1>1 DEF Answered
<1>3. v = w /\ Tail(inPort[a]) = <<>>
  BY <1>2, OneWord DEF Read
<1>4. inPort'[a] = Tail(inPort[a])
  BY DEF Read, IInv, TypeOK
<1> QED
  BY <1>1, <1>2, <1>3, <1>4 DEF Answered

\* What the count of the children is when nothing is on the ports, or a request only.
LEMMA QuietCount ==
  ASSUME NEW a \in Accs, Counted(a), pc[a] # "idle", inPort[a] = <<>>, TypeOK
  PROVE  Cardinality(Unjoined(taskId[a])) = components[a]
BY OneWord DEF Counted, Unread, TypeOK

--------------------------------------------------------------------------------
(* One lemma per action: what it does to its accelerator.                    *)

\* A parent that starts has no children, and its accelerator counts from zero.
LEMMA StartStep ==
  ASSUME IInv, NEW a \in Accs, NEW p \in Parents, Start(a, p)
  PROVE  DialogueInv' /\ CountsAgree' /\ ChildNumbers'
<1> USE DEF IInv, TypeOK
<1>1. \A q : Unjoined(q)' = Unjoined(q) /\ ChildrenOf(q)' = ChildrenOf(q)
  BY DEF Start, Unjoined, ChildrenOf, InState
<1>2. Quiet(a) /\ ChildrenOf(p) = {} /\ \A b \in Accs : pc[b] # "idle" => taskId[b] # p
  BY DEF Start, DialogueInv, Dialogue
<1>3. /\ pc'[a] = "run" /\ taskId'[a] = p /\ components'[a] = 0
      /\ UNCHANGED <<outPort, inPort, creation>>
      /\ toRun' = toRun \ {p}
      /\ \A b \in Accs \ {a} : /\ pc'[b] = pc[b] /\ taskId'[b] = taskId[b]
                               /\ components'[b] = components[b]
  BY DEF Start
<1>4. ASSUME NEW b \in Accs PROVE Dialogue(b)' /\ Counted(b)'
  <2>1. CASE b = a
    <3>1. Dialogue(a)'
      BY <1>2, <1>3 DEF Dialogue, Quiet
    <3>2. Unjoined(p)' = {}
      BY <1>1, <1>2 DEF Unjoined
    <3>3. Unjoined(taskId[a])' = {}
      BY <1>3, <3>2
    <3>4. inPort'[a] = <<>>
      BY <1>2, <1>3 DEF Quiet
    <3>5. Counted(a)'
      BY <1>3, <3>3, <3>4, OneWord, FS_EmptySet DEF Counted, Unread
    <3> QED
      BY <2>1, <3>1, <3>5
  <2>2. CASE b # a
    <3>1. Kept(b)
      BY <1>1, <1>3, <2>2 DEF Kept
    <3> QED
      BY <3>1, KeptParts DEF DialogueInv, CountsAgree, Counted
  <2> QED
    BY <2>1, <2>2
<1>5. DialogueInv'
  <2>1. ASSUME NEW b \in Accs, NEW c \in Accs, b # c, pc'[b] # "idle", pc'[c] # "idle"
        PROVE  taskId'[b] # taskId'[c]
    BY <1>2, <1>3, <2>1 DEF DialogueInv
  <2>2. ASSUME NEW b \in Accs, pc'[b] # "idle" PROVE taskId'[b] \notin toRun'
    BY <1>3, <2>2 DEF DialogueInv
  <2>3. ASSUME NEW q \in toRun' PROVE ChildrenOf(q)' = {}
    BY <1>1, <1>3, <2>3 DEF DialogueInv
  <2> QED
    BY <1>4, <2>1, <2>2, <2>3 DEF DialogueInv
<1>6. CountsAgree'
  BY <1>4 DEF CountsAgree, Counted
<1>7. ChildNumbers'
  BY <1>1 DEF ChildNumbers, Start
<1> QED
  BY <1>5, <1>6, <1>7

\* A parent ends with nothing on its ports.
LEMMA EndStep ==
  ASSUME IInv, NEW a \in Accs, End(a)
  PROVE  DialogueInv' /\ CountsAgree' /\ ChildNumbers'
<1>1. Quiet(a)
  BY DEF IInv, DialogueInv, Dialogue, End
<1>2. Dialogue(a)' /\ Counted(a)' /\ Local(a)
  BY <1>1 DEF End, Dialogue, Quiet, Counted, Local, IInv, TypeOK
<1> QED
  BY <1>2, LocalStep

\* Sending on a port that holds nothing.
LEMMA FirstPacket ==
  ASSUME TypeOK, NEW a \in Accs, outPort[a] = <<>>, NEW p, Send(a, p)
  PROVE  outPort'[a] = <<p>>
<1>1. outPort'[a] = Append(<<>>, p)
  BY DEF TypeOK, Send
<1> QED
  BY <1>1

\* A creation is the first question.
LEMMA CreateStep ==
  ASSUME IInv, NEW a \in Accs, NEW s \in Shapes, Create(a, s)
  PROVE  DialogueInv' /\ CountsAgree' /\ ChildNumbers'
<1> DEFINE c == [deps |-> s.deps, copies |-> s.copies, args |-> s.args,
                 currentNumDeps |-> s.deps]
<1>1. Quiet(a)
  BY DEF IInv, DialogueInv, Dialogue, Create
<1>2. Send(a, CreatePacket(a, c)) /\ creation'[a] = c /\ pc'[a] = "create" /\ pc[a] = "run"
  BY DEF Create, IInv, TypeOK
<1>3. outPort'[a] = <<CreatePacket(a, c)>>
  BY <1>1, <1>2, FirstPacket DEF Quiet, IInv
<1>4. Local(a) /\ UNCHANGED <<components, inPort>>
  BY <1>2 DEF Local, Create, Send, IInv, TypeOK
<1>5. Question(a)' = CreatePacket(a, c)
  BY <1>2, <1>4 DEF Question, CreatePacket, LastBits, Local
<1> HIDE DEF c
<1>6. Dialogue(a)'
  BY <1>1, <1>2, <1>3, <1>4, <1>5 DEF Dialogue, Asked, Quiet
<1>7. Unjoined(taskId[a])' = Unjoined(taskId[a])
  BY <1>4 DEF Local, Unjoined, ChildrenOf, InState
<1>8. Counted(a)'
  BY <1>2, <1>4, <1>7 DEF Counted, Unread, IInv, CountsAgree, Local
<1> QED
  BY <1>4, <1>6, <1>8, LocalStep

\* A retry asks again about the same child, with the same number.
LEMMA CreateAgainStep ==
  ASSUME IInv, NEW a \in Accs, CreateAgain(a)
  PROVE  DialogueInv' /\ CountsAgree' /\ ChildNumbers'
<1>1. PICK ack \in Acks \ {ACK_OK_CODE} :
        LET c == [creation[a] EXCEPT !.currentNumDeps =
                    IF ack = ACK_FINAL_CODE THEN 0 ELSE creation[a].deps] IN
        /\ Read(a, ack)
        /\ creation' = [creation EXCEPT ![a] = c]
        /\ Send(a, CreatePacket(a, c))
  BY DEF CreateAgain
<1> DEFINE c == [creation[a] EXCEPT !.currentNumDeps =
                   IF ack = ACK_FINAL_CODE THEN 0 ELSE creation[a].deps]
<1>2. /\ Read(a, ack) /\ creation'[a] = c /\ Send(a, CreatePacket(a, c))
      /\ pc[a] = "create" /\ pc'[a] = "create"
  BY <1>1 DEF CreateAgain, IInv, TypeOK
<1>3. outPort[a] = <<>> /\ inPort[a] = <<ack>> /\ inPort'[a] = <<>>
  BY <1>2, AnswerRead
<1>4. outPort'[a] = <<CreatePacket(a, c)>>
  BY <1>2, <1>3, FirstPacket DEF IInv
<1>5. Local(a) /\ UNCHANGED components
  BY <1>1 DEF Local, CreateAgain, Send, Read, IInv, TypeOK
<1>6. Question(a)' = CreatePacket(a, c)
  BY <1>2, <1>5 DEF Question, CreatePacket, LastBits, Local
<1> HIDE DEF c
<1>7. Dialogue(a)'
  BY <1>2, <1>3, <1>4, <1>6 DEF Dialogue, Asked
<1>8. Unjoined(taskId[a])' = Unjoined(taskId[a])
  BY <1>5 DEF Local, Unjoined, ChildrenOf, InState
<1>9. Counted(a)'
  <2>1. inPort[a] # <<WaitOver>> /\ inPort[a] # <<ACK_OK_CODE>>
    BY <1>3, OneWord, AnswerWords
  <2>2. inPort'[a] # <<WaitOver>> /\ inPort'[a] # <<ACK_OK_CODE>>
    BY <1>3, OneWord
  <2> QED
    BY <1>2, <1>5, <1>8, <2>1, <2>2 DEF Counted, Unread, IInv, CountsAgree, Local
<1> QED
  BY <1>5, <1>7, <1>9, LocalStep

\* The child whose acceptance is read was counted as unread before.
LEMMA CreatedStep ==
  ASSUME IInv, NEW a \in Accs, Created(a)
  PROVE  DialogueInv' /\ CountsAgree' /\ ChildNumbers'
<1>1. /\ pc[a] = "create" /\ pc'[a] \in {"run", "join"}
      /\ Read(a, ACK_OK_CODE) /\ components'[a] = components[a] + 1
  BY DEF Created, IInv, TypeOK
<1>2. outPort[a] = <<>> /\ inPort[a] = <<ACK_OK_CODE>> /\ inPort'[a] = <<>>
  BY <1>1, AnswerRead
<1>3. Local(a) /\ UNCHANGED outPort
  BY <1>1 DEF Local, Created, Read, IInv, TypeOK
<1>4. Dialogue(a)'
  BY <1>1, <1>2, <1>3 DEF Dialogue, Quiet
<1>5. Unjoined(taskId[a])' = Unjoined(taskId[a])
  BY <1>3 DEF Local, Unjoined, ChildrenOf, InState
<1>6. Counted(a)'
  <2>1. inPort[a] # <<WaitOver>>
    BY <1>2, OneWord, AnswerWords
  <2>2. inPort'[a] # <<WaitOver>> /\ inPort'[a] # <<ACK_OK_CODE>>
    BY <1>2, OneWord
  <2>3. components[a] \in Nat
    BY DEF IInv, TypeOK
  <2>4. Cardinality(Unjoined(taskId[a])) = components[a] + 1
    BY <1>1, <1>2, <2>1 DEF IInv, CountsAgree, Unread
  <2> QED
    BY <1>1, <1>5, <2>2, <2>3, <2>4 DEF Counted, Unread
<1> QED
  BY <1>3, <1>4, <1>6, LocalStep

\* A taskwait asks with the count there is.
LEMMA WaitStep ==
  ASSUME IInv, NEW a \in Accs, Wait(a)
  PROVE  DialogueInv' /\ CountsAgree' /\ ChildNumbers'
<1>1. Quiet(a)
  BY DEF IInv, DialogueInv, Dialogue, Wait
<1>2. Send(a, WaitPacket(a)) /\ pc'[a] = "wait" /\ pc[a] # "idle"
  BY DEF Wait, IInv, TypeOK
<1>3. outPort'[a] = <<WaitPacket(a)>>
  BY <1>1, <1>2, FirstPacket DEF Quiet, IInv
<1>4. Local(a) /\ UNCHANGED <<components, inPort>>
  BY <1>2 DEF Local, Wait, Send, IInv, TypeOK
<1>5. Question(a)' = WaitPacket(a)
  BY <1>2, <1>4 DEF Question, WaitPacket, Local
<1>6. Dialogue(a)'
  BY <1>1, <1>2, <1>3, <1>4, <1>5 DEF Dialogue, Asked, Quiet
<1>7. Unjoined(taskId[a])' = Unjoined(taskId[a])
  BY <1>4 DEF Local, Unjoined, ChildrenOf, InState
<1>8. Counted(a)'
  BY <1>2, <1>4, <1>7 DEF Counted, Unread, IInv, CountsAgree, Local
<1> QED
  BY <1>4, <1>6, <1>8, LocalStep

\* When the answer of a taskwait is read no child is left, and the count restarts.
LEMMA WaitedStep ==
  ASSUME IInv, NEW a \in Accs, Waited(a)
  PROVE  DialogueInv' /\ CountsAgree' /\ ChildNumbers'
<1>1. /\ pc[a] = "wait" /\ pc'[a] = "run" /\ Read(a, WaitOver) /\ components'[a] = 0
  BY DEF Waited, IInv, TypeOK
<1>2. outPort[a] = <<>> /\ inPort[a] = <<WaitOver>> /\ inPort'[a] = <<>>
  BY <1>1, AnswerRead
<1>3. Local(a) /\ UNCHANGED outPort
  BY <1>1 DEF Local, Waited, Read, IInv, TypeOK
<1>4. Dialogue(a)'
  BY <1>1, <1>2, <1>3 DEF Dialogue, Quiet
<1>5. Unjoined(taskId[a])' = Unjoined(taskId[a])
  BY <1>3 DEF Local, Unjoined, ChildrenOf, InState
<1>6. Counted(a)'
  <2>1. inPort'[a] # <<WaitOver>> /\ inPort'[a] # <<ACK_OK_CODE>>
    BY <1>2, OneWord
  <2>2. Cardinality(Unjoined(taskId[a])) = 0
    BY <1>1, <1>2 DEF IInv, CountsAgree
  <2> QED
    BY <1>1, <1>5, <2>1, <2>2 DEF Counted, Unread
<1> QED
  BY <1>3, <1>4, <1>6, LocalStep

\* A unit takes the question of an accelerator.
LEMMA Taken ==
  ASSUME IInv, NEW a \in Accs, Take(a), NEW w, Answer(a, w)
  PROVE  /\ Asked(a) /\ pc[a] \in {"create", "wait"} /\ Head(outPort[a]) = Question(a)
         /\ outPort'[a] = <<>> /\ inPort'[a] = <<w>>
<1>1. Asked(a) /\ pc[a] \in {"create", "wait"}
  BY DEF IInv, DialogueInv, Dialogue, Quiet, Answered, Take, Arrived
<1>2. Head(outPort[a]) = Question(a) /\ Tail(outPort[a]) = <<>>
  BY <1>1, OneWord DEF Asked
<1>3. inPort'[a] = Append(<<>>, w) /\ outPort'[a] = Tail(outPort[a])
  BY <1>1 DEF Asked, Answer, Take, IInv, TypeOK
<1> QED
  BY <1>1, <1>2, <1>3

\* Only creations go to the scheduler and to the dependences unit.
LEMMA Destinations ==
  ASSUME NEW a \in Accs
  PROVE  /\ Question(a).dest = TASKWAIT <=> pc[a] = "wait"
         /\ Question(a).dest \in {SCHED, DEPS} <=> pc[a] # "wait"
BY DEF Question, WaitPacket, CreatePacket, TASKWAIT, SCHED, DEPS

\* A refusal leaves the counts alone.
LEMMA RefusalStep ==
  ASSUME IInv, NEW a \in Accs, Reject(a) \/ Final(a)
  PROVE  DialogueInv' /\ CountsAgree' /\ ChildNumbers'
<1>1. PICK w \in {ACK_REJECT_CODE, ACK_FINAL_CODE} :
        /\ Take(a) /\ Answer(a, w) /\ Head(outPort[a]).dest \in {SCHED, DEPS}
        /\ UNCHANGED <<toRun, pc, taskId, components, creation, tasks>>
  BY DEF Reject, Final
<1>2. /\ Asked(a) /\ pc[a] \in {"create", "wait"} /\ Head(outPort[a]) = Question(a)
      /\ outPort'[a] = <<>> /\ inPort'[a] = <<w>>
  BY <1>1, Taken
<1>3. pc[a] = "create"
  BY <1>1, <1>2, Destinations
<1>4. w \in Acks /\ w # WaitOver /\ w # ACK_OK_CODE
  BY DEF Acks, ACK_REJECT_CODE, ACK_FINAL_CODE, ACK_OK_CODE, WaitOver
<1>5. Local(a)
  BY <1>1 DEF Local, Take, Answer, IInv, TypeOK
<1>6. Dialogue(a)'
  BY <1>1, <1>2, <1>3, <1>4 DEF Dialogue, Answered, Answers
<1>7. Unjoined(taskId[a])' = Unjoined(taskId[a])
  BY <1>5 DEF Local, Unjoined, ChildrenOf, InState
<1>8. Counted(a)'
  <2>1. inPort[a] # <<WaitOver>> /\ inPort[a] # <<ACK_OK_CODE>>
    BY <1>2, OneWord DEF Asked
  <2>2. inPort'[a] # <<WaitOver>> /\ inPort'[a] # <<ACK_OK_CODE>>
    BY <1>2, <1>4, OneWord
  <2> QED
    BY <1>1, <1>3, <1>7, <2>1, <2>2 DEF Counted, Unread, IInv, CountsAgree
<1> QED
  BY <1>5, <1>6, <1>8, LocalStep

\* A step of a unit with an accelerator that waits for it.
Served(a) ==
  /\ UNCHANGED <<toRun, pc, taskId, components, creation>>
  /\ \A b \in Accs \ {a} : outPort'[b] = outPort[b] /\ inPort'[b] = inPort[b]

\* Of a step that changes only children of the parent on a, the other accelerators
\* keep their part of the invariant.
LEMMA ServedOthers ==
  ASSUME IInv, NEW a \in Accs, pc[a] # "idle", Served(a),
         \A q : q # taskId[a] => Unjoined(q)' = Unjoined(q) /\ ChildrenOf(q)' = ChildrenOf(q),
         Dialogue(a)', Counted(a)'
  PROVE  DialogueInv' /\ CountsAgree'
<1>1. ASSUME NEW b \in Accs PROVE Dialogue(b)' /\ Counted(b)'
  <2>1. CASE b # a
    <3>1. ASSUME pc[b] # "idle" PROVE Unjoined(taskId[b])' = Unjoined(taskId[b])
      <4>0. PICK q : q = taskId[b]
        OBVIOUS
      <4>1. q # taskId[a]
        BY <2>1, <3>1, <4>0 DEF IInv, DialogueInv
      <4>2. Unjoined(q)' = Unjoined(q)
        BY <4>1
      <4>3. taskId'[b] = q
        BY <4>0 DEF Served
      <4> QED
        BY <4>0, <4>2, <4>3 DEF Unjoined, ChildrenOf
    <3>2. Kept(b)
      BY <2>1, <3>1 DEF Served, Kept
    <3> QED
      BY <3>2, KeptParts DEF IInv, DialogueInv, CountsAgree, Counted
  <2> QED
    BY <2>1
<1>2. ASSUME NEW q \in toRun' PROVE ChildrenOf(q)' = {}
  <2>1. q \in toRun /\ q # taskId[a]
    BY DEF Served, IInv, DialogueInv
  <2> QED
    BY <2>1 DEF IInv, DialogueInv
<1>3. DialogueInv'
  BY <1>1, <1>2 DEF Served, IInv, DialogueInv
<1> QED
  BY <1>1, <1>3 DEF CountsAgree, Counted

\* The child accepted is the last, its number is the count of those before it.
LEMMA AcceptStep ==
  ASSUME IInv, NEW a \in Accs, Accept(a)
  PROVE  DialogueInv' /\ CountsAgree' /\ ChildNumbers'
<1>1. /\ Asked(a) /\ pc[a] \in {"create", "wait"} /\ Head(outPort[a]) = Question(a)
      /\ outPort'[a] = <<>> /\ inPort'[a] = <<ACK_OK_CODE>>
  BY Taken DEF Accept
<1>2. pc[a] = "create"
  BY <1>1, Destinations DEF Accept
<1>p. PICK p \in Parents : p = taskId[a]
  BY <1>2 DEF IInv, TypeOK
<1>n. PICK n \in Nat : n = Len(tasks) + 1
  BY DEF IInv, TypeOK
<1> DEFINE t == [parent |-> p, num |-> components[a], state |-> "queued"]
<1>3. tasks' = Append(tasks, t)
  BY <1>1, <1>2, <1>p DEF Accept, Question, CreatePacket
<1>4. t \in Children /\ tasks \in Seq(Children) /\ Len(tasks) \in Nat
  BY <1>2, <1>p DEF IInv, TypeOK, Children
<1>5. /\ DOMAIN tasks = 1..Len(tasks) /\ DOMAIN tasks' = 1..n
      /\ \A i \in 1..Len(tasks) : tasks'[i] = tasks[i]
      /\ tasks'[n] = t
  BY <1>3, <1>4, <1>n, AppendProperties
<1>6. \A q : q # p => Unjoined(q)' = Unjoined(q) /\ ChildrenOf(q)' = ChildrenOf(q)
  <2> SUFFICES ASSUME NEW q, q # p
               PROVE  Unjoined(q)' = Unjoined(q) /\ ChildrenOf(q)' = ChildrenOf(q)
    OBVIOUS
  <2>1. ChildrenOf(q)' = ChildrenOf(q)
    BY <1>4, <1>5, <1>n DEF ChildrenOf
  <2>2. Unjoined(q)' = Unjoined(q)
    BY <1>4, <1>5, <1>n DEF Unjoined, ChildrenOf, InState
  <2> QED
    BY <2>1, <2>2
<1>7. Unjoined(p)' = Unjoined(p) \cup {n}
  <2>1. Unjoined(p)' = {i \in 1..n : tasks'[i].parent = p /\ tasks'[i].state # "joined"}
    BY <1>5 DEF Unjoined, ChildrenOf, InState
  <2>2. Unjoined(p) = {i \in 1..Len(tasks) : tasks[i].parent = p /\ tasks[i].state # "joined"}
    BY <1>5 DEF Unjoined, ChildrenOf, InState
  <2>3. t.parent = p /\ t.state # "joined"
    OBVIOUS
  <2> HIDE DEF t
  <2> QED
    BY <1>4, <1>5, <1>n, <2>1, <2>2, <2>3
<1>8. /\ IsFiniteSet(Unjoined(p)) /\ Unjoined(p) \subseteq 1..Len(tasks) /\ n \notin Unjoined(p)
      /\ Cardinality(Unjoined(p)) = components[a]
      /\ components[a] \in Nat
  <2>1. IsFiniteSet(Unjoined(p)) /\ Unjoined(p) \subseteq 1..Len(tasks)
    BY UnjoinedFinite DEF IInv
  <2>2. Cardinality(Unjoined(p)) = components[a]
    BY <1>1, <1>2, <1>p, QuietCount DEF IInv, CountsAgree, Counted, Asked
  <2> QED
    BY <1>4, <1>n, <2>1, <2>2 DEF IInv, TypeOK
<1>9. Cardinality(Unjoined(p)') = components[a] + 1
  BY <1>7, <1>8, FS_AddElement
<1>10. Dialogue(a)'
  BY <1>1, <1>2, AnswerWords DEF Accept, Dialogue, Answered, Answers
<1>11. Counted(a)'
  <2>1. inPort'[a] # <<WaitOver>>
    BY <1>1, OneWord, AnswerWords
  <2>2. Unjoined(taskId[a])' = Unjoined(p)'
    BY <1>p DEF Accept, Unjoined, ChildrenOf
  <2> QED
    BY <1>1, <1>9, <2>1, <2>2 DEF Accept, Counted, Unread
<1>12. Served(a)
  BY DEF Accept, Take, Answer, Served, IInv, TypeOK
<1>13. DialogueInv' /\ CountsAgree'
  BY <1>2, <1>6, <1>p, <1>10, <1>11, <1>12, ServedOthers
<1>14. ASSUME NEW q \in Parents, NEW i \in Unjoined(q)'
       PROVE  tasks'[i].num = Cardinality({j \in Unjoined(q)' : j < i})
  <2>1. CASE q # p
    <3>1. i \in 1..Len(tasks) /\ i \in Unjoined(q) /\ Unjoined(q)' = Unjoined(q)
      BY <1>5, <1>6, <1>14, <1>n, <2>1 DEF Unjoined, ChildrenOf
    <3> QED
      BY <1>5, <3>1 DEF IInv, ChildNumbers
  <2>2. CASE q = p /\ i = n
    <3>1. {j \in Unjoined(p)' : j < n} = Unjoined(p)
      BY <1>4, <1>7, <1>8, <1>n
    <3>2. tasks'[n].num = components[a]
      BY <1>5
    <3> QED
      BY <1>8, <2>2, <3>1, <3>2
  <2>3. CASE q = p /\ i # n
    <3>1. i \in Unjoined(p) /\ i \in 1..Len(tasks)
      BY <1>7, <1>8, <1>14, <2>3
    <3>2. {j \in Unjoined(p)' : j < i} = {j \in Unjoined(p) : j < i}
      BY <1>4, <1>7, <1>8, <1>n, <3>1
    <3>3. tasks'[i].num = tasks[i].num
      BY <1>5, <3>1
    <3> QED
      BY <2>3, <3>1, <3>2, <3>3 DEF IInv, ChildNumbers
  <2> QED
    BY <2>1, <2>2, <2>3
<1> QED
  BY <1>13, <1>14 DEF ChildNumbers

\* The answer of a taskwait is sent when every child not joined has been counted.
LEMMA EndWaitStep ==
  ASSUME IInv, NEW a \in Accs, EndWait(a)
  PROVE  DialogueInv' /\ CountsAgree' /\ ChildNumbers'
<1>1. /\ Asked(a) /\ pc[a] \in {"create", "wait"} /\ Head(outPort[a]) = Question(a)
      /\ outPort'[a] = <<>> /\ inPort'[a] = <<WaitOver>>
  BY Taken DEF EndWait
<1>2. pc[a] = "wait"
  BY <1>1, Destinations DEF EndWait
<1>p. PICK p \in Parents : p = taskId[a]
  BY <1>2 DEF IInv, TypeOK
<1> DEFINE counted == ChildrenOf(p) \cap InState("counted")
<1>3. /\ Cardinality(counted) >= components[a]
      /\ tasks' = [i \in DOMAIN tasks |->
                     IF i \in counted THEN [tasks[i] EXCEPT !.state = "joined"] ELSE tasks[i]]
  <2>1. Head(outPort[a]).parent = p /\ Head(outPort[a]).num = components[a]
    BY <1>1, <1>2, <1>p DEF Question, WaitPacket
  <2> QED
    BY <2>1 DEF EndWait
<1>4. counted = Unjoined(p)
  <2>1. IsFiniteSet(Unjoined(p)) /\ counted \in SUBSET Unjoined(p)
    BY UnjoinedFinite DEF IInv, Unjoined, InState
  <2>2. Cardinality(Unjoined(p)) = components[a] /\ components[a] \in Nat
    BY <1>1, <1>2, <1>p, QuietCount DEF IInv, CountsAgree, Counted, Asked, TypeOK
  <2>3. IsFiniteSet(counted) /\ Cardinality(counted) <= Cardinality(Unjoined(p))
    BY <2>1, FS_Subset
  <2>4. Cardinality(counted) \in Nat
    BY <2>3, FS_CardinalityType
  <2>5. Cardinality(Unjoined(p)) = Cardinality(counted)
    BY <1>3, <2>2, <2>3, <2>4
  <2> QED
    BY <2>1, <2>5, FS_Subset
<1> HIDE DEF counted
<1>5. /\ DOMAIN tasks' = DOMAIN tasks
      /\ \A i \in DOMAIN tasks :
           /\ tasks'[i].parent = tasks[i].parent /\ tasks'[i].num = tasks[i].num
           /\ tasks'[i].state = IF i \in Unjoined(p) THEN "joined" ELSE tasks[i].state
  <2>1. \A i \in DOMAIN tasks : tasks[i] \in Children
    BY DEF IInv, TypeOK
  <2> QED
    BY <1>3, <1>4, <2>1 DEF Children
<1>6. \A q : ChildrenOf(q)' = ChildrenOf(q)
  BY <1>5 DEF ChildrenOf
<1>7. Unjoined(p)' = {}
  BY <1>5 DEF Unjoined, ChildrenOf, InState
<1>8. \A q : q # p => Unjoined(q)' = Unjoined(q)
  BY <1>5 DEF Unjoined, ChildrenOf, InState
<1>9. Dialogue(a)'
  BY <1>1, <1>2 DEF EndWait, Dialogue, Answered, Answers
<1>10. Counted(a)'
  <2>1. Unjoined(taskId[a])' = Unjoined(p)'
    BY <1>p DEF EndWait, Unjoined, ChildrenOf
  <2> QED
    BY <1>1, <1>7, <2>1, FS_EmptySet DEF Counted
<1>11. Served(a)
  BY DEF EndWait, Take, Answer, Served, IInv, TypeOK
<1>12. DialogueInv' /\ CountsAgree'
  BY <1>2, <1>p, <1>6, <1>8, <1>9, <1>10, <1>11, ServedOthers
<1>13. ASSUME NEW q \in Parents, NEW i \in Unjoined(q)'
       PROVE  tasks'[i].num = Cardinality({j \in Unjoined(q)' : j < i})
  <2>1. q # p /\ Unjoined(q)' = Unjoined(q) /\ i \in Unjoined(q)
    BY <1>7, <1>8, <1>13
  <2>2. tasks'[i].num = tasks[i].num
    BY <1>5, <2>1 DEF Unjoined, ChildrenOf
  <2> QED
    BY <2>1, <2>2 DEF IInv, ChildNumbers
<1> QED
  BY <1>12, <1>13 DEF ChildNumbers

\* Children that run and end are nobody's question.
LEMMA ChildStep ==
  ASSUME IInv, NEW k \in DOMAIN tasks, Child(k)
  PROVE  DialogueInv' /\ CountsAgree' /\ ChildNumbers'
<1>1. PICK st \in {"running", "finished", "counted"} :
        /\ tasks[k].state # "joined"
        /\ tasks' = [tasks EXCEPT ![k].state = st]
        /\ UNCHANGED <<toRun, pc, taskId, components, creation, outPort, inPort>>
  BY DEF Child, Run, Finish, CountFinished, Move
<1>2. /\ DOMAIN tasks' = DOMAIN tasks
      /\ \A i \in DOMAIN tasks :
           /\ tasks'[i].parent = tasks[i].parent /\ tasks'[i].num = tasks[i].num
           /\ tasks'[i].state = "joined" <=> tasks[i].state = "joined"
  <2>1. \A i \in DOMAIN tasks : tasks[i] \in Children
    BY DEF IInv, TypeOK
  <2> QED
    BY <1>1, <2>1 DEF Children
<1>3. \A q : ChildrenOf(q)' = ChildrenOf(q) /\ Unjoined(q)' = Unjoined(q)
  BY <1>2 DEF Unjoined, ChildrenOf, InState
<1>4. ASSUME NEW b \in Accs PROVE Dialogue(b)' /\ Counted(b)'
  <2>1. PICK q : q = taskId[b]
    OBVIOUS
  <2>2. Unjoined(taskId[b])' = Unjoined(taskId[b])
    <3>1. Unjoined(q)' = Unjoined(q) /\ taskId'[b] = q
      BY <1>1, <1>3, <2>1
    <3> QED
      BY <2>1, <3>1 DEF Unjoined, ChildrenOf
  <2>3. Kept(b)
    BY <1>1, <2>2 DEF Kept
  <2> QED
    BY <2>3, KeptParts DEF IInv, DialogueInv, CountsAgree, Counted
<1>5. DialogueInv'
  BY <1>1, <1>3, <1>4 DEF IInv, DialogueInv
<1>6. CountsAgree'
  BY <1>4 DEF CountsAgree, Counted
<1>7. ASSUME NEW q \in Parents, NEW i \in Unjoined(q)'
      PROVE  tasks'[i].num = Cardinality({j \in Unjoined(q)' : j < i})
  <2>1. Unjoined(q)' = Unjoined(q) /\ i \in Unjoined(q)
    BY <1>3, <1>7
  <2>2. tasks'[i].num = tasks[i].num
    BY <1>2, <2>1 DEF Unjoined, ChildrenOf
  <2> QED
    BY <2>1, <2>2 DEF IInv, ChildNumbers
<1> QED
  BY <1>5, <1>6, <1>7 DEF ChildNumbers

--------------------------------------------------------------------------------
(* The theorems.                                                             *)

\* The invariant is inductive.
LEMMA NextIInv == IInv /\ [Next]_vars => IInv'
<1> SUFFICES ASSUME IInv, [Next]_vars PROVE IInv'
  OBVIOUS
<1>1. TypeOK'
  BY NextTypeOK DEF IInv
<1>2. CASE UNCHANGED vars
  <2>1. \A q : ChildrenOf(q)' = ChildrenOf(q) /\ Unjoined(q)' = Unjoined(q)
    BY <1>2 DEF vars, Unjoined, ChildrenOf, InState
  <2>2. ASSUME NEW b \in Accs PROVE Dialogue(b)' /\ Counted(b)'
    <3>1. Kept(b)
      BY <1>2 DEF vars, Kept, Unjoined, ChildrenOf, InState
    <3> QED
      BY <3>1, KeptParts DEF IInv, DialogueInv, CountsAgree, Counted
  <2>3. DialogueInv'
    BY <1>2, <2>1, <2>2 DEF vars, IInv, DialogueInv
  <2>4. CountsAgree'
    BY <2>2 DEF CountsAgree, Counted
  <2>5. ChildNumbers'
    BY <1>2, <2>1 DEF vars, IInv, ChildNumbers
  <2> QED
    BY <1>1, <2>3, <2>4, <2>5 DEF IInv
<1>3. ASSUME NEW a \in Accs, NEW p \in Parents, Start(a, p) PROVE IInv'
  BY <1>1, <1>3, StartStep DEF IInv
<1>4. ASSUME NEW a \in Accs, End(a) PROVE IInv'
  BY <1>1, <1>4, EndStep DEF IInv
<1>5. ASSUME NEW a \in Accs, NEW s \in Shapes, Create(a, s) PROVE IInv'
  BY <1>1, <1>5, CreateStep DEF IInv
<1>6. ASSUME NEW a \in Accs, CreateAgain(a) PROVE IInv'
  BY <1>1, <1>6, CreateAgainStep DEF IInv
<1>7. ASSUME NEW a \in Accs, Created(a) PROVE IInv'
  BY <1>1, <1>7, CreatedStep DEF IInv
<1>8. ASSUME NEW a \in Accs, Wait(a) PROVE IInv'
  BY <1>1, <1>8, WaitStep DEF IInv
<1>9. ASSUME NEW a \in Accs, Waited(a) PROVE IInv'
  BY <1>1, <1>9, WaitedStep DEF IInv
<1>10. ASSUME NEW a \in Accs, Unit(a) PROVE IInv'
  BY <1>1, <1>10, AcceptStep, RefusalStep, EndWaitStep DEF IInv, Unit
<1>11. ASSUME NEW k \in DOMAIN tasks, Child(k) PROVE IInv'
  BY <1>1, <1>11, ChildStep DEF IInv
<1> QED
  BY <1>2, <1>3, <1>4, <1>5, <1>6, <1>7, <1>8, <1>9, <1>10, <1>11 DEF Next

\* The inductive invariant holds in every behaviour: one question of each
\* accelerator is under way, counted and numbered as the units see it.
THEOREM IInvAlways == Spec => []IInv
BY InitIInv, NextIInv, PTL DEF Spec

\* The state of creations, waits and children keeps its types, however often units refuse.
THEOREM TypesAlways == Spec => []TypeOK
<1>1. IInv => TypeOK
  BY DEF IInv
<1> QED
  BY <1>1, IInvAlways, PTL

\* An accelerator has one question under way at the most (a creation or a wait), and
\* what it reads on mcxx_inPort is the answer to the question it would ask now.
THEOREM DialogueAlways == Spec => []DialogueInv
<1>1. IInv => DialogueInv
  BY DEF IInv
<1> QED
  BY <1>1, IInvAlways, PTL

\* nanos_fpga_wg_wait_completion may skip the taskwait unit when its counter is 0,
\* and the counter it sends is the number of children there are to wait for.
THEOREM CountsAgreeAlways == Spec => [](TypeOK /\ DialogueInv /\ CountsAgree)
<1>1. IInv => TypeOK /\ DialogueInv /\ CountsAgree
  BY DEF IInv
<1> QED
  BY <1>1, IInvAlways, PTL

\* The number a child receives is its rank among those created since the last
\* taskwait, however often its creation was refused.
THEOREM ChildNumbersAlways == Spec => []ChildNumbers
<1>1. IInv => ChildNumbers
  BY DEF IInv
<1> QED
  BY <1>1, IInvAlways, PTL

--------------------------------------------------------------------------------
(* Packets on the ports.                                                     *)

\* The child that is being created has an argument when every child has.
HasArguments == \A a \in Accs : pc[a] = "create" => creation[a].args > 0

\* A creation takes its arguments from its shape, and a retry keeps them.
LEMMA NextHasArguments ==
  ASSUME \A s \in Shapes : s.args > 0, IInv, HasArguments, [Next]_vars
  PROVE  HasArguments'
<1> USE DEF IInv, TypeOK, HasArguments
<1>1. ASSUME NEW a \in Accs, NEW s \in Shapes, Create(a, s) PROVE HasArguments'
  BY <1>1 DEF Create
<1>2. ASSUME NEW a \in Accs, CreateAgain(a) PROVE HasArguments'
  <2>1. PICK m \in Nat : creation' = [creation EXCEPT ![a] = [@ EXCEPT !.currentNumDeps = m]]
    BY <1>2 DEF CreateAgain
  <2> QED
    BY <1>2, <2>1 DEF CreateAgain
<1>3. ASSUME UNCHANGED creation, \A b \in Accs : pc'[b] = "create" => pc[b] = "create"
      PROVE  HasArguments'
  BY <1>3
<1>4. ASSUME NEW a \in Accs,
             \/ \E p \in Parents : Start(a, p)
             \/ End(a) \/ Created(a) \/ Wait(a) \/ Waited(a) \/ Unit(a)
      PROVE  HasArguments'
  BY <1>3, <1>4 DEF Start, End, Created, Wait, Waited, Unit, Accept, Reject, Final, EndWait
<1>5. CASE (\E i \in DOMAIN tasks : Child(i)) \/ UNCHANGED vars
  BY <1>3, <1>5 DEF Child, Run, Finish, CountFinished, Move, vars
<1> QED
  BY <1>1, <1>2, <1>4, <1>5 DEF Next

\* A port holds the question of its accelerator or nothing, so its packet is framed.
LEMMA IInvFramed == IInv /\ HasArguments => PacketsFramed
<1> SUFFICES ASSUME IInv, HasArguments, NEW a \in Accs, NEW k \in DOMAIN outPort[a]
             PROVE  LET p == outPort[a][k]
                        len == IF p.dest = TASKWAIT THEN 2 ELSE 3 + p.deps + 3 * p.copies + p.args
                    IN /\ Len(p.last) = len
                       /\ \A i \in 1..len : p.last[i] <=> i = len
  BY DEF PacketsFramed
<1>1. outPort[a] # <<>>
  OBVIOUS
<1>2. Asked(a) /\ pc[a] \in {"create", "wait"}
  BY <1>1 DEF IInv, DialogueInv, Dialogue, Quiet, Answered
<1>3. outPort[a][k] = Question(a)
  BY <1>2 DEF Asked
<1>4. CASE pc[a] = "wait"
  <2>0. WaitPacket(a).dest = TASKWAIT /\ WaitPacket(a).last = <<FALSE, TRUE>>
    BY DEF WaitPacket
  <2>1. outPort[a][k].dest = TASKWAIT /\ outPort[a][k].last = <<FALSE, TRUE>>
    BY <1>3, <1>4, <2>0 DEF Question
  <2>2. Len(<<FALSE, TRUE>>) = 2 /\ \A i \in 1..2 : <<FALSE, TRUE>>[i] <=> i = 2
    OBVIOUS
  <2> QED
    BY <2>1, <2>2
<1>5. CASE pc[a] = "create"
  <2> DEFINE c == creation[a]
  <2>1. c \in Creation /\ c.args > 0
    BY <1>5 DEF IInv, TypeOK, Creation, HasArguments
  <2>2. Question(a) = CreatePacket(a, c) /\ Question(a).dest # TASKWAIT
    BY <1>5, Destinations DEF Question
  <2>3. LET len == 3 + c.currentNumDeps + 3 * c.copies + c.args IN
        /\ Len(LastBits(c)) = len
        /\ \A i \in 1..len : LastBits(c)[i] <=> i = len
    BY <2>1, LastBitsShape
  <2> QED
    BY <1>3, <2>2, <2>3 DEF CreatePacket
<1> QED
  BY <1>2, <1>4, <1>5

\* The words nanos_fpga_create_wd_async writes for a child with arguments are those
\* its header announces and only the last one has the last bit, with its dependences
\* or, after an answer FINAL, without them.
THEOREM PacketsFramedAlways ==
  ASSUME \A s \in Shapes : s.args > 0
  PROVE  Spec => []PacketsFramed
<1>1. Init => HasArguments
  BY DEF Init, HasArguments
<1>2. IInv /\ HasArguments /\ [Next]_vars => HasArguments'
  BY NextHasArguments
<1> QED
  BY <1>1, <1>2, InitIInv, NextIInv, IInvFramed, PTL DEF Spec

--------------------------------------------------------------------------------
(* Creation and taskwait implement ForkJoin.                                 *)

\* Children counted and children that may still be accepted stay within the bound.
Pending == {a \in Accs : pc[a] = "create" /\ inPort[a] # <<ACK_OK_CODE>>}
BoundInv == Len(tasks) + Cardinality(Pending) <= MaxTasks

\* Sets of accelerators can be counted.
LEMMA AccSets ==
  \A S \in SUBSET Accs : IsFiniteSet(S) /\ Cardinality(S) \in Nat
<1>1. ASSUME NEW S \in SUBSET Accs PROVE IsFiniteSet(S) /\ Cardinality(S) \in Nat
  BY FpgaSpawnAssumption, FS_Subset, FS_CardinalityType
<1> QED
  BY <1>1

\* A step that creates and accepts nothing stays within the bound.
LEMMA PendingShrinks ==
  ASSUME TypeOK, TypeOK', BoundInv, Pending' \subseteq Pending, Len(tasks') = Len(tasks)
  PROVE  BoundInv'
<1>1. Pending \in SUBSET Accs /\ Pending' \in SUBSET Pending
  BY DEF Pending
<1>2. /\ IsFiniteSet(Pending) /\ Cardinality(Pending) \in Nat /\ Cardinality(Pending') \in Nat
  BY <1>1, AccSets
<1>3. Cardinality(Pending') <= Cardinality(Pending)
  BY <1>1, <1>2, FS_Subset
<1>4. Len(tasks) \in Nat /\ MaxTasks \in Nat
  BY FpgaSpawnAssumption DEF TypeOK
<1> QED
  BY <1>2, <1>3, <1>4 DEF BoundInv

\* Initially nothing is created.
LEMMA InitBoundInv == Init => BoundInv
<1> SUFFICES ASSUME Init PROVE BoundInv
  OBVIOUS
<1>1. Pending = {} /\ Len(tasks) = 0
  BY DEF Init, Pending
<1> QED
  BY <1>1, FS_EmptySet, FpgaSpawnAssumption DEF BoundInv

\* The guard of Create is what bounds a behaviour; Accept takes the place it reserved.
LEMMA NextBoundInv ==
  ASSUME IInv, BoundInv, [Next]_vars
  PROVE  BoundInv'
<1> USE DEF IInv
<1>1. TypeOK /\ TypeOK' /\ MaxTasks \in Nat /\ Len(tasks) \in Nat
  <2>1. TypeOK /\ TypeOK'
    BY NextTypeOK
  <2>2. MaxTasks \in Nat /\ Len(tasks) \in Nat
    BY FpgaSpawnAssumption DEF TypeOK
  <2> QED
    BY <2>1, <2>2
<1>2. ASSUME NEW a \in Accs, NEW s \in Shapes, Create(a, s) PROVE BoundInv'
  <2>1. Creating \in SUBSET Accs /\ Pending' \in SUBSET (Creating \cup {a})
    BY <1>1, <1>2 DEF Pending, Creating, Create, TypeOK
  <2>2. IsFiniteSet(Creating) /\ Cardinality(Creating) \in Nat
    BY <2>1, AccSets
  <2>3. /\ IsFiniteSet(Creating \cup {a})
        /\ Cardinality(Creating \cup {a}) <= Cardinality(Creating) + 1
    BY <2>2, FS_AddElement
  <2>4. Cardinality(Pending') <= Cardinality(Creating \cup {a})
    BY <2>1, <2>3, FS_Subset
  <2>5. Cardinality(Pending') \in Nat /\ Cardinality(Creating \cup {a}) \in Nat
    BY <1>2, <2>1, AccSets
  <2> QED
    BY <1>1, <1>2, <2>2, <2>3, <2>4, <2>5 DEF Create, BoundInv
<1>3. ASSUME NEW a \in Accs, Accept(a) PROVE BoundInv'
  <2>1. /\ Asked(a) /\ pc[a] \in {"create", "wait"} /\ Head(outPort[a]) = Question(a)
        /\ inPort'[a] = <<ACK_OK_CODE>>
    BY <1>3, Taken DEF Accept
  <2>2. a \in Pending
    BY <2>1, <1>3, Destinations, OneWord DEF Accept, Pending, Asked
  <2>3. Pending' = Pending \ {a}
    BY <1>3, <2>1 DEF Accept, Answer, Pending, TypeOK
  <2>4. Pending \in SUBSET Accs /\ Pending' \in SUBSET Accs
    BY DEF Pending
  <2>5. /\ Cardinality(Pending) \in Nat
        /\ Cardinality(Pending') = Cardinality(Pending) - 1
    BY <2>2, <2>3, <2>4, AccSets, FS_RemoveElement
  <2>6. Len(tasks') = Len(tasks) + 1
    BY <1>3 DEF Accept
  <2> QED
    BY <1>1, <2>5, <2>6 DEF BoundInv
<1>4. ASSUME NEW a \in Accs, NEW p \in Parents, Start(a, p) PROVE BoundInv'
  <2>1. Pending' \subseteq Pending /\ Len(tasks') = Len(tasks)
    BY <1>4 DEF Start, Pending, TypeOK
  <2> QED
    BY <1>1, <2>1, PendingShrinks
<1>5. ASSUME NEW a \in Accs, End(a) \/ Wait(a) PROVE BoundInv'
  <2>1. Pending' \subseteq Pending /\ Len(tasks') = Len(tasks)
    BY <1>5 DEF End, Wait, Pending, TypeOK
  <2> QED
    BY <1>1, <2>1, PendingShrinks
<1>6. ASSUME NEW a \in Accs, CreateAgain(a) PROVE BoundInv'
  <2>1. PICK ack \in Acks \ {ACK_OK_CODE} : Read(a, ack)
    BY <1>6 DEF CreateAgain
  <2>2. inPort[a] = <<ack>> /\ pc[a] = "create"
    BY <1>6, <2>1, AnswerRead DEF CreateAgain
  <2>3. a \in Pending
    BY <2>1, <2>2, OneWord DEF Pending
  <2>4. Pending' \subseteq Pending /\ Len(tasks') = Len(tasks)
    BY <1>6, <2>1, <2>3 DEF CreateAgain, Read, Pending, TypeOK
  <2> QED
    BY <1>1, <2>4, PendingShrinks
<1>7. ASSUME NEW a \in Accs, Created(a) \/ Waited(a) PROVE BoundInv'
  <2>1. Pending' \subseteq Pending /\ Len(tasks') = Len(tasks)
    BY <1>7 DEF Created, Waited, Read, Pending, TypeOK
  <2> QED
    BY <1>1, <2>1, PendingShrinks
<1>8. ASSUME NEW a \in Accs, Reject(a) \/ Final(a) \/ EndWait(a) PROVE BoundInv'
  <2>1. PICK w : Take(a) /\ Answer(a, w) /\ pc' = pc
    BY <1>8 DEF Reject, Final, EndWait
  <2>2. Asked(a)
    BY <2>1, Taken
  <2>3. pc[a] = "create" => a \in Pending
    BY <2>2, OneWord DEF Asked, Pending
  <2>4. Pending' \subseteq Pending
    BY <2>1, <2>3 DEF Answer, Pending, TypeOK
  <2>5. Len(tasks') = Len(tasks)
    BY <1>1, <1>8 DEF Reject, Final, EndWait, TypeOK
  <2> QED
    BY <1>1, <2>4, <2>5, PendingShrinks
<1>9. CASE (\E i \in DOMAIN tasks : Child(i)) \/ UNCHANGED vars
  <2>1. Pending' = Pending
    BY <1>9 DEF Child, Run, Finish, CountFinished, Move, vars, Pending
  <2>2. Len(tasks') = Len(tasks)
    BY <1>1, <1>9 DEF Child, Run, Finish, CountFinished, Move, vars, TypeOK
  <2> QED
    BY <1>1, <2>1, <2>2, PendingShrinks
<1> QED
  BY <1>2, <1>3, <1>4, <1>5, <1>6, <1>7, <1>8, <1>9 DEF Next, Unit

\* The children of p that have not completed, the parents inside a taskwait.
Open(p) == ChildrenOf(p) \cap (InState("queued") \cup InState("running"))
Joining == {taskId[a] : a \in {b \in Accs : pc[b] = "wait"}}

\* A parent of another accelerator is in a taskwait or not whatever a does.
LEMMA JoiningOfOne ==
  ASSUME IInv, NEW a \in Accs, pc[a] # "idle"
  PROVE  taskId[a] \in Joining <=> pc[a] = "wait"
BY DEF Joining, IInv, DialogueInv

\* A step seen by ForkJoin, or one that it does not see.
Refines ==
  \/ \E p \in Parents :
       \/ \E c \in 1..MaxTasks :
            \/ /\ p \notin Joining /\ \A q \in Parents : c \notin Open(q)
               /\ \A q \in Parents : Open(q)' = IF q = p THEN Open(q) \cup {c} ELSE Open(q)
               /\ Joining' = Joining
            \/ /\ c \in Open(p) /\ Joining' = Joining
               /\ \A q \in Parents : Open(q)' = IF q = p THEN Open(q) \ {c} ELSE Open(q)
       \/ /\ p \notin Joining /\ Joining' = Joining \cup {p}
          /\ \A q \in Parents : Open(q)' = Open(q)
       \/ /\ p \in Joining /\ Open(p) = {} /\ Joining' = Joining \ {p}
          /\ \A q \in Parents : Open(q)' = Open(q)
  \/ Joining' = Joining /\ \A q \in Parents : Open(q)' = Open(q)

\* Steps that touch no child leave the open children alone.
LEMMA SameTasks == tasks' = tasks => \A q : Open(q)' = Open(q)
BY DEF Open, ChildrenOf, InState

\* Start, the steps of a creation and those of the units but Accept are not seen.
LEMMA UnseenSteps ==
  ASSUME IInv, NEW a \in Accs,
         \/ \E p \in Parents : Start(a, p)
         \/ End(a)
         \/ \E s \in Shapes : Create(a, s)
         \/ CreateAgain(a) \/ Created(a) \/ Reject(a) \/ Final(a)
  PROVE  Refines
<1>1. tasks' = tasks
  BY DEF Start, End, Create, CreateAgain, Created, Reject, Final
<1>2. \A b \in Accs : /\ pc'[b] = "wait" <=> pc[b] = "wait"
                      /\ pc[b] = "wait" => taskId'[b] = taskId[b]
  BY DEF IInv, TypeOK, Start, End, Create, CreateAgain, Created, Reject, Final
<1>3. Joining' = Joining
  BY <1>2 DEF Joining
<1> QED
  BY <1>1, <1>3, SameTasks DEF Refines

\* A taskwait that asks the unit begins a join.
LEMMA WaitRefines ==
  ASSUME IInv, NEW a \in Accs, Wait(a)
  PROVE  Refines
<1>p. PICK p \in Parents : p = taskId[a]
  BY DEF IInv, TypeOK, Wait
<1>1. p \notin Joining
  BY <1>p, JoiningOfOne DEF Wait
<1>2. pc' = [pc EXCEPT ![a] = "wait"] /\ taskId' = taskId
  BY DEF Wait
<1>3. Joining' = Joining \cup {p}
  BY <1>p, <1>2 DEF Joining, IInv, TypeOK
<1>4. \A q : Open(q)' = Open(q)
  BY SameTasks DEF Wait
<1> QED
  BY <1>1, <1>3, <1>4 DEF Refines

\* What makes the taskwait safe: the answer is there, so no child is left.
LEMMA WaitedRefines ==
  ASSUME IInv, NEW a \in Accs, Waited(a)
  PROVE  Refines
<1>p. PICK p \in Parents : p = taskId[a]
  BY DEF IInv, TypeOK, Waited
<1>1. p \in Joining
  BY <1>p, JoiningOfOne DEF Waited
<1>2. pc' = [pc EXCEPT ![a] = "run"] /\ taskId' = taskId /\ pc[a] = "wait"
  BY DEF Waited
<1>3. Joining' = Joining \ {p}
  BY <1>p, <1>2 DEF Joining, IInv, TypeOK, DialogueInv
<1>4. Open(p) = {}
  <2>1. inPort[a] = <<WaitOver>>
    BY <1>2, AnswerRead DEF Waited
  <2>2. Cardinality(Unjoined(p)) = 0
    BY <1>p, <1>2, <2>1 DEF IInv, CountsAgree
  <2>3. Unjoined(p) = {}
    BY <2>2, UnjoinedFinite, FS_EmptySet DEF IInv
  <2> QED
    BY <2>3 DEF Open, Unjoined, InState
<1>5. \A q : Open(q)' = Open(q)
  BY SameTasks DEF Waited
<1> QED
  BY <1>1, <1>3, <1>4, <1>5 DEF Refines

\* A child is opened when a unit accepts it, under a name no open child has.
LEMMA AcceptRefines ==
  ASSUME IInv, BoundInv, NEW a \in Accs, Accept(a)
  PROVE  Refines
<1>1. /\ Asked(a) /\ pc[a] \in {"create", "wait"} /\ Head(outPort[a]) = Question(a)
      /\ outPort'[a] = <<>> /\ inPort'[a] = <<ACK_OK_CODE>>
  BY Taken DEF Accept
<1>2. pc[a] = "create"
  BY <1>1, Destinations DEF Accept
<1>p. PICK p \in Parents : p = taskId[a]
  BY <1>2 DEF IInv, TypeOK
<1>n. PICK n \in Nat : n = Len(tasks) + 1
  BY DEF IInv, TypeOK
<1> DEFINE t == [parent |-> p, num |-> components[a], state |-> "queued"]
<1>3. tasks' = Append(tasks, t)
  BY <1>1, <1>2, <1>p DEF Accept, Question, CreatePacket
<1>4. t \in Children /\ tasks \in Seq(Children) /\ Len(tasks) \in Nat
  BY <1>2, <1>p DEF IInv, TypeOK, Children
<1>5. /\ DOMAIN tasks = 1..Len(tasks) /\ DOMAIN tasks' = 1..n
      /\ \A i \in 1..Len(tasks) : tasks'[i] = tasks[i]
      /\ tasks'[n].parent = p /\ tasks'[n].state = "queued"
  BY <1>3, <1>4, <1>n, AppendProperties
<1>6. n \in 1..MaxTasks
  <2>1. a \in Pending
    BY <1>1, <1>2, OneWord DEF Asked, Pending
  <2>2. Cardinality(Pending) \in Nat /\ Cardinality(Pending) # 0
    <3>1. Pending \in SUBSET Accs
      BY DEF Pending
    <3> QED
      BY <2>1, <3>1, AccSets, FS_EmptySet
  <2> QED
    BY <1>4, <1>n, <2>2, FpgaSpawnAssumption DEF BoundInv
<1>7. \A q : n \notin Open(q)
  BY <1>4, <1>5, <1>n DEF Open, ChildrenOf
<1>8. \A q : Open(q)' = IF q = p THEN Open(q) \cup {n} ELSE Open(q)
  BY <1>4, <1>5, <1>n DEF Open, ChildrenOf, InState
<1>9. Joining' = Joining /\ p \notin Joining
  BY <1>2, <1>p, JoiningOfOne DEF Accept, Joining
<1> QED
  BY <1>6, <1>7, <1>8, <1>9 DEF Refines

\* The answer of a taskwait takes off children that have completed already.
LEMMA EndWaitRefines ==
  ASSUME IInv, NEW a \in Accs, EndWait(a)
  PROVE  Refines
<1> DEFINE counted == ChildrenOf(Head(outPort[a]).parent) \cap InState("counted")
<1>1. tasks' = [i \in DOMAIN tasks |->
                  IF i \in counted THEN [tasks[i] EXCEPT !.state = "joined"] ELSE tasks[i]]
  BY DEF EndWait
<1>2. \A i \in counted : i \in DOMAIN tasks /\ tasks[i].state = "counted"
  BY DEF InState
<1> HIDE DEF counted
<1>3. /\ DOMAIN tasks' = DOMAIN tasks
      /\ \A i \in DOMAIN tasks :
           /\ tasks'[i].parent = tasks[i].parent
           /\ \A st \in {"queued", "running"} : tasks'[i].state = st <=> tasks[i].state = st
  <2>1. \A i \in DOMAIN tasks : tasks[i] \in Children
    BY DEF IInv, TypeOK
  <2> QED
    BY <1>1, <1>2, <2>1 DEF Children
<1>4. \A q : Open(q)' = Open(q)
  BY <1>3 DEF Open, ChildrenOf, InState
<1>5. Joining' = Joining
  BY DEF EndWait, Joining
<1> QED
  BY <1>4, <1>5 DEF Refines

\* A child completes when its accelerator finishes it; the other steps are not seen.
LEMMA ChildRefines ==
  ASSUME IInv, NEW k \in DOMAIN tasks, Child(k), BoundInv
  PROVE  Refines
<1>1. Joining' = Joining
  BY DEF Child, Run, Finish, CountFinished, Move, Joining
<1>2. \A i \in DOMAIN tasks : tasks[i] \in Children
  BY DEF IInv, TypeOK
<1>3. CASE Run(k) \/ CountFinished(k)
  <2>1. /\ DOMAIN tasks' = DOMAIN tasks
        /\ \A i \in DOMAIN tasks :
             /\ tasks'[i].parent = tasks[i].parent
             /\ tasks'[i].state \in {"queued", "running"}
                  <=> tasks[i].state \in {"queued", "running"}
    BY <1>2, <1>3 DEF Run, CountFinished, Move, Children
  <2>2. \A q : Open(q)' = Open(q)
    BY <2>1 DEF Open, ChildrenOf, InState
  <2> QED
    BY <1>1, <2>2 DEF Refines
<1>4. CASE Finish(k)
  <2>p. PICK p \in Parents : p = tasks[k].parent
    BY <1>2 DEF Children
  <2>1. /\ DOMAIN tasks' = DOMAIN tasks
        /\ \A i \in DOMAIN tasks :
             /\ tasks'[i].parent = tasks[i].parent
             /\ i # k => tasks'[i].state = tasks[i].state
        /\ tasks[k].state = "running" /\ tasks'[k].state = "finished"
    BY <1>2, <1>4 DEF Finish, Move, Children
  <2>2. k \in Open(p)
    BY <2>p, <2>1 DEF Open, ChildrenOf, InState
  <2>3. \A q : Open(q)' = IF q = p THEN Open(q) \ {k} ELSE Open(q)
    BY <2>p, <2>1 DEF Open, ChildrenOf, InState
  <2>4. k \in 1..MaxTasks
    <3>1. Len(tasks) \in Nat /\ DOMAIN tasks = 1..Len(tasks) /\ MaxTasks \in Nat
      BY FpgaSpawnAssumption DEF IInv, TypeOK
    <3>2. Cardinality(Pending) \in Nat
      BY AccSets DEF Pending
    <3> QED
      BY <3>1, <3>2 DEF BoundInv
  <2> QED
    BY <1>1, <2>2, <2>3, <2>4 DEF Refines
<1> QED
  BY <1>3, <1>4 DEF Child

\* Every step of the protocol is a step of ForkJoin or one it does not see.
LEMMA StepRefines == IInv /\ BoundInv /\ [Next]_vars => Refines
<1> SUFFICES ASSUME IInv, BoundInv, [Next]_vars PROVE Refines
  OBVIOUS
<1>1. CASE UNCHANGED vars
  BY <1>1, SameTasks DEF vars, Joining, Refines
<1>2. CASE Next
  BY <1>2, UnseenSteps, WaitRefines, WaitedRefines, AcceptRefines, EndWaitRefines, ChildRefines
     DEF Next, Unit
<1> QED
  BY <1>1, <1>2

\* The refinement mapping, and the actions of ForkJoin under it.
OpenMap == [p \in Parents |-> Open(p)]

\* What Refines says of the open children and the joins is a step of ForkJoin.
LEMMA RefinesAbstract == Refines => [Abstract!Next]_(Abstract!vars)
<1> SUFFICES ASSUME Refines PROVE Abstract!Next \/ (OpenMap' = OpenMap /\ Joining' = Joining)
  BY DEF Abstract!vars, OpenMap, Open, Joining
<1> DEFINE Same == \A q \in Parents : Open(q)' = Open(q)
<1>1. Same => OpenMap' = OpenMap
  BY DEF OpenMap
<1>2. ASSUME NEW p \in Parents, NEW c \in 1..MaxTasks,
             p \notin Joining, \A q \in Parents : c \notin Open(q), Joining' = Joining,
             \A q \in Parents : Open(q)' = IF q = p THEN Open(q) \cup {c} ELSE Open(q)
      PROVE  Abstract!Spawn(p, c)
  <2>1. OpenMap' = [OpenMap EXCEPT ![p] = @ \cup {c}]
    BY <1>2 DEF OpenMap
  <2> QED
    BY <1>2, <2>1 DEF Abstract!Spawn, OpenMap, Open, Joining
<1>3. ASSUME NEW p \in Parents, NEW c \in 1..MaxTasks, c \in Open(p), Joining' = Joining,
             \A q \in Parents : Open(q)' = IF q = p THEN Open(q) \ {c} ELSE Open(q)
      PROVE  Abstract!Complete(p, c)
  <2>1. OpenMap' = [OpenMap EXCEPT ![p] = @ \ {c}]
    BY <1>3 DEF OpenMap
  <2> QED
    BY <1>3, <2>1 DEF Abstract!Complete, OpenMap, Open, Joining
<1>4. ASSUME NEW p \in Parents, p \notin Joining, Joining' = Joining \cup {p}, Same
      PROVE  Abstract!BeginJoin(p)
  BY <1>1, <1>4 DEF Abstract!BeginJoin, OpenMap, Open, Joining
<1>5. ASSUME NEW p \in Parents, p \in Joining, Open(p) = {}, Joining' = Joining \ {p}, Same
      PROVE  Abstract!EndJoin(p)
  BY <1>1, <1>5 DEF Abstract!EndJoin, OpenMap, Open, Joining
<1> QED
  BY <1>1, <1>2, <1>3, <1>4, <1>5 DEF Refines, Abstract!Next

\* Task creation and taskwait are fork and join: nanos_fpga_wg_wait_completion comes
\* back from the unit only when no child of the task is queued or running.
THEOREM SpawnImplements == Spec => ImplementsForkJoin
<1>1. Init => Abstract!Init
  BY DEF Init, Abstract!Init, ChildrenOf, InState
<1>2. IInv /\ BoundInv /\ [Next]_vars => BoundInv'
  BY NextBoundInv
<1>3. IInv /\ BoundInv /\ [Next]_vars => [Abstract!Next]_(Abstract!vars)
  BY StepRefines, RefinesAbstract
<1> QED
  BY <1>1, <1>2, <1>3, InitIInv, NextIInv, InitBoundInv, PTL
     DEF Spec, ImplementsForkJoin, Abstract!Spec
================================================================================
