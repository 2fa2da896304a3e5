----------------------- MODULE AtomicUpdateProofs -----------------------
(* Proofs about AtomicUpdate, for any threads, values, operations and       *)
(* statements: its types, that critical regions are undisturbed, and that   *)
(* it implements AtomicLocation, when no location is updated both inside of *)
(* critical regions and without them (Separate).                            *)
EXTENDS AtomicUpdate, TLAPS

Outside == {"operand", "fetch", "load", "swap"}
Inside == {"lock", "region", "store", "unlock"}
Holding == {"region", "store", "unlock"}

\* What thread t knows of its statement, of its locals, and of the lock.
StmtInv(t) ==
  /\ pc[t] # "idle" => stmt[t] \in updates /\ done[t] < MaxUpdates
  /\ pc[t] \in Outside => Lowering(stmt[t]) # "critical"
  /\ pc[t] \in Inside => Lowering(stmt[t]) = "critical"

LockInv(t) == pc[t] \in Holding <=> lock = t

LocalInv(t) ==
  /\ pc[t] \in {"operand", "lock", "region"} => temp[t] = NoValue
  /\ pc[t] \in {"fetch", "load", "swap", "store"} => temp[t] \in Values
  /\ pc[t] = "swap" => new[t] = Apply(stmt[t].kind, old[t], temp[t])
  /\ pc[t] = "swap" => old[t] \in Values

StoreInv(t) == pc[t] = "store" => new[t] = Apply(stmt[t].kind, x, temp[t])

\* The inductive invariant.
IInv == TypeOK /\ \A t \in Threads : StmtInv(t) /\ LockInv(t) /\ LocalInv(t) /\ StoreInv(t)

-----------------------------------------------------------------------------

\* The kind of a statement of the location is a kind, whose result is a value.
LEMMA KindOf ==
  ASSUME updates \in Locations, NEW s \in updates
  PROVE  /\ s \in Statements
         /\ s.kind \in Kinds
         /\ \A v, a \in Values : Apply(s.kind, v, a) \in Values
<1>1. s \in Statements
  BY LocationsAssumption
<1>2. s.kind \in Kinds
  BY <1>1 DEF Statements
<1> QED
  BY <1>1, <1>2, ValuesAssumption

\* The statements of a location are lowered outside of critical regions, or
\* all of them inside.
LEMMA OneWay ==
  ASSUME Separate, updates \in Locations, NEW r \in updates, NEW s \in updates,
         Lowering(r) = "critical"
  PROVE  Lowering(s) = "critical"
BY DEF Separate

\* The start satisfies the invariant.
LEMMA InitIInv == Init => IInv
BY OthersAssumption
   DEF Init, IInv, TypeOK, StmtInv, LockInv, LocalInv, StoreInv, Places, Outside,
       Inside, Holding

\* The start of a statement preserves the invariant.
LEMMA StartIInv ==
  ASSUME IInv, NEW t \in Threads, Start(t)
  PROVE  IInv'
<1>1. PICK s \in updates :
        /\ stmt' = [stmt EXCEPT ![t] = s]
        /\ \/ /\ Lowering(s) = "critical"
              /\ Goto(t, "lock")
              /\ temp' = [temp EXCEPT ![t] = NoValue]
           \/ /\ Lowering(s) # "critical"
              /\ s.kind \in Increments
              /\ Goto(t, Operate(s))
              /\ temp' = [temp EXCEPT ![t] = One]
           \/ /\ Lowering(s) # "critical"
              /\ s.kind \notin Increments
              /\ Goto(t, "operand")
              /\ temp' = [temp EXCEPT ![t] = NoValue]
  BY DEF Start
<1>2. /\ pc[t] = "idle"
      /\ done[t] < MaxUpdates
      /\ UNCHANGED <<updates, x, lock, old, new, done>>
  BY DEF Start
<1>3. s \in Statements
  BY KindOf DEF IInv, TypeOK
<1>4. Operate(s) \in {"fetch", "load"}
  BY DEF Operate
<1>5. TypeOK'
  BY <1>1, <1>2, <1>3, <1>4, ValuesAssumption DEF IInv, TypeOK, Goto, Places
<1>6. ASSUME NEW u \in Threads
      PROVE  (StmtInv(u) /\ LockInv(u) /\ LocalInv(u) /\ StoreInv(u))'
  <2>1. CASE u # t
    BY <2>1, <1>1, <1>2 DEF IInv, TypeOK, Goto, StmtInv, LockInv, LocalInv, StoreInv
  <2>2. CASE u = t
    <3>1. /\ stmt'[t] = s
          /\ pc'[t] \in {"lock", "operand", "fetch", "load"}
          /\ pc'[t] = "lock" => Lowering(s) = "critical"
          /\ pc'[t] # "lock" => Lowering(s) # "critical"
          /\ pc'[t] \in {"lock", "operand"} => temp'[t] = NoValue
          /\ pc'[t] \in {"fetch", "load"} => temp'[t] \in Values
      BY <1>1, <1>4, ValuesAssumption DEF IInv, TypeOK, Goto
    <3>2. lock # t
      BY <1>2 DEF IInv, LockInv, Holding
    <3> HIDE DEF Lowering
    <3> QED
      BY <2>2, <3>1, <3>2, <1>2 DEF StmtInv, LockInv, LocalInv, StoreInv,
         Outside, Inside, Holding
  <2> QED
    BY <2>1, <2>2
<1> QED
  BY <1>5, <1>6 DEF IInv

\* What a thread knows stays true when a step leaves its own state alone, and
\* the location too if it is about to store.
LEMMA OtherThread ==
  ASSUME IInv, NEW u \in Threads, updates' = updates,
         pc'[u] = pc[u], stmt'[u] = stmt[u], temp'[u] = temp[u],
         old'[u] = old[u], new'[u] = new[u], done'[u] = done[u],
         lock = u <=> lock' = u,
         x' = x \/ pc[u] # "store"
  PROVE  (StmtInv(u) /\ LockInv(u) /\ LocalInv(u) /\ StoreInv(u))'
<1>1. StmtInv(u)' /\ LockInv(u)'
  BY DEF IInv, StmtInv, LockInv
<1>2. LocalInv(u)'
  BY DEF IInv, LocalInv
<1>3. StoreInv(u)'
  BY DEF IInv, StoreInv
<1> QED
  BY <1>1, <1>2, <1>3

\* An idle thread knows nothing; it only has to be out of the lock.
LEMMA IdleThread ==
  ASSUME NEW t, pc'[t] = "idle", lock' # t
  PROVE  (StmtInv(t) /\ LockInv(t) /\ LocalInv(t) /\ StoreInv(t))'
BY DEF StmtInv, LockInv, LocalInv, StoreInv, Outside, Inside, Holding

\* While a thread outside of the critical region changes the location, nobody
\* is about to store.
LEMMA NobodyStores ==
  ASSUME Separate, IInv, NEW t \in Threads, pc[t] \in Outside, NEW u \in Threads
  PROVE  pc[u] # "store"
<1>1. stmt[t] \in updates /\ Lowering(stmt[t]) # "critical"
  BY DEF IInv, StmtInv, Outside
<1>2. SUFFICES ASSUME pc[u] = "store"
               PROVE  FALSE
  OBVIOUS
<1>3. stmt[u] \in updates /\ Lowering(stmt[u]) = "critical"
  BY <1>2 DEF IInv, StmtInv, Inside
<1> QED
  BY <1>1, <1>3, OneWay DEF IInv, TypeOK

\* The evaluation of the operand preserves the invariant.
LEMMA OperandIInv ==
  ASSUME IInv, NEW t \in Threads, Operand(t)
  PROVE  IInv'
<1>1. PICK a \in Values : temp' = [temp EXCEPT ![t] = a]
  BY DEF Operand
<1>2. /\ pc[t] = "operand"
      /\ pc' = [pc EXCEPT ![t] = Operate(stmt[t])]
      /\ UNCHANGED <<updates, x, lock, stmt, old, new, done>>
  BY DEF Operand, Goto
<1>3. Operate(stmt[t]) \in {"fetch", "load"}
  BY DEF Operate
<1>4. TypeOK'
  BY <1>1, <1>2, <1>3 DEF IInv, TypeOK, Places
<1>5. ASSUME NEW u \in Threads, u # t
      PROVE  (StmtInv(u) /\ LockInv(u) /\ LocalInv(u) /\ StoreInv(u))'
  BY <1>1, <1>2, <1>5, OtherThread DEF IInv, TypeOK
<1>6. (StmtInv(t) /\ LockInv(t) /\ LocalInv(t) /\ StoreInv(t))'
  <2>1. pc'[t] \in {"fetch", "load"} /\ temp'[t] \in Values
    BY <1>1, <1>2, <1>3 DEF IInv, TypeOK
  <2>2. /\ stmt[t] \in updates /\ Lowering(stmt[t]) # "critical" /\ lock # t
        /\ done[t] < MaxUpdates
    BY <1>2 DEF IInv, StmtInv, LockInv, Outside, Holding
  <2> HIDE DEF Lowering
  <2> QED
    BY <1>2, <2>1, <2>2 DEF StmtInv, LockInv, LocalInv, StoreInv, Outside, Inside, Holding
<1> QED
  BY <1>4, <1>5, <1>6 DEF IInv

\* The end of a statement that has not the lock preserves the invariant.
LEMMA FinishIInv ==
  ASSUME IInv, NEW t \in Threads, pc[t] # "idle", Finish(t),
         UNCHANGED updates, lock' \in {lock, NoThread}, lock' # t, lock \in {lock', t},
         x' \in Values,
         \A u \in Threads \ {t} : x' = x \/ pc[u] # "store"
  PROVE  IInv'
<1>1. TypeOK'
  <2>1. done[t] < MaxUpdates /\ done[t] \in 0..MaxUpdates /\ MaxUpdates \in Nat
    BY OthersAssumption DEF IInv, TypeOK, StmtInv
  <2>2. done'[t] \in 0..MaxUpdates
    BY <2>1 DEF IInv, TypeOK, Finish
  <2> QED
    BY <2>2 DEF IInv, TypeOK, Finish, Goto, Forget, Places
<1>2. ASSUME NEW u \in Threads, u # t
      PROVE  (StmtInv(u) /\ LockInv(u) /\ LocalInv(u) /\ StoreInv(u))'
  <2>1. lock = u <=> lock' = u
    BY <1>2, OthersAssumption
  <2> QED
    BY <1>2, <2>1, OtherThread DEF IInv, TypeOK, Finish, Goto, Forget
<1>3. (StmtInv(t) /\ LockInv(t) /\ LocalInv(t) /\ StoreInv(t))'
  BY IdleThread DEF IInv, TypeOK, Finish, Goto
<1> QED
  BY <1>1, <1>2, <1>3 DEF IInv

\* __sync_<op>_and_fetch preserves the invariant.
LEMMA FetchIInv ==
  ASSUME Separate, IInv, NEW t \in Threads, Fetch(t)
  PROVE  IInv'
<1>1. /\ pc[t] = "fetch"
      /\ x' = Apply(stmt[t].kind, x, temp[t])
      /\ Finish(t)
      /\ UNCHANGED <<updates, lock>>
  BY DEF Fetch
<1>2. x' \in Values
  BY <1>1, KindOf DEF IInv, TypeOK, StmtInv, LocalInv
<1>3. lock # t
  BY <1>1 DEF IInv, LockInv, Holding
<1>4. \A u \in Threads \ {t} : pc[u] # "store"
  BY <1>1, NobodyStores DEF Outside
<1> QED
  BY <1>1, <1>2, <1>3, <1>4, FinishIInv

\* The body of the loop preserves the invariant.
LEMMA LoadIInv ==
  ASSUME IInv, NEW t \in Threads, Load(t)
  PROVE  IInv'
<1>1. /\ pc[t] = "load"
      /\ old' = [old EXCEPT ![t] = x]
      /\ new' = [new EXCEPT ![t] = Apply(stmt[t].kind, x, temp[t])]
      /\ pc' = [pc EXCEPT ![t] = "swap"]
      /\ UNCHANGED <<updates, x, lock, stmt, temp, done>>
  BY DEF Load, Goto
<1>2. Apply(stmt[t].kind, x, temp[t]) \in Values
  BY <1>1, KindOf DEF IInv, TypeOK, StmtInv, LocalInv
<1>3. TypeOK'
  BY <1>1, <1>2 DEF IInv, TypeOK, Places
<1>4. ASSUME NEW u \in Threads, u # t
      PROVE  (StmtInv(u) /\ LockInv(u) /\ LocalInv(u) /\ StoreInv(u))'
  BY <1>1, <1>4, OtherThread DEF IInv, TypeOK
<1>5. (StmtInv(t) /\ LockInv(t) /\ LocalInv(t) /\ StoreInv(t))'
  <2>1. /\ pc'[t] = "swap" /\ old'[t] = x /\ x \in Values
        /\ new'[t] = Apply(stmt[t].kind, x, temp[t])
    BY <1>1 DEF IInv, TypeOK
  <2>2. /\ stmt[t] \in updates /\ Lowering(stmt[t]) # "critical" /\ lock # t
        /\ done[t] < MaxUpdates /\ temp[t] \in Values
    BY <1>1 DEF IInv, StmtInv, LockInv, LocalInv, Outside, Holding
  <2> HIDE DEF Lowering
  <2> QED
    BY <1>1, <2>1, <2>2 DEF StmtInv, LockInv, LocalInv, StoreInv, Outside, Inside, Holding
<1> QED
  BY <1>3, <1>4, <1>5 DEF IInv

\* The compare-and-swap preserves the invariant, done or refused.
LEMMA SwapIInv ==
  ASSUME Separate, IInv, NEW t \in Threads, Swap(t)
  PROVE  IInv'
<1>1. pc[t] = "swap" /\ UNCHANGED <<updates, lock>>
  BY DEF Swap
<1>2. lock # t
  BY <1>1 DEF IInv, LockInv, Holding
<1>3. \A u \in Threads \ {t} : pc[u] # "store"
  BY <1>1, NobodyStores DEF Outside
<1>4. CASE x = old[t] /\ x' = new[t] /\ Finish(t)
  <2>1. x' \in Values
    <3>1. /\ stmt[t] \in updates /\ updates \in Locations
          /\ old[t] \in Values /\ temp[t] \in Values
          /\ new[t] = Apply(stmt[t].kind, old[t], temp[t])
      BY <1>1 DEF IInv, TypeOK, StmtInv, LocalInv
    <3>2. Apply(stmt[t].kind, old[t], temp[t]) \in Values
      BY <3>1, KindOf
    <3> QED
      BY <1>4, <3>1, <3>2
  <2> QED
    BY <1>1, <1>2, <1>3, <1>4, <2>1, FinishIInv
<1>5. CASE Goto(t, "load") /\ UNCHANGED <<x, stmt, temp, old, new, done>>
  <2>1. TypeOK'
    BY <1>1, <1>5 DEF IInv, TypeOK, Goto, Places
  <2>2. ASSUME NEW u \in Threads, u # t
        PROVE  (StmtInv(u) /\ LockInv(u) /\ LocalInv(u) /\ StoreInv(u))'
    BY <1>1, <1>5, <2>2, OtherThread DEF IInv, TypeOK, Goto
  <2>3. (StmtInv(t) /\ LockInv(t) /\ LocalInv(t) /\ StoreInv(t))'
    <3>1. pc'[t] = "load"
      BY <1>5 DEF IInv, TypeOK, Goto
    <3>2. /\ stmt[t] \in updates /\ Lowering(stmt[t]) # "critical"
          /\ done[t] < MaxUpdates /\ temp[t] \in Values
      BY <1>1 DEF IInv, StmtInv, LocalInv, Outside
    <3> HIDE DEF Lowering
    <3> QED
      BY <1>1, <1>2, <1>5, <3>1, <3>2
      DEF StmtInv, LockInv, LocalInv, StoreInv, Outside, Inside, Holding
  <2> QED
    BY <2>1, <2>2, <2>3 DEF IInv
<1> QED
  BY <1>4, <1>5 DEF Swap

\* The entry of the critical region preserves the invariant.
LEMMA EnterIInv ==
  ASSUME IInv, NEW t \in Threads, Enter(t)
  PROVE  IInv'
<1>1. /\ pc[t] = "lock" /\ lock = NoThread /\ lock' = t
      /\ pc' = [pc EXCEPT ![t] = "region"]
      /\ UNCHANGED <<updates, x, stmt, temp, old, new, done>>
  BY DEF Enter, Goto
<1>2. TypeOK'
  BY <1>1 DEF IInv, TypeOK, Places
<1>3. ASSUME NEW u \in Threads, u # t
      PROVE  (StmtInv(u) /\ LockInv(u) /\ LocalInv(u) /\ StoreInv(u))'
  BY <1>1, <1>3, OtherThread, OthersAssumption DEF IInv, TypeOK
<1>4. (StmtInv(t) /\ LockInv(t) /\ LocalInv(t) /\ StoreInv(t))'
  <2>1. pc'[t] = "region"
    BY <1>1 DEF IInv, TypeOK
  <2>2. /\ stmt[t] \in updates /\ Lowering(stmt[t]) = "critical"
        /\ done[t] < MaxUpdates /\ temp[t] = NoValue
    BY <1>1 DEF IInv, StmtInv, LocalInv, Inside
  <2> HIDE DEF Lowering
  <2> QED
    BY <1>1, <2>1, <2>2 DEF StmtInv, LockInv, LocalInv, StoreInv, Outside, Inside, Holding
<1> QED
  BY <1>2, <1>3, <1>4 DEF IInv

\* The statement in the region preserves the invariant.
LEMMA ComputeIInv ==
  ASSUME IInv, NEW t \in Threads, Compute(t)
  PROVE  IInv'
<1>1. PICK a \in Values : /\ temp' = [temp EXCEPT ![t] = a]
                          /\ new' = [new EXCEPT ![t] = Apply(stmt[t].kind, x, a)]
  BY DEF Compute
<1>2. /\ pc[t] = "region"
      /\ pc' = [pc EXCEPT ![t] = "store"]
      /\ UNCHANGED <<updates, x, lock, stmt, old, done>>
  BY DEF Compute, Goto
<1>3. Apply(stmt[t].kind, x, a) \in Values
  BY <1>2, KindOf DEF IInv, TypeOK, StmtInv
<1>4. TypeOK'
  BY <1>1, <1>2, <1>3 DEF IInv, TypeOK, Places
<1>5. ASSUME NEW u \in Threads, u # t
      PROVE  (StmtInv(u) /\ LockInv(u) /\ LocalInv(u) /\ StoreInv(u))'
  BY <1>1, <1>2, <1>5, OtherThread DEF IInv, TypeOK
<1>6. (StmtInv(t) /\ LockInv(t) /\ LocalInv(t) /\ StoreInv(t))'
  <2>1. /\ pc'[t] = "store" /\ temp'[t] = a
        /\ new'[t] = Apply(stmt[t].kind, x, a)
    BY <1>1, <1>2 DEF IInv, TypeOK
  <2>2. /\ stmt[t] \in updates /\ Lowering(stmt[t]) = "critical"
        /\ done[t] < MaxUpdates /\ lock = t
    BY <1>2 DEF IInv, StmtInv, LockInv, Inside, Holding
  <2> HIDE DEF Lowering
  <2> QED
    BY <1>2, <2>1, <2>2 DEF StmtInv, LockInv, LocalInv, StoreInv, Outside, Inside, Holding
<1> QED
  BY <1>4, <1>5, <1>6 DEF IInv

\* The store in the region preserves the invariant: only the holder stores.
LEMMA StoreIInv ==
  ASSUME IInv, NEW t \in Threads, Store(t)
  PROVE  IInv'
<1>1. /\ pc[t] = "store" /\ x' = new[t]
      /\ pc' = [pc EXCEPT ![t] = "unlock"]
      /\ UNCHANGED <<updates, lock, stmt, temp, old, new, done>>
  BY DEF Store, Goto
<1>2. lock = t
  BY <1>1 DEF IInv, LockInv, Holding
<1>3. x' \in Values
  <2>1. /\ stmt[t] \in updates /\ updates \in Locations
        /\ x \in Values /\ temp[t] \in Values
        /\ new[t] = Apply(stmt[t].kind, x, temp[t])
    BY <1>1 DEF IInv, TypeOK, StmtInv, LocalInv, StoreInv
  <2>2. Apply(stmt[t].kind, x, temp[t]) \in Values
    BY <2>1, KindOf
  <2> QED
    BY <1>1, <2>1, <2>2
<1>4. TypeOK'
  BY <1>1, <1>3 DEF IInv, TypeOK, Places
<1>5. ASSUME NEW u \in Threads, u # t
      PROVE  (StmtInv(u) /\ LockInv(u) /\ LocalInv(u) /\ StoreInv(u))'
  <2>1. pc[u] # "store"
    BY <1>2, <1>5 DEF IInv, LockInv, Holding
  <2> QED
    BY <1>1, <1>5, <2>1, OtherThread DEF IInv, TypeOK
<1>6. (StmtInv(t) /\ LockInv(t) /\ LocalInv(t) /\ StoreInv(t))'
  <2>1. pc'[t] = "unlock"
    BY <1>1 DEF IInv, TypeOK
  <2>2. /\ stmt[t] \in updates /\ Lowering(stmt[t]) = "critical"
        /\ done[t] < MaxUpdates
    BY <1>1 DEF IInv, StmtInv, Inside
  <2> HIDE DEF Lowering
  <2> QED
    BY <1>1, <1>2, <2>1, <2>2 DEF StmtInv, LockInv, LocalInv, StoreInv, Outside, Inside, Holding
<1> QED
  BY <1>4, <1>5, <1>6 DEF IInv

\* The exit of the critical region preserves the invariant.
LEMMA LeaveIInv ==
  ASSUME IInv, NEW t \in Threads, Leave(t)
  PROVE  IInv'
<1>1. pc[t] = "unlock" /\ lock' = NoThread /\ Finish(t) /\ UNCHANGED <<updates, x>>
  BY DEF Leave
<1>2. lock = t
  BY <1>1 DEF IInv, LockInv, Holding
<1>3. x' \in Values /\ lock' # t /\ pc[t] # "idle"
  BY <1>1, OthersAssumption DEF IInv, TypeOK
<1>4. \A u \in Threads \ {t} : x' = x \/ pc[u] # "store"
  BY <1>1
<1>5. lock' \in {lock, NoThread} /\ lock \in {lock', t}
  BY <1>1, <1>2
<1> QED
  BY <1>1, <1>3, <1>4, <1>5, FinishIInv

\* A step that changes nothing preserves the invariant.
LEMMA StutterIInv ==
  ASSUME IInv, UNCHANGED vars
  PROVE  IInv'
BY DEF vars, IInv, TypeOK, StmtInv, LockInv, LocalInv, StoreInv

\* Every step preserves the invariant.
LEMMA NextIInv ==
  ASSUME Separate, IInv, [Next]_vars
  PROVE  IInv'
<1>1. CASE UNCHANGED vars
  BY <1>1, StutterIInv
<1>2. ASSUME NEW t \in Threads, Start(t) \/ Step(t)
      PROVE  IInv'
  BY <1>2, StartIInv, OperandIInv, FetchIInv, LoadIInv, SwapIInv, EnterIInv,
     ComputeIInv, StoreIInv, LeaveIInv DEF Step
<1> QED
  BY <1>1, <1>2 DEF Next

\* The invariant holds for ever, of locations updated in one way.
THEOREM IInvAlways == Separate => (Spec => []IInv)
<1> SUFFICES ASSUME Separate
             PROVE  Spec => []IInv
  OBVIOUS
<1>1. Init => IInv
  BY InitIInv
<1>2. IInv /\ [Next]_vars => IInv'
  BY NextIInv
<1> QED
  BY <1>1, <1>2, PTL DEF Spec

\* The state has its types.
THEOREM TypesAlways == Separate => (Spec => []TypeOK)
<1> SUFFICES ASSUME Separate
             PROVE  Spec => []TypeOK
  OBVIOUS
<1>1. IInv => TypeOK
  BY DEF IInv
<1> QED
  BY <1>1, IInvAlways, PTL

-----------------------------------------------------------------------------
(* The refinement: every step is a step of AtomicLocation, or changes nothing *)
(* that it sees.                                                              *)

Called == {"operand", "fetch", "load", "swap", "lock", "region", "store"}

\* The call of a thread, inside of a statement and outside.
LEMMA CallIs ==
  ASSUME IInv, NEW t \in Threads
  PROVE  /\ pc[t] \in Called => /\ CallOf[t] = [kind |-> stmt[t].kind, arg |-> temp[t]]
                                /\ CallOf[t] # Idle
                                /\ CallOf[t].kind = stmt[t].kind
                                /\ CallOf[t].arg = temp[t]
         /\ pc[t] \notin Called => CallOf[t] = Idle
<1>1. pc[t] \in Places
  BY DEF IInv, TypeOK
<1>2. ASSUME pc[t] \in Called
      PROVE  /\ CallOf[t] = [kind |-> stmt[t].kind, arg |-> temp[t]]
             /\ CallOf[t] # Idle
  <2>1. stmt[t] \in updates /\ temp[t] \in Values \cup {NoValue}
    BY <1>2 DEF IInv, TypeOK, StmtInv, Called
  <2>2. stmt[t].kind \in Kinds
    BY <2>1, KindOf DEF IInv, TypeOK
  <2>3. CallOf[t] = [kind |-> stmt[t].kind, arg |-> temp[t]]
    BY <1>2 DEF CallOf, Called
  <2> QED
    BY <2>1, <2>2, <2>3, IdleAssumption
<1>3. pc[t] \notin Called => CallOf[t] = Idle
  BY <1>1 DEF CallOf, Called, Places
<1> QED
  BY <1>2, <1>3

\* Where a step leads the call of its thread; the other calls stay.
LEMMA CallNext ==
  ASSUME IInv, NEW t \in Threads, NEW p \in Places, pc' = [pc EXCEPT ![t] = p],
         \A u \in Threads \ {t} : stmt'[u] = stmt[u] /\ temp'[u] = temp[u]
  PROVE  CallOf' = [CallOf EXCEPT ![t] =
                      IF p \in Called THEN [kind |-> stmt'[t].kind, arg |-> temp'[t]]
                      ELSE Idle]
BY DEF IInv, TypeOK, CallOf, Called, Places

\* A finished update has no call any more.
LEMMA CallFinished ==
  ASSUME IInv, NEW t \in Threads, Finish(t)
  PROVE  CallOf' = [CallOf EXCEPT ![t] = Idle]
<1>1. pc' = [pc EXCEPT ![t] = "idle"]
  BY DEF Finish, Goto
<1>2. \A u \in Threads \ {t} : stmt'[u] = stmt[u] /\ temp'[u] = temp[u]
  BY DEF Finish, Forget, IInv, TypeOK
<1>3. "idle" \in Places /\ "idle" \notin Called
  BY DEF Places, Called
<1> QED
  BY <1>1, <1>2, <1>3, CallNext

\* The start of a statement is a call.
LEMMA StartRefines ==
  ASSUME IInv, NEW t \in Threads, Start(t)
  PROVE  Abstract!Call(t)
<1>1. PICK s \in updates :
        /\ stmt' = [stmt EXCEPT ![t] = s]
        /\ \/ /\ Lowering(s) = "critical"
              /\ Goto(t, "lock")
              /\ temp' = [temp EXCEPT ![t] = NoValue]
           \/ /\ Lowering(s) # "critical"
              /\ s.kind \in Increments
              /\ Goto(t, Operate(s))
              /\ temp' = [temp EXCEPT ![t] = One]
           \/ /\ Lowering(s) # "critical"
              /\ s.kind \notin Increments
              /\ Goto(t, "operand")
              /\ temp' = [temp EXCEPT ![t] = NoValue]
  BY DEF Start
<1>2. pc[t] = "idle" /\ x' = x
  BY DEF Start
<1>3. s.kind \in Kinds
  BY KindOf DEF IInv, TypeOK
<1>4. PICK p \in {"lock", "operand", "fetch", "load"} : pc' = [pc EXCEPT ![t] = p]
  BY <1>1 DEF Goto, Operate
<1>5. PICK a \in Values \cup {NoValue} : temp' = [temp EXCEPT ![t] = a]
  BY <1>1, ValuesAssumption
<1>6. /\ stmt'[t] = s /\ temp'[t] = a
      /\ \A u \in Threads \ {t} : stmt'[u] = stmt[u] /\ temp'[u] = temp[u]
  BY <1>1, <1>5 DEF IInv, TypeOK
<1>7. CallOf' = [CallOf EXCEPT ![t] = [kind |-> s.kind, arg |-> a]]
  <2>1. p \in Places /\ p \in Called
    BY DEF Places, Called
  <2> QED
    BY <1>4, <1>6, <2>1, CallNext
<1>8. CallOf[t] = Idle
  BY <1>2, CallIs DEF Called
<1> QED
  BY <1>2, <1>3, <1>7, <1>8 DEF Abstract!Call

\* The evaluation of the operand, before the update or in the region.
LEMMA OperandRefines ==
  ASSUME IInv, NEW t \in Threads, Operand(t) \/ Compute(t)
  PROVE  Abstract!Operand(t)
<1>1. PICK a \in Values : temp' = [temp EXCEPT ![t] = a]
  BY DEF Operand, Compute
<1>2. pc[t] \in {"operand", "region"} /\ x' = x /\ stmt' = stmt
  BY DEF Operand, Compute
<1>3. PICK p \in {"fetch", "load", "store"} : pc' = [pc EXCEPT ![t] = p]
  BY DEF Operand, Compute, Goto, Operate
<1>4. /\ temp'[t] = a
      /\ \A u \in Threads \ {t} : stmt'[u] = stmt[u] /\ temp'[u] = temp[u]
  BY <1>1, <1>2 DEF IInv, TypeOK
<1>5. CallOf' = [CallOf EXCEPT ![t] = [kind |-> stmt[t].kind, arg |-> a]]
  <2>1. p \in Places /\ p \in Called
    BY DEF Places, Called
  <2> QED
    BY <1>2, <1>3, <1>4, <2>1, CallNext
<1>6. /\ CallOf[t] # Idle /\ CallOf[t].kind = stmt[t].kind
      /\ CallOf[t].arg = NoValue
  BY <1>2, CallIs DEF Called, IInv, LocalInv
<1> QED
  BY <1>2, <1>5, <1>6 DEF Abstract!Operand

\* A step that finishes an update, or stores in the region, having computed it
\* from the value the location has, is the effect of the update.
LEMMA EffectRefines ==
  ASSUME IInv, NEW t \in Threads, pc[t] \in {"fetch", "swap", "store"},
         x' = Apply(stmt[t].kind, x, temp[t]),
         CallOf' = [CallOf EXCEPT ![t] = Idle]
  PROVE  Abstract!Effect(t)
<1>1. /\ CallOf[t] # Idle /\ CallOf[t].kind = stmt[t].kind
      /\ CallOf[t].arg = temp[t]
  BY CallIs DEF Called
<1>2. temp[t] # NoValue
  BY ValuesAssumption DEF IInv, LocalInv
<1> QED
  BY <1>1, <1>2 DEF Abstract!Effect

\* The builtin is the effect of its update.
LEMMA FetchRefines ==
  ASSUME IInv, NEW t \in Threads, Fetch(t)
  PROVE  Abstract!Effect(t)
BY EffectRefines, CallFinished DEF Fetch

\* A swap that succeeds is the effect, one that fails changes nothing.
LEMMA SwapRefines ==
  ASSUME IInv, NEW t \in Threads, Swap(t)
  PROVE  Abstract!Effect(t) \/ UNCHANGED <<x, CallOf>>
<1>1. pc[t] = "swap"
  BY DEF Swap
<1>2. CASE x = old[t] /\ x' = new[t] /\ Finish(t)
  <2>1. x' = Apply(stmt[t].kind, x, temp[t])
    BY <1>1, <1>2 DEF IInv, LocalInv
  <2> QED
    BY <1>1, <1>2, <2>1, EffectRefines, CallFinished
<1>3. CASE Goto(t, "load") /\ UNCHANGED <<x, stmt, temp, old, new, done>>
  BY <1>1, <1>3 DEF CallOf, Goto, IInv, TypeOK
<1> QED
  BY <1>2, <1>3 DEF Swap

\* The store in the region is the effect.
LEMMA StoreRefines ==
  ASSUME IInv, NEW t \in Threads, Store(t)
  PROVE  Abstract!Effect(t)
<1>1. /\ pc[t] = "store" /\ x' = new[t]
      /\ pc' = [pc EXCEPT ![t] = "unlock"]
      /\ UNCHANGED <<stmt, temp>>
  BY DEF Store, Goto
<1>2. "unlock" \in Places /\ "unlock" \notin Called
  BY DEF Places, Called
<1>3. CallOf' = [CallOf EXCEPT ![t] = Idle]
  BY <1>1, <1>2, CallNext
<1>4. x' = Apply(stmt[t].kind, x, temp[t])
  BY <1>1 DEF IInv, StoreInv
<1> QED
  BY <1>1, <1>3, <1>4, EffectRefines

\* The read, the entry and the exit of the region change nothing abstract.
LEMMA HiddenSteps ==
  ASSUME IInv, NEW t \in Threads, Load(t) \/ Enter(t) \/ Leave(t)
  PROVE  UNCHANGED <<x, CallOf>>
<1>1. CASE Load(t)
  BY <1>1 DEF Load, Goto, CallOf, IInv, TypeOK
<1>2. CASE Enter(t)
  BY <1>2 DEF Enter, Goto, CallOf, IInv, TypeOK
<1>3. CASE Leave(t)
  <2>1. CallOf[t] = Idle
    BY <1>3, CallIs DEF Leave, Called
  <2>2. CallOf' = [CallOf EXCEPT ![t] = Idle]
    BY <1>3, CallFinished DEF Leave
  <2>3. CallOf' = CallOf
    BY <2>1, <2>2 DEF CallOf
  <2> QED
    BY <1>3, <2>3 DEF Leave
<1> QED
  BY <1>1, <1>2, <1>3

\* Every step maps to a step of AtomicLocation.
LEMMA NextRefines ==
  ASSUME IInv, [Next]_vars
  PROVE  [Abstract!Next]_<<x, CallOf>>
<1>1. CASE UNCHANGED vars
  BY <1>1 DEF vars, CallOf
<1>2. ASSUME NEW t \in Threads, Start(t) \/ Step(t)
      PROVE  [Abstract!Next]_<<x, CallOf>>
  BY <1>2, StartRefines, OperandRefines, FetchRefines, SwapRefines, StoreRefines,
     HiddenSteps DEF Step, Abstract!Next
<1> QED
  BY <1>1, <1>2 DEF Next

\* Updates are atomic on a location updated in one way, for any number of
\* threads and any operations, with builtins and exchanges mixed.
THEOREM AtomicImplements == Separate => (Spec => ImplementsAtomicLocation)
<1> SUFFICES ASSUME Separate
             PROVE  Spec => ImplementsAtomicLocation
  OBVIOUS
<1>1. Init => Abstract!Init
  BY DEF Init, Abstract!Init, CallOf
<1>2. IInv /\ [Next]_vars => [Abstract!Next]_<<x, CallOf>>
  BY NextRefines
<1> QED
  BY <1>1, <1>2, IInvAlways, PTL DEF Spec, ImplementsAtomicLocation, Abstract!Spec
=============================================================================
