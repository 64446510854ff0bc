------------------------- MODULE ConnectionPoolProofs -------------------------
(***************************************************************************)
(* The safety of ConnectionPool for any number of threads and connections. *)
(***************************************************************************)
EXTENDS ConnectionPool, FiniteSetTheorems, TLAPS

\* What taking the head leaves of a queue without repetitions.
LEMMA PopFacts ==
    ASSUME NEW S, NEW q \in Seq(S), q # <<>>, IsInjective(q)
    PROVE  /\ Tail(q) \in Seq(S)
           /\ Head(q) \in S
           /\ IsInjective(Tail(q))
           /\ Head(q) \notin Range(Tail(q))
           /\ Range(q) = Range(Tail(q)) \cup {Head(q)}
<1>1. Len(q) \in Nat \ {0} /\ DOMAIN q = 1 .. Len(q) /\ Head(q) = q[1]
  OBVIOUS
<1>2. Tail(q) \in Seq(S) /\ Len(Tail(q)) = Len(q) - 1
  OBVIOUS
<1>3. \A i \in 1 .. Len(q) - 1 : Tail(q)[i] = q[i + 1]
  BY <1>1
<1>4. DOMAIN Tail(q) = 1 .. Len(q) - 1
  BY <1>2
<1>5. IsInjective(Tail(q))
  BY <1>1, <1>3, <1>4 DEF IsInjective
<1>6. Head(q) \notin Range(Tail(q))
  BY <1>1, <1>3, <1>4 DEF IsInjective, Range
<1>7. Range(q) \subseteq Range(Tail(q)) \cup {Head(q)}
  <2> SUFFICES ASSUME NEW i \in 1 .. Len(q), i # 1
               PROVE  q[i] \in Range(Tail(q))
    BY <1>1 DEF Range
  <2>1. i - 1 \in 1 .. Len(q) - 1 /\ q[i] = Tail(q)[i - 1]
    BY <1>1, <1>3
  <2> QED  BY <2>1, <1>4 DEF Range
<1>8. Range(Tail(q)) \cup {Head(q)} \subseteq Range(q)
  BY <1>1, <1>3, <1>4 DEF Range
<1> QED  BY <1>1, <1>2, <1>5, <1>6, <1>7, <1>8

\* What appending a new element makes of a queue without repetitions.
LEMMA PushFacts ==
    ASSUME NEW S, NEW q \in Seq(S), NEW x \in S,
           IsInjective(q), x \notin Range(q)
    PROVE  /\ Append(q, x) \in Seq(S)
           /\ IsInjective(Append(q, x))
           /\ Range(Append(q, x)) = Range(q) \cup {x}
<1> DEFINE p == Append(q, x)
<1>1. Len(q) \in Nat /\ DOMAIN q = 1 .. Len(q)
  OBVIOUS
<1>2. p \in Seq(S) /\ DOMAIN p = 1 .. Len(q) + 1
  OBVIOUS
<1>3. p[Len(q) + 1] = x /\ \A i \in 1 .. Len(q) : p[i] = q[i]
  OBVIOUS
<1> HIDE DEF p
<1>4. IsInjective(p)
  BY <1>1, <1>2, <1>3 DEF IsInjective, Range
<1>5. Range(p) = Range(q) \cup {x}
  BY <1>1, <1>2, <1>3 DEF Range
<1> QED  BY <1>2, <1>4, <1>5 DEF p
------------------------------------------------------------------------------
Typing ==
    /\ pool \in Seq(Conns)
    /\ mutex \in Threads \cup {NoThread}
    /\ lease \in [Threads -> Conns \cup {NoConn}]
    /\ txOpen \subseteq Conns
    /\ pc \in [Threads -> Points]

\* The mutex is owned by the thread in a critical region, and by no other.
MutexOwner == \A t \in Threads : pc[t] \in Critical <=> mutex = t

\* A thread has a connection exactly between the pop and the push.
LeaseInterval == \A t \in Threads : pc[t] \in Leasing <=> lease[t] # NoConn

\* An open transaction belongs to the thread that has the connection.
TxOwner ==
    \A c \in txOpen :
        \E t \in Threads : lease[t] = c /\ pc[t] \in {"inTx", "unwinding"}

IInv ==
    /\ Typing
    /\ MutexOwner
    /\ LeaseInterval
    /\ Exclusive
    /\ NothingLeaked
    /\ TxOwner

------------------------------------------------------------------------------

\* The constructor's queue holds every connection.
LEMMA InitPoolFull ==
    ASSUME Init
    PROVE  Range(pool) = Conns
<1>1. Cardinality(Conns) \in Nat
  BY FS_CardinalityType, ConnsAssumption
<1>2. pool \in Injection(1 .. Cardinality(Conns), Conns)
  BY DEF Init, Injection
<1>3. Cardinality(1 .. Cardinality(Conns)) = Cardinality(Conns)
  BY <1>1, FS_Interval
<1>4. pool \in Surjection(1 .. Cardinality(Conns), Conns)
  BY <1>2, <1>3, FS_Injection, ConnsAssumption
<1> QED  BY <1>4 DEF Surjection, Range

\* The inductive invariant holds initially.
LEMMA InitIInv == Init => IInv
<1> SUFFICES ASSUME Init PROVE IInv
  OBVIOUS
<1> USE ConnsAssumption, ThreadsAssumption
<1>1. Cardinality(Conns) \in Nat
  BY FS_CardinalityType
<1>2. Typing /\ MutexOwner /\ LeaseInterval /\ TxOwner
  BY <1>1 DEF Init, Typing, MutexOwner, LeaseInterval, TxOwner,
              Critical, Leasing, Points, Asking, Awake
<1>3. Range(pool) = Conns
  BY InitPoolFull
<1>4. Exclusive /\ NothingLeaked
  BY <1>3 DEF Init, Exclusive, NothingLeaked
<1> QED  BY <1>2, <1>4 DEF IInv

\* Every step of a thread preserves the inductive invariant.  Only the pop and
\* the push move a connection; the other steps follow from the control points.
LEMMA StepIInv ==
    ASSUME IInv, NEW t \in Threads,
           Request(t) \/ SpuriousWakeup(t) \/ Step(t)
    PROVE  IInv'
<1> USE ConnsAssumption, ThreadsAssumption
<1> USE DEF Typing, MutexOwner, LeaseInterval, Exclusive, NothingLeaked, TxOwner,
            IInv, Move, At, Awake, Asking, Leasing, Critical, Points
<1>1. CASE Request(t) \/ SpuriousWakeup(t)
  BY <1>1 DEF Request, SpuriousWakeup, Pass
<1>2. CASE Lock(t) \/ Wait(t)
  BY <1>2 DEF Lock, Wait
<1>3. CASE Take(t)
  <2>1. /\ Tail(pool) \in Seq(Conns)
        /\ Head(pool) \in Conns
        /\ IsInjective(Tail(pool))
        /\ Head(pool) \notin Range(Tail(pool))
        /\ Range(pool) = Range(Tail(pool)) \cup {Head(pool)}
    BY <1>3, PopFacts DEF Take, PopFront
  <2>2. lease[t] = NoConn
    BY <1>3 DEF Take, PopFront
  <2>3. Typing' /\ MutexOwner' /\ LeaseInterval'
    BY <1>3, <2>1 DEF Take, PopFront
  <2>4. Exclusive'
    BY <1>3, <2>1, <2>2 DEF Take, PopFront
  <2>5. NothingLeaked'
    BY <1>3, <2>1, <2>2 DEF Take, PopFront
  <2>6. TxOwner'
    BY <1>3, <2>1, <2>2 DEF Take, PopFront
  <2> QED  BY <2>3, <2>4, <2>5, <2>6
<1>4. CASE BeginTx(t)
  BY <1>4 DEF BeginTx
<1>5. CASE BeginFails(t) \/ Throw(t)
  BY <1>5 DEF BeginFails, Throw, Pass
<1>6. CASE Commit(t) \/ Rollback(t)
  BY <1>6 DEF Commit, Rollback
<1>7. CASE LockToReturn(t)
  BY <1>7 DEF LockToReturn
<1>8. CASE Push(t)
  <2>1. lease[t] \in Conns /\ lease[t] \notin Range(pool)
    BY <1>8 DEF Push
  <2>2. /\ Append(pool, lease[t]) \in Seq(Conns)
        /\ IsInjective(Append(pool, lease[t]))
        /\ Range(Append(pool, lease[t])) = Range(pool) \cup {lease[t]}
    BY <2>1, PushFacts
  <2>3. Typing' /\ MutexOwner' /\ LeaseInterval'
    BY <1>8, <2>2 DEF Push
  <2>4. Exclusive'
    <3>1. IsInjective(pool)' /\ Range(pool)' = Range(pool) \cup {lease[t]}
      BY <1>8, <2>2 DEF Push
    <3>2. /\ lease'[t] = NoConn
          /\ \A u \in Threads \ {t} : lease'[u] = lease[u] /\ lease[u] # lease[t]
      BY <1>8, <2>1 DEF Push
    <3>3. NoConn \notin Range(pool)'
      BY <2>3 DEF Range
    <3> QED  BY <3>1, <3>2, <3>3
  <2>5. NothingLeaked'
    BY <1>8, <2>2 DEF Push
  <2>6. TxOwner'
    BY <1>8, <2>1 DEF Push
  <2> QED  BY <2>3, <2>4, <2>5, <2>6
<1>9. CASE NotifyOne(t)
  BY <1>9 DEF NotifyOne, Sleepers
<1> QED
  BY <1>1, <1>2, <1>3, <1>4, <1>5, <1>6, <1>7, <1>8, <1>9 DEF Step

\* The inductive invariant holds in every reachable state.
THEOREM Inductive == Spec => []IInv
<1>1. Init => IInv
  BY InitIInv
<1>2. IInv /\ [Next]_vars => IInv'
  <2> SUFFICES ASSUME IInv, [Next]_vars PROVE IInv'
    OBVIOUS
  <2>1. CASE Next
    BY <2>1, StepIInv DEF Next
  <2>2. CASE UNCHANGED vars
    BY <2>2 DEF vars, IInv, Typing, MutexOwner, LeaseInterval, Exclusive,
                NothingLeaked, TxOwner, At
  <2> QED  BY <2>1, <2>2
<1> QED  BY <1>1, <1>2, PTL DEF Spec

------------------------------------------------------------------------------

\* A queue without repetitions is no longer than the set it draws from.
THEOREM TypeCorrect == Spec => []TypeOK
<1>1. IInv => TypeOK
  <2> SUFFICES ASSUME IInv PROVE TypeOK
    OBVIOUS
  <2>1. pool \in Injection(1 .. Len(pool), Conns)
    BY DEF IInv, Typing, Exclusive, Injection
  <2>2. Cardinality(1 .. Len(pool)) = Len(pool)
    <3>1. Len(pool) \in Nat
      BY DEF IInv, Typing
    <3> QED  BY <3>1, FS_Interval
  <2>3. Cardinality(1 .. Len(pool)) <= Cardinality(Conns)
    BY <2>1, FS_Injection, ConnsAssumption
  <2> QED  BY <2>2, <2>3 DEF IInv, Typing, TypeOK
<1> QED  BY <1>1, Inductive, PTL

\* No two threads ever share a connection, and none is both lent and free.
THEOREM ConnectionsExclusive == Spec => []Exclusive
<1>1. IInv => Exclusive
  BY DEF IInv
<1> QED  BY <1>1, Inductive, PTL

\* Exceptions included, the pool never loses a connection.
THEOREM ConnectionsConserved == Spec => []NothingLeaked
<1>1. IInv => NothingLeaked
  BY DEF IInv
<1> QED  BY <1>1, Inductive, PTL

\* The queue is never accessed by two threads at once.
THEOREM PoolRaceFree == Spec => []PoolAccessExclusive
<1>1. IInv => PoolAccessExclusive
  BY DEF IInv, MutexOwner, PoolAccessExclusive, At
<1> QED  BY <1>1, Inductive, PTL

\* Every connection in the queue is outside any transaction.
THEOREM ConnectionsReturnClean == Spec => []PooledConnectionsClean
<1>1. IInv => PooledConnectionsClean
  BY DEF IInv, Exclusive, TxOwner, PooledConnectionsClean
<1> QED  BY <1>1, Inductive, PTL

------------------------------------------------------------------------------

\* The threads that will look at the queue, or will make another one look.
Alert == At(Awake \cup {"notifying"})

\* Sets of threads are finite, so that Cardinality counts them.
LEMMA ThreadSetsFinite ==
    \A S \in SUBSET Threads : IsFiniteSet(S) /\ Cardinality(S) \in Nat
  BY ThreadsAssumption, FS_Subset, FS_CardinalityType

\* The bound between connections in the queue and alert threads survives every
\* step: a push adds one of each, a pop removes one of each, notify_one trades
\* the notifier for the thread it wakes, and a thread falls asleep only when
\* the queue is empty.
LEMMA StepNoLostWakeup ==
    ASSUME IInv, IInv', NoLostWakeup, NEW t \in Threads,
           Request(t) \/ SpuriousWakeup(t) \/ Step(t)
    PROVE  NoLostWakeup'
<1> USE DEF NoLostWakeup, Sleepers
<1>1. /\ IsFiniteSet(Alert) /\ IsFiniteSet(Alert')
      /\ Cardinality(Alert) \in Nat /\ Cardinality(Alert') \in Nat
  <2>1. Alert \in SUBSET Threads /\ Alert' \in SUBSET Threads
    BY DEF Alert, At
  <2> QED  BY <2>1, ThreadSetsFinite
<1>2. Len(pool) \in Nat /\ pc \in [Threads -> Points]
  BY DEF IInv, Typing
<1>3. Sleepers # {} => Len(pool) <= Cardinality(Alert)
  BY DEF Alert
<1>4. (Sleepers' # {} => Len(pool') <= Cardinality(Alert')) => NoLostWakeup'
  BY DEF Alert
<1>5. CASE Request(t) \/ SpuriousWakeup(t)
  <2>1. Alert \subseteq Alert' /\ Sleepers' \subseteq Sleepers /\ pool' = pool
    BY <1>2, <1>5 DEF Request, SpuriousWakeup, Pass, Move, At, Alert, Awake
  <2>2. Cardinality(Alert) <= Cardinality(Alert')
    BY <2>1, <1>1, FS_Subset
  <2> QED  BY <1>1, <1>2, <1>3, <1>4, <2>1, <2>2
<1>6. CASE Wait(t)
  BY <1>1, <1>4, <1>6 DEF Wait
<1>7. CASE Take(t)
  <2>1. t \in Alert /\ Alert' = Alert \ {t} /\ Sleepers' = Sleepers
    BY <1>2, <1>7 DEF Take, PopFront, Move, At, Alert, Awake
  <2>2. Len(pool') = Len(pool) - 1
    BY <1>7 DEF Take, PopFront, IInv, Typing
  <2>3. Cardinality(Alert') = Cardinality(Alert) - 1
    BY <2>1, <1>1, FS_RemoveElement
  <2> QED  BY <1>1, <1>2, <1>3, <1>4, <2>1, <2>2, <2>3
<1>8. CASE Push(t)
  <2>1. t \notin Alert /\ Alert' = Alert \cup {t} /\ Sleepers' = Sleepers
    BY <1>2, <1>8 DEF Push, Move, At, Alert, Awake
  <2>2. Len(pool') = Len(pool) + 1
    BY <1>8 DEF Push, IInv, Typing
  <2>3. Cardinality(Alert') = Cardinality(Alert) + 1
    BY <2>1, <1>1, FS_AddElement
  <2> QED  BY <1>1, <1>2, <1>3, <1>4, <2>1, <2>2, <2>3
<1>9. CASE NotifyOne(t)
  <2>1. CASE Sleepers = {}
    BY <1>2, <1>4, <1>9, <2>1 DEF NotifyOne, Move, At
  <2>2. ASSUME NEW u \in Sleepers,
               pc' = [pc EXCEPT ![t] = "idle", ![u] = "locking"]
        PROVE  NoLostWakeup'
    <3>1. /\ t \in Alert /\ u \notin Alert \ {t} /\ u # t
          /\ Alert' = (Alert \ {t}) \cup {u}
      BY <1>2, <1>9, <2>2 DEF NotifyOne, At, Alert, Awake
    <3>2. Cardinality(Alert') = Cardinality(Alert)
      <4>1. /\ IsFiniteSet(Alert \ {t})
            /\ Cardinality(Alert \ {t}) = Cardinality(Alert) - 1
        BY <3>1, <1>1, FS_RemoveElement
      <4>2. Cardinality(Alert') = Cardinality(Alert \ {t}) + 1
        BY <3>1, <4>1, FS_AddElement
      <4> QED  BY <1>1, <4>1, <4>2
    <3>3. pool' = pool
      BY <1>9 DEF NotifyOne
    <3> QED  BY <1>1, <1>2, <1>3, <1>4, <2>2, <3>2, <3>3
  <2> QED  BY <1>9, <2>1, <2>2 DEF NotifyOne
<1>10. CASE \/ Lock(t) \/ BeginTx(t) \/ BeginFails(t) \/ Commit(t)
            \/ Throw(t) \/ Rollback(t) \/ LockToReturn(t)
  <2>1. Alert' = Alert /\ Sleepers' = Sleepers /\ pool' = pool
    BY <1>2, <1>10 DEF Lock, BeginTx, BeginFails, Commit, Throw, Pass, Rollback,
                       LockToReturn, Move, At, Alert, Awake
  <2> QED  BY <1>3, <1>4, <2>1
<1> QED
  BY <1>5, <1>6, <1>7, <1>8, <1>9, <1>10 DEF Step

\* No wake-up is lost, however many threads and connections there are.
THEOREM WakeupsKept == Spec => []NoLostWakeup
<1>1. Init => NoLostWakeup
  BY DEF Init, NoLostWakeup, Sleepers, At
<1>2. IInv /\ IInv' /\ NoLostWakeup /\ [Next]_vars => NoLostWakeup'
  <2> SUFFICES ASSUME IInv, IInv', NoLostWakeup, [Next]_vars
               PROVE  NoLostWakeup'
    OBVIOUS
  <2>1. CASE Next
    BY <2>1, StepNoLostWakeup DEF Next
  <2>2. CASE UNCHANGED vars
    BY <2>2 DEF vars, NoLostWakeup, Sleepers, At
  <2> QED  BY <2>1, <2>2
<1> QED  BY <1>1, <1>2, Inductive, PTL DEF Spec

------------------------------------------------------------------------------

\* Every step of a thread is a step of ConnectionLease, or leaves it alone.
LEMMA StepRefines ==
    ASSUME IInv, NEW t \in Threads,
           Request(t) \/ SpuriousWakeup(t) \/ Step(t)
    PROVE  Lending!Next \/ UNCHANGED Lending!vars
<1>1. pc \in [Threads -> Points] /\ pool \in Seq(Conns)
  BY DEF IInv, Typing
<1>2. CASE Request(t)
  <2>1. /\ t \notin At(Asking) /\ lease[t] = NoConn
        /\ At(Asking)' = At(Asking) \cup {t} /\ pool' = pool /\ lease' = lease
    BY <1>1, <1>2 DEF Request, Pass, Move, At, Asking, Awake, Leasing, IInv, LeaseInterval
  <2> QED  BY <2>1 DEF Lending!Next, Lending!Request
<1>3. CASE Take(t)
  <2>1. /\ t \in At(Asking) /\ At(Asking)' = At(Asking) \ {t}
        /\ lease' = [lease EXCEPT ![t] = Head(pool)]
    BY <1>1, <1>3 DEF Take, PopFront, Move, At, Asking, Awake
  <2>2. /\ Head(pool) \in Conns /\ Head(pool) \in Range(pool)
        /\ Range(pool)' = Range(pool) \ {Head(pool)}
    BY <1>1, <1>3, PopFacts DEF Take, PopFront, IInv, Exclusive
  <2>3. Lending!Lease(t, Head(pool))
    BY <2>1, <2>2 DEF Lending!Lease
  <2> QED  BY <2>2, <2>3 DEF Lending!Next, Lending!SomeLease
<1>4. CASE Push(t)
  <2>1. /\ lease[t] \in Conns /\ lease[t] # NoConn /\ lease[t] \notin Range(pool)
        /\ At(Asking)' = At(Asking)
        /\ lease' = [lease EXCEPT ![t] = NoConn]
    BY <1>1, <1>4
       DEF Push, Move, At, Asking, Awake, Leasing, IInv, Typing, LeaseInterval, Exclusive
  <2>2. Range(pool)' = Range(pool) \cup {lease[t]}
    BY <1>1, <1>4, <2>1, PushFacts DEF Push, IInv, Exclusive
  <2>3. Lending!Return(t)
    BY <2>1, <2>2 DEF Lending!Return
  <2> QED  BY <2>3 DEF Lending!Next
<1>5. CASE SpuriousWakeup(t) \/ Lock(t) \/ Wait(t) \/ NotifyOne(t)
  <2>1. At(Asking)' = At(Asking) /\ pool' = pool /\ lease' = lease
    BY <1>1, <1>5 DEF SpuriousWakeup, Pass, Lock, Wait, NotifyOne, Sleepers,
                      Move, At, Asking, Awake
  <2> QED  BY <2>1 DEF Lending!vars
<1>6. CASE \/ BeginTx(t) \/ BeginFails(t) \/ Commit(t)
           \/ Throw(t) \/ Rollback(t) \/ LockToReturn(t)
  <2>1. At(Asking)' = At(Asking) /\ pool' = pool /\ lease' = lease
    BY <1>1, <1>6 DEF BeginTx, BeginFails, Commit, Throw, Pass, Rollback,
                      LockToReturn, Move, At, Asking, Awake
  <2> QED  BY <2>1 DEF Lending!vars
<1> QED
  BY <1>2, <1>3, <1>4, <1>5, <1>6 DEF Step

\* The safety half of ImplementsLease: the pool's mutex, queue and condition
\* variable amount to atomic loans and returns of connections.
THEOREM PoolRefinesLease == Spec => Lending!Spec
<1>1. Init => Lending!Init
  <2> SUFFICES ASSUME Init PROVE Lending!Init
    OBVIOUS
  <2>1. At(Asking) = {} /\ lease = [t \in Threads |-> NoConn]
    BY DEF Init, At, Asking, Awake
  <2> QED  BY <2>1, InitPoolFull DEF Lending!Init
<1>2. IInv /\ [Next]_vars => [Lending!Next]_Lending!vars
  <2> SUFFICES ASSUME IInv, [Next]_vars
               PROVE  [Lending!Next]_Lending!vars
    OBVIOUS
  <2>1. CASE Next
    BY <2>1, StepRefines DEF Next
  <2>2. CASE UNCHANGED vars
    BY <2>2 DEF vars, Lending!vars, At
  <2> QED  BY <2>1, <2>2
<1> QED  BY <1>1, <1>2, Inductive, PTL DEF Spec, Lending!Spec
===============================================================================
