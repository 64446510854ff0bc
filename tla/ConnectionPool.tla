---------------------------- MODULE ConnectionPool ----------------------------
(***************************************************************************)
(* PostgresConnectionProvider: a fixed set of database connections in a    *)
(* queue guarded by a mutex and a condition variable, used by the HTTP     *)
(* worker threads.  Every repository operation takes one connection with   *)
(* Connection(), runs one pqxx transaction on it and gives it back in the  *)
(* deleter of the PooledConnection, on the normal and on the exceptional   *)
(* path alike.                                                             *)
(***************************************************************************)
EXTENDS Naturals, Sequences, FiniteSets, Functions

CONSTANTS
    Threads,    \* HTTP worker threads ("concurrency" in configuration.json)
    Conns,      \* the connections of the pool ("poolSize")
    NoConn,     \* a thread holds no connection
    NoThread    \* nobody holds the mutex

ASSUME ThreadsAssumption == IsFiniteSet(Threads) /\ NoThread \notin Threads
ASSUME ConnsAssumption == IsFiniteSet(Conns) /\ NoConn \notin Conns

VARIABLES
    pool,     \* connectionPool, a FIFO queue
    mutex,    \* the owner of connectionPoolMutex, or NoThread
    lease,    \* lease[t]: the connection of t's PooledConnection, or NoConn
    txOpen,   \* the connections with an open transaction (a live pqxx::work)
    pc        \* pc[t]: where t is in its repository operation

vars == <<pool, mutex, lease, txOpen, pc>>

(***************************************************************************)
(* Control points.  A thread in Asking is inside Connection(); the awake   *)
(* ones will look at the queue before they sleep.  The condition variable  *)
(* is the set of sleeping threads.                                         *)
(***************************************************************************)
Awake    == {"locking", "checking"}
Asking   == Awake \cup {"sleeping"}
Leasing  == {"leased", "inTx", "unwinding", "returning", "pushing"}
Critical == {"checking", "pushing"}
Points   == {"idle", "notifying"} \cup Asking \cup Leasing

At(points) == {t \in Threads : pc[t] \in points}
Sleepers   == At({"sleeping"})

Move(t, point) == pc' = [pc EXCEPT ![t] = point]

\* A thread goes on, and changes nothing else.
Pass(t, from, to) ==
    /\ pc[t] = from
    /\ Move(t, to)
    /\ UNCHANGED <<pool, mutex, lease, txOpen>>

Init ==
    /\ pool \in {q \in [1 .. Cardinality(Conns) -> Conns] : IsInjective(q)}
    /\ mutex = NoThread
    /\ lease = [t \in Threads |-> NoConn]
    /\ txOpen = {}
    /\ pc = [t \in Threads |-> "idle"]

(***************************************************************************)
(* Bugs the code could have had; PROJECT.json names the step each replaces *)
(* and the property that catches it.  No specification below uses them.    *)
(***************************************************************************)

\* front() without pop().
KeepFront == pool

\* The exception escapes past a connection that is not held by RAII.
ThrowLeaks(t) == Pass(t, "inTx", "idle")
BeginFailsLeaks(t) == Pass(t, "leased", "idle")

\* The transaction outlives the PooledConnection.
ThrowSkipsRollback(t) == Pass(t, "inTx", "returning")

\* The deleter pushes without the lock_guard.
ReturnUnlocked(t) ==
    /\ pc[t] = "returning"
    /\ mutex' = t
    /\ Move(t, "pushing")
    /\ UNCHANGED <<pool, lease, txOpen>>

\* "Nobody can be waiting unless the queue was empty."
PushNotifiesIfEmpty(t) ==
    /\ pc[t] = "pushing"
    /\ pool' = Append(pool, lease[t])
    /\ lease' = [lease EXCEPT ![t] = NoConn]
    /\ mutex' = NoThread
    /\ Move(t, IF pool = <<>> THEN "notifying" ELSE "idle")
    /\ UNCHANGED txOpen

\* The deleter forgets notify_one.
NotifyNobody(t) == Pass(t, "notifying", "idle")

(***************************************************************************)
(* Connection()                                                            *)
(***************************************************************************)

\* A repository operation begins and calls Connection().
Request(t) == Pass(t, "idle", "locking")

\* The unique_lock is taken, at first or again after a wake-up.
Lock(t) ==
    /\ pc[t] = "locking"
    /\ mutex = NoThread
    /\ mutex' = t
    /\ Move(t, "checking")
    /\ UNCHANGED <<pool, lease, txOpen>>

\* wait(): the predicate is false, so the mutex is released and the thread
\* joins the wait set in one step.
Wait(t) ==
    /\ pc[t] = "checking"
    /\ pool = <<>>
    /\ mutex' = NoThread
    /\ Move(t, "sleeping")
    /\ UNCHANGED <<pool, lease, txOpen>>

\* A condition variable may wake a waiter without any notification.
SpuriousWakeup(t) == Pass(t, "sleeping", "locking")

PopFront == Tail(pool)

\* The predicate is true: pop the front, wrap it, and unlock on return.
Take(t) ==
    /\ pc[t] = "checking"
    /\ pool # <<>>
    /\ lease' = [lease EXCEPT ![t] = Head(pool)]
    /\ pool' = PopFront
    /\ mutex' = NoThread
    /\ Move(t, "leased")
    /\ UNCHANGED txOpen

(***************************************************************************)
(* The repository operation that uses the connection                       *)
(***************************************************************************)

\* pqxx::work tx(connection)
BeginTx(t) ==
    /\ pc[t] = "leased"
    /\ txOpen' = txOpen \cup {lease[t]}
    /\ Move(t, "inTx")
    /\ UNCHANGED <<pool, mutex, lease>>

\* The constructor of pqxx::work throws: there is no transaction to undo.
BeginFails(t) == Pass(t, "leased", "returning")

\* tx.commit() succeeds and the operation returns.
Commit(t) ==
    /\ pc[t] = "inTx"
    /\ txOpen' = txOpen \ {lease[t]}
    /\ Move(t, "returning")
    /\ UNCHANGED <<pool, mutex, lease>>

\* A statement or the commit throws.
Throw(t) == Pass(t, "inTx", "unwinding")

\* Unwinding destroys tx before the PooledConnection declared above it.
Rollback(t) ==
    /\ pc[t] = "unwinding"
    /\ txOpen' = txOpen \ {lease[t]}
    /\ Move(t, "returning")
    /\ UNCHANGED <<pool, mutex, lease>>

(***************************************************************************)
(* The deleter of PooledConnection                                         *)
(***************************************************************************)

LockToReturn(t) ==
    /\ pc[t] = "returning"
    /\ mutex = NoThread
    /\ mutex' = t
    /\ Move(t, "pushing")
    /\ UNCHANGED <<pool, lease, txOpen>>

\* The push ends the scope of the lock_guard, and with it the lock.
Push(t) ==
    /\ pc[t] = "pushing"
    /\ pool' = Append(pool, lease[t])
    /\ lease' = [lease EXCEPT ![t] = NoConn]
    /\ mutex' = NoThread
    /\ Move(t, "notifying")
    /\ UNCHANGED txOpen

\* notify_one, outside the lock: one waiter wakes, if there is any.
NotifyOne(t) ==
    /\ pc[t] = "notifying"
    /\ \/ /\ Sleepers = {}
          /\ Move(t, "idle")
       \/ \E u \in Sleepers :
             pc' = [pc EXCEPT ![t] = "idle", ![u] = "locking"]
    /\ UNCHANGED <<pool, mutex, lease, txOpen>>

------------------------------------------------------------------------------

\* What a thread does once it has called Connection(), when it is not asleep.
Step(t) ==
    \/ Lock(t) \/ Wait(t) \/ Take(t)
    \/ BeginTx(t) \/ BeginFails(t) \/ Commit(t) \/ Throw(t) \/ Rollback(t)
    \/ LockToReturn(t) \/ Push(t) \/ NotifyOne(t)

Next == \E t \in Threads : Request(t) \/ SpuriousWakeup(t) \/ Step(t)

Spec == Init /\ [][Next]_vars

\* A runnable thread is scheduled, and the database answers or the driver
\* throws.  Nobody has to call Connection(), nor to wake spuriously.
FairSpec == Spec /\ \A t \in Threads : WF_vars(Step(t))

------------------------------------------------------------------------------

\* Types, and no more connections in the queue than the constructor opened.
TypeOK ==
    /\ pool \in Seq(Conns)
    /\ Len(pool) <= Cardinality(Conns)
    /\ mutex \in Threads \cup {NoThread}
    /\ lease \in [Threads -> Conns \cup {NoConn}]
    /\ txOpen \subseteq Conns
    /\ pc \in [Threads -> Points]

\* No connection is in the queue twice, lent to two threads, or both lent and
\* in the queue: two threads would then interleave statements in one session.
Exclusive ==
    /\ IsInjective(pool)
    /\ \A t, u \in Threads : lease[t] = lease[u] /\ lease[t] # NoConn => t = u
    /\ \A t \in Threads : lease[t] \notin Range(pool)

\* No connection is lost, whichever way the operation that had it ended: it is
\* in the queue or with a thread that still has to give it back.
NothingLeaked ==
    \A c \in Conns :
        c \in Range(pool) \/ \E t \in At(Leasing) : lease[t] = c

\* std::queue is not thread-safe: no two threads are at once in the regions
\* that read and change it (the predicate and the pop; the deleter's push).
PoolAccessExclusive ==
    \A t, u \in At(Critical) : t = u

\* A connection never goes back to the queue with a transaction still open on
\* it: the next pqxx::work on it would throw.
PooledConnectionsClean ==
    \A c \in Range(pool) : c \notin txOpen

\* While threads sleep, there are at most as many connections in the queue as
\* there are notifications still to be sent and awake threads about to look:
\* no caller sleeps beside a connection that nobody will offer or take,
\* although notify_one comes after the unlock and wakes only one.
NoLostWakeup ==
    Sleepers # {} => Len(pool) <= Cardinality(At(Awake \cup {"notifying"}))

\* Once no operation begins any more and nobody wakes by chance, every caller is
\* served and every connection comes back to the queue, after exceptions too.
Quiet  == <>[][\A t \in Threads : ~Request(t) /\ ~SpuriousWakeup(t)]_vars
Drains == Quiet => <>[](Range(pool) = Conns /\ At({"idle"}) = Threads)

(***************************************************************************)
(* The pool implements ConnectionLease.                                    *)
(***************************************************************************)
Lending == INSTANCE ConnectionLease WITH
    free    <- Range(pool),
    wanting <- At(Asking),
    held    <- lease

\* Seen from the repositories, the mutex, the queue and the condition variable
\* amount to atomic loans of free connections, and a free connection is lent
\* as long as somebody asks.
ImplementsLease == Lending!LiveSpec
===============================================================================
