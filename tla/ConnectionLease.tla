--------------------------- MODULE ConnectionLease ---------------------------
(***************************************************************************)
(* What PostgresConnectionProvider promises to the repositories, with its  *)
(* mutex, condition variable and queue abstracted away: a caller asks for  *)
(* a connection, is lent one that nobody else has, and hands it back.      *)
(***************************************************************************)
EXTENDS Naturals

CONSTANTS
    Threads,   \* the threads that call Connection()
    Conns,     \* the connections opened by the constructor
    NoConn     \* "this thread has no connection"

VARIABLES
    free,      \* the connections nobody has
    wanting,   \* the threads inside Connection()
    held       \* held[t]: the connection lent to t, or NoConn

vars == <<free, wanting, held>>

Init ==
    /\ free = Conns
    /\ wanting = {}
    /\ held = [t \in Threads |-> NoConn]

Request(t) ==
    /\ t \notin wanting
    /\ held[t] = NoConn
    /\ wanting' = wanting \cup {t}
    /\ UNCHANGED <<free, held>>

Lease(t, c) ==
    /\ t \in wanting
    /\ c \in free
    /\ wanting' = wanting \ {t}
    /\ free' = free \ {c}
    /\ held' = [held EXCEPT ![t] = c]

Return(t) ==
    /\ held[t] # NoConn
    /\ free' = free \cup {held[t]}
    /\ held' = [held EXCEPT ![t] = NoConn]
    /\ UNCHANGED wanting

SomeLease == \E t \in Threads, c \in Conns : Lease(t, c)

Next ==
    \/ \E t \in Threads : Request(t) \/ Return(t)
    \/ SomeLease

Spec == Init /\ [][Next]_vars

\* Weak fairness of SomeLease, with its enabling condition written out: the
\* pool may starve one thread, but never sits on a free connection for ever
\* while callers wait.
LeasePossible == free # {} /\ wanting # {}
Progress == []<>(~LeasePossible) \/ []<><<SomeLease>>_vars

LiveSpec == Spec /\ Progress
==============================================================================
