SPECIFICATION FairSpec
CONSTANTS
    Threads = {t1, t2, t3, t4}
    Conns = {c1, c2}
    NoConn = NoConn
    NoThread = NoThread
INVARIANTS
    TypeOK
    Exclusive
    NothingLeaked
    PoolAccessExclusive
    PooledConnectionsClean
    NoLostWakeup
PROPERTIES
    ImplementsLease
    Drains
