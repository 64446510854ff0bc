SPECIFICATION Spec
CONSTANTS
    t1 = t1
    t2 = t2
    t3 = t3
    t4 = t4
    t5 = t5
    t6 = t6
    t7 = t7
    t8 = t8
    t9 = t9
    Teams = {t1, t2, t3, t4, t5, t6, t7, t8, t9}
    MatchLists <- AllLists
    NoScore = NoScore
    NoBracket = NoBracket
INVARIANTS
    RowsMatchResults
    BestQualify
    SeedsMeetLate
CHECK_DEADLOCK FALSE
