SPECIFICATION Spec
CONSTANTS
    t1 = t1
    t2 = t2
    a = a
    b = b
    c = c
    d = d
    e = e
    Workers = {w1}
    Tournaments = {t1, t2, t3}
    StoredTournaments = {t1, t2}
    MaxTeams <- OneForOthers
    DefaultMax = 2
    GroupIds = {g1, g2}
    Names = {n1}
    Teams = {a, b, c}
    StoredTeams = {a, b}
    Batches <- MixedBatches
    HasTournamentRepo = TRUE
    HasTeamRepo = TRUE
    HasEventBus = TRUE
    Decorated = TRUE
    FormatsChange = FALSE
    StrayGets = TRUE
    DatabaseFails = TRUE
    CommitsInDoubt = TRUE
    NoRow = NoRow
    NoRequest = NoRequest
INVARIANTS
    TypeOK
    ErrorsWriteNothing
    SuccessIsComplete
    EventsHaveRows
    OvershootBounded
