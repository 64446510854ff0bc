SPECIFICATION Spec
CONSTANTS
    t1 = t1
    t2 = t2
    a = a
    b = b
    c = c
    d = d
    e = e
    Workers = {w1, w2}
    Tournaments = {t1}
    StoredTournaments = {t1}
    MaxTeams <- TwoTeams
    DefaultMax = 2
    GroupIds = {g1, g2}
    Names = {n1}
    Teams = {a, b, c, d, e}
    StoredTeams = {a, b, c, d, e}
    Batches <- RacingBatches
    HasTournamentRepo = TRUE
    HasTeamRepo = TRUE
    HasEventBus = TRUE
    Decorated = FALSE
    FormatsChange = FALSE
    StrayGets = TRUE
    DatabaseFails = FALSE
    CommitsInDoubt = FALSE
    NoRow = NoRow
    NoRequest = NoRequest
INVARIANTS
    RowsAnnounced
