SPECIFICATION FairSpec
CONSTANTS
    t1 = t1
    t2 = t2
    a = a
    b = b
    c = c
    d = d
    e = e
    Workers = {w1, w2}
    Tournaments = {t1}
    StoredTournaments = {t1}
    MaxTeams <- TwoTeams
    DefaultMax = 1
    GroupIds = {g1}
    Names = {n1}
    Teams = {a, b, c, d, e}
    StoredTeams = {a, b, c, d, e}
    Batches <- RacingBatches
    HasTournamentRepo = TRUE
    HasTeamRepo = TRUE
    HasEventBus = TRUE
    Decorated = FALSE
    FormatsChange = TRUE
    StrayGets = FALSE
    DatabaseFails = TRUE
    CommitsInDoubt = FALSE
    NoRow = NoRow
    NoRequest = NoRequest
INVARIANTS
    RowsAnnounced
    OvershootBounded
PROPERTIES
    ImplementsRoster
