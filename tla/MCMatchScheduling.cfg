SPECIFICATION SchedulingSpec
CONSTANTS
    a = a
    b = b
    c = c
    Workers = {w1, w2}
    Tournaments = {t1}
    StoredTournaments = {t1}
    MaxTeams <- TwoTeams
    DefaultMax = 2
    GroupIds = {g1}
    Names = {n1}
    Teams = {a, b, c}
    StoredTeams = {a, b, c}
    Batches <- SomeBatches
    HasTournamentRepo = TRUE
    HasTeamRepo = TRUE
    HasEventBus = TRUE
    Decorated = FALSE
    FormatsChange = FALSE
    StrayGets = FALSE
    DatabaseFails = TRUE
    CommitsInDoubt = FALSE
    ConsumerMax = 2
    NoRow = NoRow
    NoRequest = NoRequest
    NoEvent = NoEvent
INVARIANTS
    ScheduledAreFull
    FullAreScheduled
