SPECIFICATION Spec
CONSTANTS
    Workers = {w1, w2, w3}
    Ids = {i1, i2}
    Names = {n1, n2}
    DefaultName = EmptyName
    NoRow = NoRow
    NoRequest = NoRequest
SYMMETRY WorkersAndIds
INVARIANTS
    TypeOK
    MessagesHaveRows
    SentOnce
    SuccessAnnounced
