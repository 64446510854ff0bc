SPECIFICATION Spec
CONSTANTS
    Workers = {w1, w2}
    Ids = {i1, i2, i3}
    Names = {n1, n2}
    Garbage = Garbage
    NoRow = NoRow
    NoLocation = NoLocation
    NoRequest = NoRequest
SYMMETRY Alike
INVARIANTS
    TypeOK
    AnswersTrue
    OneCreator
