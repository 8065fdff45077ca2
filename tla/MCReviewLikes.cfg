SPECIFICATION Spec
CONSTANTS
    Requests = {r1, r2}
    Users = {u1, u2}
    Texts = {a, b}
    MaxCount = 2
    CutOff <- Anyone
    Gone = Gone
INVARIANTS
    TypeOK
    LikesCounted
    NoDuplicateLike
PROPERTIES
    RequestsEnd
