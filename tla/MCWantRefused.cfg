SPECIFICATION Spec
CONSTANTS
    Requests = {r1, r2}
    EntryIds = {e1, e2, e3}
    ReviewIds = {v1, v2, v3}
    Days = {d1, d2}
    CutOff <- Anyone
    Nothing = Nothing
    Keep = Keep
SYMMETRY Symmetry
PROPERTY
    WantRefusedWithReview
