SPECIFICATION Spec
CONSTANTS
    Requests = {r1, r2}
    Keys = {k1, k2}
    Social = social
    NoImage = none
PROPERTY RemovedImageGone
