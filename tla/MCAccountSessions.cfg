SPECIFICATION Spec
CONSTANTS
    Requests = {r1, r2}
    Cron = Cron
    Tokens = {t1, t2, t3}
    Ops <- Sessions
    CutOff <- Anyone
    Nobody = Nobody
SYMMETRY Symmetry
INVARIANTS
    TypeOK
    OneLiveTokenPerLogin
    RefreshBarrier
PROPERTIES
    DeadSessionsStayDead
