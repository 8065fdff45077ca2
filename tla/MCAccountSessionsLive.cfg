SPECIFICATION Spec
CONSTANTS
    Requests = {r1, r2}
    Cron = Cron
    Tokens = {t1, t2}
    Ops <- Locking
    CutOff = {}
    Nobody = Nobody
PROPERTIES
    ExpiredTokensGo
    RequestsEnd
