SPECIFICATION Spec
CONSTANTS
    Requests = {r1, r2}
    Cron = Cron
    Tokens = {t1, t2}
    Ops <- EditRaces
    CutOff <- Anyone
    Nobody = Nobody
SYMMETRY Symmetry
PROPERTIES
    SuspendedUntilRestored
