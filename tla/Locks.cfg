SPECIFICATION LocksSpec
CONSTANTS
    Thread = {t1, t2, t3, t4}
    InitVal = 0
    MaxVal = 2
    Bound = 3
    NoThread = NoThread
    DrmThread = {t1, t2}
    DRM = {d1, d2}
    Nobody = Nobody
INVARIANTS NoStrandedUnit GraphAndLocksAgree
PROPERTIES UnitsGetTaken CallsReturn
